---------------------------- MODULE PeersProofs ----------------------------
(* The peers of a torrent, for every set of addresses and any number of    *)
(* Peer objects: the count of connections, the map, the queue, the wires   *)
(* and the sockets that outlive the torrent.  Then the handshake of two    *)
(* peers: whatever the keys, the paddings and the breaks of the stream,    *)
(* two ends that come to know each other agree.                            *)
EXTENDS Peers, Handshake, FiniteSetTheorems, SequenceTheorems, TLAPS

PeerRecord ==
    [kind : {"free", "out", "in", "new"}, addr : Addresses \cup {NoPeer}, live : BOOLEAN,
     connected : BOOLEAN, swarm : BOOLEAN,
     socket : {"none", "dialing", "open", "closing"}, retries : Nat,
     lost : {"no", "queued", "replaced", "ghost"}]

(* One Peer by itself: a connection is of a peer that lives and has an     *)
(* open socket, only outgoing peers are dialed, an outgoing peer has its   *)
(* swarm as long as it lives, an incoming one when the torrent has         *)
(* registered it, and a socket whose peer has left the swarm is being      *)
(* closed, unless its end is one the history records.                      *)
Sound(x) ==
    /\ x \in PeerRecord
    /\ x.kind = "free" => x = Unused
    /\ x.kind # "free" => x.addr \in Addresses
    /\ x.connected => x.live /\ x.socket = "open"
    /\ x.kind = "out" => x.live = x.swarm
    /\ x.kind = "new" => ~x.swarm /\ (x.live => x.connected) /\ x.lost = "no"
    /\ x.socket = "dialing" => x.kind = "out"
    /\ x.kind \in {"out", "in"} /\ ~x.swarm /\ x.socket \in {"dialing", "open"} => x.lost # "no"

Connected(p) == {o \in Objects : p[o].swarm /\ p[o].connected}

Listed(reg) == {a \in Addresses : reg[a] # NoPeer}

(* The map and the members, as in RegistryAgrees.                          *)
Mapped(p, reg, len) ==
    /\ \A a \in Addresses : reg[a] # NoPeer =>
          /\ p[reg[a]].swarm /\ p[reg[a]].addr = a
          /\ p[reg[a]].live \/ p[reg[a]].lost = "ghost"
    /\ \A o \in Objects : p[o].swarm /\ p[o].lost # "replaced" => reg[p[o].addr] = o
    /\ len >= Cardinality(Listed(reg))

(* The queue, as in QueueIsWaiting; a peer that ended in it is marked.     *)
Queued(p, q) ==
    /\ q \in Seq(Objects)
    /\ \A i, j \in 1 .. Len(q) : q[i] = q[j] => i = j
    /\ \A o \in Objects : p[o].live /\ p[o].socket = "none" => o \in Members(q)
    /\ \A o \in Members(q) : p[o].kind = "out" /\ p[o].socket = "none"
                             /\ (~p[o].live => p[o].lost # "no")

Explained(p) ==
    \A o \in Objects : p[o].socket \in {"dialing", "open"} /\ p[o].kind # "new" => p[o].lost # "no"

(* The inductive invariant, about values: the steps of the code are        *)
(* compositions of a few changes, and each change preserves it.            *)
PoolOK(p, reg, len, num, ws, q, tm, dst) ==
    /\ p \in [Objects -> PeerRecord] /\ \A o \in Objects : Sound(p[o])
    /\ reg \in [Addresses -> Objects \cup {NoPeer}] /\ len \in Int
    /\ num = Cardinality(Connected(p))
    /\ ws \subseteq Objects /\ \A o \in ws : p[o].live /\ p[o].connected /\ p[o].swarm
    /\ Queued(p, q)
    /\ tm \subseteq Objects /\ \A o \in tm : p[o].kind = "out"
    /\ IF dst THEN Explained(p) ELSE Mapped(p, reg, len)

PInv ==
    /\ PoolOK(peer, registered, peersLength, numConns, wires, queue, timers, destroyed)
    /\ paused \in BOOLEAN /\ destroyed \in BOOLEAN

-----------------------------------------------------------------------------
LEMMA UnusedSound == Sound(Unused)
  BY DEF Sound, Unused, PeerRecord

LEMMA FiniteSets ==
    /\ \A p : IsFiniteSet(Connected(p)) /\ Cardinality(Connected(p)) \in Nat
    /\ \A reg : IsFiniteSet(Listed(reg)) /\ Cardinality(Listed(reg)) \in Nat
<1>1. IsFiniteSet(Objects) /\ IsFiniteSet(Addresses)
  BY PeersAssumption
<1>2. \A p : Connected(p) \in SUBSET Objects
  BY DEF Connected
<1>3. \A reg : Listed(reg) \in SUBSET Addresses
  BY DEF Listed
<1>. QED
  BY <1>1, <1>2, <1>3, FS_Subset, FS_CardinalityType

(* What nobody refers to any more is no member.                            *)
LEMMA SweepOK ==
    ASSUME NEW p, NEW reg, NEW len, NEW num, NEW ws, NEW q, NEW tm, NEW dst,
           PoolOK(p, reg, len, num, ws, q, tm, dst),
           NEW kept \in SUBSET Objects,
           \A o \in Objects : \/ p[o].live \/ p[o].socket # "none"
                              \/ o \in Members(q) \cup tm
                              \/ \E a \in Addresses : reg[a] = o
                              => o \in kept
    PROVE  PoolOK([o \in Objects |-> IF o \in kept THEN p[o] ELSE Unused],
                  reg, len, num, ws, q, tm, dst)
<1>. DEFINE g == [o \in Objects |-> IF o \in kept THEN p[o] ELSE Unused]
<1>1. \A o \in Objects : Sound(p[o]) /\ Sound(g[o]) /\ g[o] \in PeerRecord
  BY UnusedSound DEF PoolOK, Sound
<1>2. \A o \in Objects \ kept : /\ g[o] = Unused
                               /\ ~g[o].live /\ ~g[o].swarm /\ ~g[o].connected
                               /\ g[o].socket = "none"
  BY DEF Unused
<1>3. \A o \in kept : g[o] = p[o]
  OBVIOUS
<1>4. \A o \in Objects : p[o].connected => p[o].live
  BY <1>1 DEF Sound
<1>. g \in [Objects -> PeerRecord]
  BY <1>1
<1>. HIDE DEF g
<1>5. Connected(g) = Connected(p)
  BY <1>2, <1>3, <1>4 DEF Connected
<1>6. \A o \in ws : g[o].live /\ g[o].connected /\ g[o].swarm
  BY <1>3 DEF PoolOK
<1>7. Members(q) \subseteq Objects
  BY DEF Members, PoolOK, Queued
<1>8. Queued(g, q)
  <2>1. \A o \in Members(q) : o \in kept /\ g[o] = p[o]
    BY <1>3, <1>7
  <2>2. \A o \in Objects : g[o].live => g[o] = p[o]
    BY <1>2, <1>3
  <2>. QED
    BY <2>1, <2>2 DEF PoolOK, Queued
<1>9. \A o \in tm : g[o].kind = "out"
  BY <1>3 DEF PoolOK
<1>10. dst => Explained(g)
  BY <1>2, <1>3 DEF PoolOK, Explained
<1>11. ~dst => Mapped(g, reg, len)
  <2>. SUFFICES ASSUME ~dst PROVE Mapped(g, reg, len)
    OBVIOUS
  <2>1. \A a \in Addresses : reg[a] # NoPeer => reg[a] \in kept /\ g[reg[a]] = p[reg[a]]
    BY <1>3 DEF PoolOK
  <2>2. \A o \in Objects : g[o].swarm => g[o] = p[o]
    BY <1>2, <1>3
  <2>. QED
    BY <2>1, <2>2 DEF PoolOK, Mapped
<1>. QED
  BY <1>1, <1>5, <1>6, <1>8, <1>9, <1>10, <1>11 DEF PoolOK, g

(* Peers at the head of the queue are dialed.                              *)
Dial(p, q, k) ==
    [o \in Objects |-> IF o \in {q[i] : i \in 1 .. k} THEN [p[o] EXCEPT !.socket = "dialing"]
                      ELSE p[o]]

LEMMA DialOK ==
    ASSUME NEW p, NEW reg, NEW len, NEW num, NEW ws, NEW q, NEW tm, NEW dst,
           PoolOK(p, reg, len, num, ws, q, tm, dst),
           NEW k \in 0 .. Len(q), dst => k = 0
    PROVE  PoolOK(Dial(p, q, k), reg, len, num, ws, SubSeq(q, k + 1, Len(q)), tm, dst)
<1>. DEFINE g == Dial(p, q, k)
            r == SubSeq(q, k + 1, Len(q))
            dialed == {q[i] : i \in 1 .. k}
<1>1. /\ q \in Seq(Objects) /\ Len(q) \in Nat
      /\ \A i, j \in 1 .. Len(q) : q[i] = q[j] => i = j
  BY LenProperties DEF PoolOK, Queued
<1>2. /\ r \in Seq(Objects) /\ Len(r) = Len(q) - k
      /\ \A i \in 1 .. Len(q) - k : r[i] = q[i + k]
  BY <1>1, SubSeqProperties
<1>. HIDE DEF r
<1>3. Members(r) = Members(q) \ dialed /\ dialed \subseteq Members(q)
  <2>1. Members(q) = {q[i] : i \in 1 .. Len(q)} /\ Members(r) = {r[i] : i \in 1 .. Len(r)}
    <3>1. DOMAIN q = 1 .. Len(q) /\ DOMAIN r = 1 .. Len(r)
      BY <1>1, <1>2
    <3>. QED
      BY <3>1, Zenon DEF Members
  <2>2. \A i \in 1 .. Len(q) : i \in 1 .. k \/ (i - k \in 1 .. Len(r) /\ r[i - k] = q[i])
    BY <1>1, <1>2
  <2>3. \A i \in 1 .. Len(r) : i + k \in 1 .. Len(q) /\ i + k \notin 1 .. k
    BY <1>1, <1>2
  <2>4. \A i \in 1 .. k : i \in 1 .. Len(q)
    BY <1>1
  <2>5. Members(r) \subseteq Members(q) \ dialed
    BY <1>1, <1>2, <2>1, <2>3, <2>4
  <2>. QED
    BY <2>1, <2>2, <2>4, <2>5
<1>4. \A o \in Members(q) : /\ o \in Objects /\ p[o].kind = "out" /\ p[o].socket = "none"
                            /\ (~p[o].live => p[o].lost # "no")
  BY <1>1 DEF PoolOK, Queued, Members
<1>5. p \in [Objects -> PeerRecord] /\ \A o \in Objects : Sound(p[o])
  BY DEF PoolOK
<1>6. /\ \A o \in Objects \ dialed : g[o] = p[o]
      /\ \A o \in dialed : g[o] = [p[o] EXCEPT !.socket = "dialing"]
  BY <1>3, <1>4 DEF Dial
<1>7. \A o \in dialed : /\ g[o].socket = "dialing" /\ g[o].kind = "out"
                        /\ g[o].live = p[o].live /\ g[o].swarm = p[o].swarm
                        /\ g[o].connected = p[o].connected /\ g[o].addr = p[o].addr
                        /\ g[o].lost = p[o].lost
  <2>. SUFFICES ASSUME NEW o \in dialed
                PROVE  LET x == [p[o] EXCEPT !.socket = "dialing"]
                       IN  /\ x.socket = "dialing" /\ x.kind = "out"
                           /\ x.live = p[o].live /\ x.swarm = p[o].swarm
                           /\ x.connected = p[o].connected /\ x.addr = p[o].addr
                           /\ x.lost = p[o].lost
    BY <1>6
  <2>1. p[o] \in PeerRecord /\ p[o].kind = "out"
    BY <1>3, <1>4, <1>5
  <2>. QED
    BY <2>1 DEF PeerRecord
<1>. DEFINE same(o) == /\ g[o].kind = p[o].kind /\ g[o].live = p[o].live
                       /\ g[o].swarm = p[o].swarm /\ g[o].connected = p[o].connected
                       /\ g[o].addr = p[o].addr /\ g[o].lost = p[o].lost
<1>8. \A o \in Objects : same(o)
  BY <1>3, <1>4, <1>6, <1>7
<1>. HIDE DEF dialed
<1>9. \A o \in Objects : Sound(g[o])
  <2>1. \A o \in dialed : Sound(g[o])
    <3>. SUFFICES ASSUME NEW o \in dialed PROVE Sound(g[o])
      OBVIOUS
    <3>1. o \in Objects /\ Sound(p[o]) /\ p[o].kind = "out" /\ p[o].socket = "none"
          /\ (~p[o].live => p[o].lost # "no")
      BY <1>3, <1>4, <1>5
    <3>2. g[o] \in PeerRecord
      <4>1. p[o] \in PeerRecord /\ g[o] = [p[o] EXCEPT !.socket = "dialing"]
        BY <1>5, <1>6, <3>1
      <4>. HIDE DEF g
      <4>. QED
        BY <4>1 DEF PeerRecord
    <3>. QED
      BY <1>7, <3>1, <3>2 DEF Sound
  <2>. QED
    BY <1>5, <1>6, <2>1
<1>10. g \in [Objects -> PeerRecord]
  BY <1>9 DEF Sound, Dial
<1>. HIDE DEF g
<1>11. Connected(g) = Connected(p)
  BY <1>8 DEF Connected
<1>12. Queued(g, r)
  <2>1. \A i, j \in 1 .. Len(r) : r[i] = r[j] => i = j
    BY <1>1, <1>2
  <2>2. \A o \in Objects : g[o].live /\ g[o].socket = "none" => o \in Members(r)
    BY <1>3, <1>6, <1>7 DEF PoolOK, Queued
  <2>3. \A o \in Members(r) : g[o] = p[o] /\ o \in Members(q)
    BY <1>3, <1>4, <1>6
  <2>4. \A o \in Members(q) : p[o].kind = "out" /\ p[o].socket = "none"
                             /\ (~p[o].live => p[o].lost # "no")
    BY DEF PoolOK, Queued
  <2>5. \A o \in Members(r) : g[o].kind = "out" /\ g[o].socket = "none"
                             /\ (~g[o].live => g[o].lost # "no")
    BY <2>3, <2>4
  <2>. QED
    BY <1>2, <2>1, <2>2, <2>5 DEF Queued
<1>13. dst => Explained(g)
  <2>. SUFFICES ASSUME dst PROVE Explained(g)
    OBVIOUS
  <2>1. dialed = {}
    BY DEF dialed
  <2>. QED
    BY <1>6, <2>1 DEF PoolOK, Explained
<1>14. ~dst => Mapped(g, reg, len)
  BY <1>8 DEF PoolOK, Mapped
<1>15. \A o \in ws \cup tm : same(o)
  BY <1>8 DEF PoolOK
<1>. QED
  BY <1>9, <1>10, <1>11, <1>12, <1>13, <1>14, <1>15 DEF PoolOK, g, r

(* #drain, and the collector after it.                                     *)
LEMMA DrainOK ==
    ASSUME NEW f, NEW q, NEW n \in Nat, NEW conns, Drain(f, q, n, conns),
           destroyed \in BOOLEAN,
           PoolOK(f, registered', peersLength', numConns', wires', q, timers', destroyed)
    PROVE  PoolOK(peer', registered', peersLength', numConns', wires', queue', timers', destroyed)
<1>. DEFINE k == IF Stopped(conns) THEN 0 ELSE IF n < Len(q) THEN n ELSE Len(q)
            g == Dial(f, q, k)
            kept == {o \in Objects : Reachable(g, o)}
<1>1. Len(q) \in Nat
  BY LenProperties DEF PoolOK, Queued
<1>2. k \in 0 .. Len(q) /\ (destroyed => k = 0)
  BY <1>1 DEF Stopped
<1>3. queue' = SubSeq(q, k + 1, Len(q)) /\ peer' = Swept(g)
  BY DEF Drain, Dial
<1>. HIDE DEF k
<1>4. PoolOK(g, registered', peersLength', numConns', wires', queue', timers', destroyed)
  BY <1>2, <1>3, DialOK
<1>5. peer' = [o \in Objects |-> IF o \in kept THEN g[o] ELSE Unused]
  BY <1>3 DEF Swept
<1>6. \A o \in Objects : \/ g[o].live \/ g[o].socket # "none"
                         \/ o \in Members(queue') \cup timers'
                         \/ \E a \in Addresses : registered'[a] = o
                         => o \in kept
  BY DEF Reachable
<1>7. kept \in SUBSET Objects
  OBVIOUS
<1>. HIDE DEF g, kept
<1>8. PoolOK([o \in Objects |-> IF o \in kept THEN g[o] ELSE Unused], registered',
             peersLength', numConns', wires', queue', timers', destroyed)
  BY <1>4, <1>6, <1>7, SweepOK
<1>. QED
  BY <1>5, <1>8

-----------------------------------------------------------------------------
(* A new outgoing peer is registered and queued.                           *)
LEMMA JoinsOK ==
    ASSUME NEW p, NEW reg, NEW len, NEW num, NEW ws, NEW q, NEW tm, NEW dst,
           PoolOK(p, reg, len, num, ws, q, tm, dst), ~dst,
           NEW a \in Addresses, reg[a] = NoPeer, NEW n \in Nat,
           NEW o \in Objects, p[o] = Unused
    PROVE  PoolOK([p EXCEPT ![o] = Outgoing(a, n)], [reg EXCEPT ![a] = o], len + 1, num, ws,
                  Append(q, o), tm, dst)
<1>. DEFINE g == [p EXCEPT ![o] = Outgoing(a, n)]
            rg == [reg EXCEPT ![a] = o]
            r == Append(q, o)
<1>1. /\ p \in [Objects -> PeerRecord] /\ \A x \in Objects : Sound(p[x])
      /\ reg \in [Addresses -> Objects \cup {NoPeer}] /\ len \in Int
      /\ q \in Seq(Objects) /\ Len(q) \in Nat /\ o # NoPeer
  BY LenProperties, PeersAssumption DEF PoolOK, Queued
<1>2. /\ Outgoing(a, n) \in PeerRecord /\ Outgoing(a, n).kind = "out"
      /\ Outgoing(a, n).live /\ Outgoing(a, n).swarm /\ ~Outgoing(a, n).connected
      /\ Outgoing(a, n).socket = "none" /\ Outgoing(a, n).addr = a
      /\ Outgoing(a, n).lost = "no"
  BY DEF Outgoing, Unused, PeerRecord
<1>3. ~p[o].live /\ ~p[o].swarm /\ ~p[o].connected /\ p[o].kind = "free"
  BY DEF Unused
<1>4. g[o] = Outgoing(a, n) /\ \A x \in Objects \ {o} : g[x] = p[x]
  BY <1>1
<1>5. Sound(Outgoing(a, n))
  BY <1>2 DEF Sound
<1>6. g \in [Objects -> PeerRecord]
  BY <1>1, <1>2
<1>7. rg \in [Addresses -> Objects \cup {NoPeer}]
      /\ rg[a] = o /\ \A b \in Addresses \ {a} : rg[b] = reg[b]
  BY <1>1
<1>8. /\ r \in Seq(Objects) /\ Len(r) = Len(q) + 1
      /\ \A i \in 1 .. Len(q) : r[i] = q[i]
      /\ r[Len(q) + 1] = o
  BY <1>1, AppendProperties
<1>9. Members(r) = Members(q) \cup {o} /\ o \notin Members(q) /\ Members(q) \subseteq Objects
  <2>1. DOMAIN q = 1 .. Len(q) /\ DOMAIN r = 1 .. Len(r)
        /\ 1 .. Len(r) = 1 .. Len(q) \cup {Len(q) + 1}
    BY <1>1, <1>8
  <2>2. Members(r) \subseteq Members(q) \cup {o} /\ Members(q) \subseteq Members(r)
        /\ o \in Members(r) /\ Members(q) \subseteq Objects
    BY <1>1, <1>8, <2>1 DEF Members
  <2>3. o \notin Members(q)
    BY <1>3 DEF PoolOK, Queued
  <2>. QED
    BY <2>2, <2>3
<1>. HIDE DEF g, rg, r
<1>10. Connected(g) = Connected(p)
  BY <1>2, <1>3, <1>4 DEF Connected
<1>11. \A x \in ws \cup tm : x # o
  BY <1>3 DEF PoolOK
<1>12. Queued(g, r)
  <2>1. \A i, j \in 1 .. Len(r) : r[i] = r[j] => i = j
    <3>1. \A i \in 1 .. Len(q) : q[i] # o
      BY <1>1, <1>9 DEF Members
    <3>2. \A i \in 1 .. Len(r) : i \in 1 .. Len(q) \/ i = Len(q) + 1
      BY <1>1, <1>8
    <3>. QED
      BY <1>8, <3>1, <3>2 DEF PoolOK, Queued
  <2>2. \A x \in Objects : g[x].live /\ g[x].socket = "none" => x \in Members(r)
    BY <1>4, <1>9 DEF PoolOK, Queued
  <2>3. \A x \in Members(r) : g[x].kind = "out" /\ g[x].socket = "none"
                             /\ (~g[x].live => g[x].lost # "no")
    BY <1>2, <1>4, <1>9 DEF PoolOK, Queued
  <2>. QED
    BY <1>8, <2>1, <2>2, <2>3 DEF Queued
<1>13. Mapped(g, rg, len + 1)
  <2>0. Mapped(p, reg, len)
    BY DEF PoolOK
  <2>1. \A b \in Addresses : rg[b] # NoPeer =>
          g[rg[b]].swarm /\ g[rg[b]].addr = b /\ (g[rg[b]].live \/ g[rg[b]].lost = "ghost")
    BY <1>1, <1>2, <1>3, <1>4, <1>7, <2>0 DEF Mapped
  <2>2. \A x \in Objects : g[x].swarm /\ g[x].lost # "replaced" => rg[g[x].addr] = x
    <3>1. \A x \in Objects \ {o} : p[x].swarm => p[x].addr \in Addresses
      BY <1>1 DEF Sound, Unused
    <3>2. \A x \in Objects \ {o} : p[x].swarm /\ p[x].lost # "replaced" => rg[p[x].addr] = x
      BY <1>1, <1>7, <2>0, <3>1, PeersAssumption DEF Mapped
    <3>. QED
      BY <1>2, <1>4, <1>7, <3>2
  <2>3. len + 1 >= Cardinality(Listed(rg))
    <3>1. Listed(rg) = Listed(reg) \cup {a} /\ a \notin Listed(reg)
      BY <1>1, <1>7 DEF Listed
    <3>2. Cardinality(Listed(rg)) = Cardinality(Listed(reg)) + 1
          /\ Cardinality(Listed(reg)) \in Nat
      BY <3>1, FiniteSets, FS_AddElement
    <3>. QED
      BY <1>1, <2>0, <3>2 DEF Mapped
  <2>. QED
    BY <2>1, <2>2, <2>3 DEF Mapped
<1>14. /\ \A x \in Objects : Sound(g[x])
       /\ \A x \in ws : g[x].live /\ g[x].connected /\ g[x].swarm
       /\ \A x \in tm : g[x].kind = "out"
  BY <1>1, <1>4, <1>5, <1>11 DEF PoolOK
<1>15. len + 1 \in Int /\ num = Cardinality(Connected(g)) /\ ws \subseteq Objects /\ tm \subseteq Objects
  BY <1>1, <1>10 DEF PoolOK
<1>. QED
  BY <1>6, <1>7, <1>12, <1>13, <1>14, <1>15 DEF PoolOK, g, rg, r

(* A socket that has closed, of a peer that has ended.                     *)
LEMMA ShutOK ==
    ASSUME NEW p, NEW reg, NEW len, NEW num, NEW ws, NEW q, NEW tm, NEW dst,
           PoolOK(p, reg, len, num, ws, q, tm, dst),
           NEW o \in Objects, ~p[o].live, p[o].socket # "none"
    PROVE  PoolOK([p EXCEPT ![o].socket = "none"], reg, len, num, ws, q, tm, dst)
<1>. DEFINE g == [p EXCEPT ![o].socket = "none"]
<1>1. p \in [Objects -> PeerRecord] /\ \A x \in Objects : Sound(p[x])
  BY DEF PoolOK
<1>2. /\ g[o] = [p[o] EXCEPT !.socket = "none"] /\ \A x \in Objects \ {o} : g[x] = p[x]
  BY <1>1
<1>3. /\ g[o] \in PeerRecord /\ g[o].socket = "none" /\ g[o].kind = p[o].kind
      /\ g[o].live = p[o].live /\ g[o].swarm = p[o].swarm /\ g[o].addr = p[o].addr
      /\ g[o].connected = p[o].connected /\ g[o].lost = p[o].lost
  BY <1>1, <1>2 DEF PeerRecord
<1>4. p[o].kind # "free"
  BY <1>1 DEF Sound, Unused
<1>5. g \in [Objects -> PeerRecord]
  BY <1>1, <1>3
<1>. HIDE DEF g
<1>6. \A x \in Objects : Sound(g[x])
  <2>1. Sound(g[o])
    BY <1>1, <1>3, <1>4 DEF Sound
  <2>. QED
    BY <1>1, <1>2, <2>1
<1>7. Connected(g) = Connected(p)
  BY <1>2, <1>3 DEF Connected
<1>12. \A x \in Objects : /\ g[x].kind = p[x].kind /\ g[x].live = p[x].live
                           /\ g[x].swarm = p[x].swarm /\ g[x].addr = p[x].addr
                           /\ g[x].lost = p[x].lost
                           /\ g[x].socket = IF x = o THEN "none" ELSE p[x].socket
  BY <1>2, <1>3
<1>8. Queued(g, q)
  <2>1. Queued(p, q) /\ Members(q) \subseteq Objects
    BY DEF PoolOK, Queued, Members
  <2>. QED
    BY <1>12, <2>1 DEF Queued
<1>9. dst => Explained(g)
  BY <1>12 DEF PoolOK, Explained
<1>10. ~dst => Mapped(g, reg, len)
  <2>. SUFFICES ASSUME ~dst PROVE Mapped(g, reg, len)
    OBVIOUS
  <2>1. Mapped(p, reg, len) /\ \A a \in Addresses : reg[a] # NoPeer => reg[a] \in Objects
    BY DEF PoolOK
  <2>. QED
    BY <1>12, <2>1 DEF Mapped
<1>11. /\ \A x \in ws : g[x].live /\ g[x].connected /\ g[x].swarm
       /\ \A x \in tm : g[x].kind = "out"
  BY <1>2, <1>3 DEF PoolOK
<1>. QED
  BY <1>5, <1>6, <1>7, <1>8, <1>9, <1>10, <1>11 DEF PoolOK, g

-----------------------------------------------------------------------------
(* A peer that ends, f being what its caller made of it: itself, or an     *)
(* incoming peer that the torrent does not take.                           *)
Ending(x, y) ==
    /\ x.kind # "free" /\ y \in PeerRecord /\ y.kind # "free"
    /\ y.addr = x.addr /\ y.socket = x.socket /\ y.lost = x.lost
    /\ y = x \/ (x.kind = "new" /\ ~(y.swarm /\ y.connected))

(* The fields of a peer that ended.                                        *)
LEMMA EndedFields ==
    ASSUME NEW f \in [Objects -> PeerRecord], NEW gone, NEW x \in Objects
    PROVE  /\ x \notin gone => Ended(f, gone)[x] = f[x]
           /\ x \in gone => LET y == Ended(f, gone)[x] IN
                /\ y \in PeerRecord
                /\ ~y.live /\ ~y.connected /\ ~y.swarm
                /\ y.kind = f[x].kind /\ y.addr = f[x].addr /\ y.retries = f[x].retries
                /\ y.socket = IF f[x].socket = "none" THEN "none" ELSE "closing"
                /\ y.lost = IF x \in Members(queue) THEN "queued" ELSE f[x].lost
<1>. DEFINE y == Ended(f, gone)[x]
<1>1. f[x] \in PeerRecord
  OBVIOUS
<1>2. x \notin gone => y = f[x]
  BY DEF Ended
<1>3. ASSUME x \in gone
      PROVE  y = [f[x] EXCEPT !.live = FALSE, !.connected = FALSE, !.swarm = FALSE,
                              !.socket = IF f[x].socket = "none" THEN "none" ELSE "closing",
                              !.lost = IF x \in Members(queue) THEN "queued" ELSE f[x].lost]
  BY <1>3 DEF Ended
<1>. HIDE DEF y
<1>4. ASSUME x \in gone
      PROVE  /\ y \in PeerRecord
             /\ ~y.live /\ ~y.connected /\ ~y.swarm
             /\ y.kind = f[x].kind /\ y.addr = f[x].addr /\ y.retries = f[x].retries
             /\ y.socket = IF f[x].socket = "none" THEN "none" ELSE "closing"
             /\ y.lost = IF x \in Members(queue) THEN "queued" ELSE f[x].lost
  BY <1>1, <1>3, <1>4 DEF PeerRecord
<1>. QED
  BY <1>2, <1>4 DEF y

LEMMA EndOK ==
    ASSUME PoolOK(peer, registered, peersLength, numConns, wires, queue, timers, destroyed),
           destroyed \in BOOLEAN, timers' = timers,
           NEW f, NEW o \in Objects, NEW more \in Nat, End(f, o, more),
           f \in [Objects -> PeerRecord], \A x \in Objects \ {o} : f[x] = peer[x],
           Ending(peer[o], f[o])
    PROVE  PoolOK(peer', registered', peersLength', numConns', wires', queue', timers', destroyed)
<1>. DEFINE a == f[o].addr
            gone == Gone(f, o)
            g == Ended(f, gone)
            listed == f[o].swarm /\ registered[a] # NoPeer /\ ~destroyed
            drains == IF ~listed THEN 0
                      ELSE IF registered[a] = o \/ Ghost(f, registered[a]) THEN 1 ELSE 2
<1>1. /\ numConns' = numConns - Cardinality(Counted(f, gone))
      /\ wires' = wires \ gone
      /\ registered' = IF listed THEN [registered EXCEPT ![a] = NoPeer] ELSE registered
      /\ peersLength' = IF listed THEN peersLength - 1 ELSE peersLength
      /\ Drain(g, queue, drains + more, numConns')
  BY DEF End
<1>2. /\ peer \in [Objects -> PeerRecord] /\ \A x \in Objects : Sound(peer[x])
      /\ registered \in [Addresses -> Objects \cup {NoPeer}] /\ peersLength \in Int
      /\ numConns = Cardinality(Connected(peer)) /\ Queued(peer, queue)
      /\ Members(queue) \subseteq Objects
  BY DEF PoolOK, Queued, Members
<1>3. /\ a \in Addresses /\ a = peer[o].addr
      /\ f[o].kind = peer[o].kind \/ peer[o].kind = "new"
      /\ f[o].swarm # peer[o].swarm => ~peer[o].swarm
      /\ (f[o].connected /\ f[o].swarm) <=> (peer[o].connected /\ peer[o].swarm)
  BY <1>2 DEF Ending, Sound, PeerRecord
<1>4. /\ gone = IF f[o].swarm THEN {o} \cup ({registered[a]} \ {NoPeer}) ELSE {o}
      /\ gone \subseteq Objects /\ o \in gone
  BY <1>2, <1>3 DEF Gone
<1>5. \A x \in Objects :
        /\ f[x].addr = peer[x].addr /\ f[x].lost = peer[x].lost /\ f[x].socket = peer[x].socket
        /\ f[x].kind = peer[x].kind \/ peer[x].kind = "new"
        /\ f[x].kind = "free" => peer[x].kind = "free" /\ x # o
  BY <1>3 DEF Ending
<1>. HIDE DEF gone, g, listed, drains
<1>6. \A x \in Objects \ gone : g[x] = peer[x]
  BY <1>4, EndedFields DEF g
<1>7. \A x \in gone :
        /\ g[x] \in PeerRecord
        /\ ~g[x].live /\ ~g[x].connected /\ ~g[x].swarm
        /\ g[x].kind = f[x].kind /\ g[x].addr = peer[x].addr /\ g[x].retries = f[x].retries
        /\ g[x].socket = IF peer[x].socket = "none" THEN "none" ELSE "closing"
        /\ g[x].lost = IF x \in Members(queue) THEN "queued" ELSE peer[x].lost
  BY <1>4, <1>5, EndedFields DEF g
<1>8. \A x \in Objects : g[x] \in PeerRecord /\ Sound(g[x])
  <2>1. \A x \in gone : f[x].kind = "free" => g[x] = Unused
    <3>. SUFFICES ASSUME NEW x \in gone, f[x].kind = "free" PROVE g[x] = Unused
      OBVIOUS
    <3>1. peer[x] = Unused /\ f[x] = Unused /\ x \notin Members(queue) /\ x \in Objects
      <4>1. peer[x].kind = "free" /\ x # o /\ x \in Objects
        BY <1>4, <1>5
      <4>. QED
        BY <1>2, <4>1 DEF Sound, Queued
    <3>2. Unused.live = FALSE /\ Unused.connected = FALSE /\ Unused.swarm = FALSE
          /\ Unused.socket = "none" /\ Unused \in PeerRecord
      BY UnusedSound DEF Unused, Sound
    <3>. HIDE DEF Unused
    <3>3. /\ g[x].kind = Unused.kind /\ g[x].addr = Unused.addr /\ g[x].lost = Unused.lost
          /\ g[x].retries = Unused.retries /\ g[x].socket = Unused.socket
          /\ g[x].live = Unused.live /\ g[x].connected = Unused.connected
          /\ g[x].swarm = Unused.swarm /\ g[x] \in PeerRecord
      BY <1>7, <3>1, <3>2 DEF PeerRecord
    <3>. QED
      BY <3>2, <3>3 DEF PeerRecord
  <2>2. \A x \in gone : Sound(g[x])
    <3>. SUFFICES ASSUME NEW x \in gone PROVE Sound(g[x])
      OBVIOUS
    <3>1. x \in Objects /\ Sound(peer[x])
      BY <1>2, <1>4
    <3>2. f[x].kind # "free" => peer[x].addr \in Addresses
      BY <1>3, <3>1 DEF Sound
    <3>3. CASE f[x].kind = "free"
      BY <2>1, <3>3, UnusedSound
    <3>4. CASE f[x].kind # "free"
      <4>1. f[x].kind = "new" => peer[x].lost = "no" /\ x \notin Members(queue)
        BY <1>2, <1>5, <3>1 DEF Sound, Queued
      <4>. QED
        BY <1>7, <3>2, <3>4, <4>1 DEF Sound, PeerRecord
    <3>. QED
      BY <3>3, <3>4
  <2>. QED
    BY <1>2, <1>6, <2>2 DEF Sound
<1>9. g \in [Objects -> PeerRecord]
  BY <1>8 DEF g, Ended
<1>10. numConns' = Cardinality(Connected(g))
  <2>1. Connected(g) = Connected(peer) \ gone
    BY <1>6, <1>7 DEF Connected
  <2>2. Counted(f, gone) = Connected(peer) \cap gone
    BY <1>3, <1>4 DEF Counted, Connected
  <2>3. Cardinality(Connected(g)) = Cardinality(Connected(peer)) - Cardinality(Connected(peer) \cap gone)
    BY <2>1, FiniteSets, FS_Difference
  <2>. QED
    BY <1>1, <1>2, <2>2, <2>3
<1>11. Queued(g, queue)
  <2>1. \A x \in Objects : g[x].live => g[x] = peer[x]
    BY <1>6, <1>7
  <2>2. \A x \in Members(queue) : g[x].kind = "out" /\ g[x].socket = "none"
                                 /\ (~g[x].live => g[x].lost # "no")
    BY <1>2, <1>5, <1>6, <1>7 DEF Queued
  <2>. QED
    BY <1>2, <2>1, <2>2 DEF Queued
<1>12. \A x \in timers : g[x].kind = "out" /\ x \in Objects
  BY <1>5, <1>6, <1>7 DEF PoolOK
<1>13. \A x \in wires' : g[x].live /\ g[x].connected /\ g[x].swarm /\ x \in Objects
  BY <1>1, <1>6 DEF PoolOK
<1>14. destroyed => Explained(g)
  BY <1>6, <1>7 DEF PoolOK, Explained
<1>15. ~destroyed => Mapped(g, registered', peersLength')
  <2>. SUFFICES ASSUME ~destroyed PROVE Mapped(g, registered', peersLength')
    OBVIOUS
  <2>1. Mapped(peer, registered, peersLength)
    BY DEF PoolOK
  <2>2. /\ \A b \in Addresses : registered'[b] # NoPeer =>
              registered'[b] = registered[b] /\ registered[b] \in Objects \ gone
        /\ \A b \in Addresses : registered[b] # NoPeer /\ registered[b] \notin gone =>
              registered'[b] = registered[b]
    <3>1. CASE f[o].swarm
      <4>1. \A b \in Addresses \ {a} : registered[b] # NoPeer => registered[b] \notin gone
        BY <1>2, <1>3, <1>4, <2>1, <3>1 DEF Mapped
      <4>2. registered'[a] = NoPeer /\ (registered[a] = NoPeer \/ registered[a] \in gone)
        BY <1>1, <1>2, <1>3, <1>4, <3>1 DEF listed
      <4>3. \A b \in Addresses \ {a} : registered'[b] = registered[b]
        BY <1>1, <1>2
      <4>. QED
        BY <1>2, <4>1, <4>2, <4>3
    <3>2. CASE ~f[o].swarm
      <4>1. registered' = registered /\ gone = {o}
        BY <1>1, <1>4, <3>2 DEF listed
      <4>2. \A b \in Addresses : registered[b] # NoPeer => registered[b] # o
        BY <1>3, <2>1, <3>2 DEF Mapped
      <4>. QED
        BY <1>2, <4>1, <4>2
    <3>. QED
      BY <3>1, <3>2
  <2>3. \A b \in Addresses : registered'[b] # NoPeer =>
          /\ g[registered'[b]].swarm /\ g[registered'[b]].addr = b
          /\ g[registered'[b]].live \/ g[registered'[b]].lost = "ghost"
    BY <1>6, <2>1, <2>2 DEF Mapped
  <2>4. \A x \in Objects : g[x].swarm /\ g[x].lost # "replaced" => registered'[g[x].addr] = x
    <3>. SUFFICES ASSUME NEW x \in Objects, g[x].swarm, g[x].lost # "replaced"
                  PROVE  registered'[g[x].addr] = x
      OBVIOUS
    <3>1. x \notin gone /\ g[x] = peer[x]
      BY <1>6, <1>7
    <3>2. registered[peer[x].addr] = x /\ x # NoPeer /\ peer[x].addr \in Addresses
      BY <1>2, <2>1, <3>1, PeersAssumption DEF Mapped, Sound, Unused
    <3>. QED
      BY <2>2, <3>1, <3>2
  <2>5. peersLength' >= Cardinality(Listed(registered'))
    <3>1. CASE listed
      <4>1. Listed(registered') = Listed(registered) \ {a} /\ a \in Listed(registered)
        BY <1>1, <1>2, <1>3, <3>1 DEF Listed, listed
      <4>3. IsFiniteSet(Listed(registered)) /\ Cardinality(Listed(registered)) \in Nat
        BY FiniteSets
      <4>2. Cardinality(Listed(registered')) = Cardinality(Listed(registered)) - 1
            /\ Cardinality(Listed(registered)) \in Nat
        <5>1. Cardinality(Listed(registered) \ {a}) = Cardinality(Listed(registered)) - 1
          BY <4>1, <4>3, FS_RemoveElement
        <5>. QED
          BY <4>1, <4>3, <5>1
      <4>. QED
        BY <1>1, <1>2, <2>1, <3>1, <4>2 DEF Mapped
    <3>2. CASE ~listed
      BY <1>1, <2>1, <3>2 DEF Mapped
    <3>. QED
      BY <3>1, <3>2
  <2>. QED
    BY <2>3, <2>4, <2>5 DEF Mapped
<1>16. registered' \in [Addresses -> Objects \cup {NoPeer}] /\ peersLength' \in Int
  <2>1. [registered EXCEPT ![a] = NoPeer] \in [Addresses -> Objects \cup {NoPeer}]
        /\ peersLength - 1 \in Int
    BY <1>2, <1>3
  <2>. QED
    BY <1>1, <1>2, <2>1
<1>17. PoolOK(g, registered', peersLength', numConns', wires', queue, timers', destroyed)
  BY <1>8, <1>9, <1>10, <1>11, <1>12, <1>13, <1>14, <1>15, <1>16 DEF PoolOK
<1>18. drains + more \in Nat
  BY DEF drains
<1>. QED
  BY <1>1, <1>17, <1>18, DrainOK

-----------------------------------------------------------------------------
(* An incoming peer is registered, whoever had its address.                *)
LEMMA RegisterOK ==
    ASSUME PoolOK(peer, registered, peersLength, numConns, wires, queue, timers, destroyed),
           ~destroyed,
           timers' = timers, NEW f, NEW o \in Objects, peer[o].kind = "new", Register(f, o),
           f \in [Objects -> PeerRecord], \A x \in Objects \ {o} : f[x] = peer[x],
           f[o].kind = "in", f[o].addr = peer[o].addr, f[o].live = peer[o].live,
           f[o].connected = peer[o].connected, f[o].socket = peer[o].socket,
           f[o].live \/ f[o].lost = "ghost", f[o].lost # "replaced",
           numConns' = numConns + (IF peer[o].live THEN 1 ELSE 0),
           wires' = IF peer[o].live THEN wires \cup {o} ELSE wires
    PROVE  PoolOK(peer', registered', peersLength', numConns', wires', queue', timers', destroyed)
<1>. DEFINE a == f[o].addr
            old == registered[a]
            g == [p \in Objects |->
                    IF p = o THEN [f[o] EXCEPT !.swarm = TRUE]
                    ELSE IF p = old THEN [f[p] EXCEPT !.lost = "replaced"] ELSE f[p]]
            kept == {x \in Objects : Reachable(g, x)}
<1>1. /\ registered' = [registered EXCEPT ![a] = o] /\ peersLength' = peersLength + 1
      /\ queue' = queue /\ peer' = Swept(g)
  BY DEF Register
<1>2. /\ peer \in [Objects -> PeerRecord] /\ \A x \in Objects : Sound(peer[x])
      /\ registered \in [Addresses -> Objects \cup {NoPeer}] /\ peersLength \in Int
      /\ numConns = Cardinality(Connected(peer)) /\ Queued(peer, queue)
      /\ Members(queue) \subseteq Objects /\ Mapped(peer, registered, peersLength)
  BY DEF PoolOK, Queued, Members
<1>3. a \in Addresses /\ a = peer[o].addr /\ ~peer[o].swarm /\ o # NoPeer
      /\ peer[o].socket # "dialing" /\ peer[o].live = peer[o].connected
  BY <1>2, PeersAssumption DEF Sound, PeerRecord
<1>4. \A b \in Addresses : registered[b] # o
  BY <1>2, <1>3 DEF Mapped
<1>. HIDE DEF a, kept
<1>5. LET y == g[o] IN
      /\ y \in PeerRecord /\ y.swarm /\ y.kind = "in" /\ y.addr = a
      /\ y.live = peer[o].live /\ y.connected = peer[o].connected /\ y.socket = peer[o].socket
      /\ y.live \/ y.lost = "ghost"
      /\ y.lost # "replaced"
  BY DEF PeerRecord, a
<1>6. \A x \in Objects \ {o} : g[x] = IF x = old THEN [peer[x] EXCEPT !.lost = "replaced"]
                                    ELSE peer[x]
  OBVIOUS
<1>. HIDE DEF g, old
<1>7. \A x \in Objects \ {o} :
        /\ g[x] \in PeerRecord /\ g[x].kind = peer[x].kind /\ g[x].addr = peer[x].addr
        /\ g[x].live = peer[x].live /\ g[x].connected = peer[x].connected
        /\ g[x].swarm = peer[x].swarm /\ g[x].socket = peer[x].socket
        /\ g[x].lost = IF x = old THEN "replaced" ELSE peer[x].lost
  <2>. SUFFICES ASSUME NEW x \in Objects \ {o}
                PROVE  LET z == [peer[x] EXCEPT !.lost = "replaced"] IN
                       /\ z \in PeerRecord /\ z.kind = peer[x].kind /\ z.addr = peer[x].addr
                       /\ z.live = peer[x].live /\ z.connected = peer[x].connected
                       /\ z.swarm = peer[x].swarm /\ z.socket = peer[x].socket
                       /\ z.lost = "replaced"
    BY <1>2, <1>6
  <2>1. peer[x] \in PeerRecord
    BY <1>2
  <2>. QED
    BY <2>1 DEF PeerRecord
<1>8. old # NoPeer => /\ old \in Objects \ {o} /\ peer[old].swarm /\ peer[old].addr = a
                      /\ peer[old].kind # "free"
  <2>. SUFFICES ASSUME old # NoPeer
                PROVE  /\ old \in Objects \ {o} /\ peer[old].swarm /\ peer[old].addr = a
                       /\ peer[old].kind # "free"
    OBVIOUS
  <2>1. old \in Objects \ {o} /\ peer[old].swarm /\ peer[old].addr = a
    BY <1>2, <1>3, <1>4 DEF Mapped, old
  <2>. QED
    BY <1>2, <2>1 DEF Sound, Unused
<1>9. \A x \in Objects : Sound(g[x]) /\ g[x] \in PeerRecord
  <2>1. Sound(g[o])
    BY <1>2, <1>3, <1>5 DEF Sound, PeerRecord
  <2>2. \A x \in Objects \ {o} : x # old => Sound(g[x])
    BY <1>2, <1>6
  <2>3. old # NoPeer => Sound(g[old])
    BY <1>2, <1>7, <1>8 DEF Sound
  <2>. QED
    BY <1>5, <1>7, <1>8, <2>1, <2>2, <2>3, PeersAssumption
<1>10. g \in [Objects -> PeerRecord]
  BY <1>9 DEF g
<1>11. numConns' = Cardinality(Connected(g))
  <2>1. o \notin Connected(peer)
        /\ Connected(g) = IF peer[o].live THEN Connected(peer) \cup {o} ELSE Connected(peer)
    BY <1>3, <1>5, <1>7 DEF Connected
  <2>2. Cardinality(Connected(peer) \cup {o}) = Cardinality(Connected(peer)) + 1
    BY <2>1, FiniteSets, FS_AddElement
  <2>3. Cardinality(Connected(peer)) \in Nat
    BY FiniteSets
  <2>. QED
    BY <1>2, <2>1, <2>2, <2>3
<1>12. Queued(g, queue)
  <2>1. \A x \in Objects : g[x].live /\ g[x].socket = "none" => x \in Members(queue)
    BY <1>2, <1>5, <1>7 DEF Queued
  <2>2. \A x \in Members(queue) : g[x].kind = "out" /\ g[x].socket = "none"
                                 /\ (~g[x].live => g[x].lost # "no")
    BY <1>2, <1>7 DEF Queued
  <2>. QED
    BY <1>2, <2>1, <2>2 DEF Queued
<1>13. \A x \in timers : g[x].kind = "out" /\ x \in Objects
  BY <1>7 DEF PoolOK
<1>14. \A x \in wires' : g[x].live /\ g[x].connected /\ g[x].swarm /\ x \in Objects
  <2>1. \A x \in wires : x \in Objects /\ peer[x].live /\ peer[x].connected /\ peer[x].swarm
    BY DEF PoolOK
  <2>. QED
    BY <1>3, <1>5, <1>7, <2>1
<1>15. Mapped(g, registered', peersLength')
  <2>1. \A b \in Addresses : registered'[b] = IF b = a THEN o ELSE registered[b]
    BY <1>1, <1>2
  <2>2. \A b \in Addresses : registered'[b] # NoPeer =>
          /\ g[registered'[b]].swarm /\ g[registered'[b]].addr = b
          /\ g[registered'[b]].live \/ g[registered'[b]].lost = "ghost"
    <3>1. \A b \in Addresses \ {a} : registered[b] # NoPeer =>
            registered[b] \in Objects \ {o} /\ registered[b] # old
      BY <1>2, <1>4, <1>8 DEF Mapped
    <3>. QED
      BY <1>2, <1>5, <1>7, <2>1, <3>1 DEF Mapped
  <2>3. \A x \in Objects : g[x].swarm /\ g[x].lost # "replaced" => registered'[g[x].addr] = x
    <3>. SUFFICES ASSUME NEW x \in Objects \ {o}, g[x].swarm, g[x].lost # "replaced"
                  PROVE  registered'[g[x].addr] = x
      BY <1>3, <1>5, <2>1
    <3>1. peer[x].swarm /\ peer[x].lost # "replaced" /\ x # old /\ g[x].addr = peer[x].addr
      BY <1>7
    <3>2. registered[peer[x].addr] = x /\ peer[x].addr \in Addresses
      BY <1>2, <3>1 DEF Mapped, Sound, Unused
    <3>. QED
      BY <2>1, <3>1, <3>2 DEF old
  <2>4. peersLength' >= Cardinality(Listed(registered'))
    <3>1. Listed(registered') = Listed(registered) \cup {a}
      BY <1>3, <2>1 DEF Listed
    <3>2. IsFiniteSet(Listed(registered)) /\ Cardinality(Listed(registered)) \in Nat
      BY FiniteSets
    <3>3. Cardinality(Listed(registered) \cup {a})
            \in {Cardinality(Listed(registered)), Cardinality(Listed(registered)) + 1}
      BY <3>2, FS_AddElement
    <3>5. peersLength >= Cardinality(Listed(registered))
      BY <1>2 DEF Mapped
    <3>6. peersLength' = peersLength + 1 /\ peersLength \in Int
      BY <1>1, <1>2
    <3>7. Cardinality(Listed(registered')) = Cardinality(Listed(registered) \cup {a})
      BY <3>1
    <3>. QED
      BY <3>2, <3>3, <3>5, <3>6, <3>7
  <2>. QED
    BY <2>2, <2>3, <2>4 DEF Mapped
<1>16. registered' \in [Addresses -> Objects \cup {NoPeer}] /\ peersLength' \in Int
  BY <1>1, <1>2, <1>3
<1>17. PoolOK(g, registered', peersLength', numConns', wires', queue', timers', destroyed)
  BY <1>1, <1>9, <1>10, <1>11, <1>12, <1>13, <1>14, <1>15, <1>16 DEF PoolOK
<1>18. peer' = [x \in Objects |-> IF x \in kept THEN g[x] ELSE Unused]
  BY <1>1 DEF Swept, kept
<1>19. kept \in SUBSET Objects
       /\ \A x \in Objects : \/ g[x].live \/ g[x].socket # "none"
                             \/ x \in Members(queue') \cup timers'
                             \/ \E b \in Addresses : registered'[b] = x
                             => x \in kept
  BY DEF Reachable, kept
<1>20. PoolOK([x \in Objects |-> IF x \in kept THEN g[x] ELSE Unused], registered',
              peersLength', numConns', wires', queue', timers', destroyed)
  BY <1>17, <1>19, SweepOK
<1>. QED
  BY <1>18, <1>20

(* The torrent is destroyed with the peers in its map.                     *)
LEMMA DestroyOK ==
    ASSUME PoolOK(peer, registered, peersLength, numConns, wires, queue, timers, destroyed),
           Destroy
    PROVE  PoolOK(peer', registered', peersLength', numConns', wires', queue', timers', destroyed')
<1>. DEFINE gone == {registered[a] : a \in Addresses} \ {NoPeer}
            g == Ended(peer, gone)
<1>1. /\ numConns' = numConns - Cardinality(Counted(peer, gone))
      /\ wires' = wires \ gone /\ peer' = g /\ ~destroyed /\ destroyed'
      /\ UNCHANGED <<registered, peersLength, queue, timers>>
  BY DEF Destroy, DestroyPeers
<1>2. /\ peer \in [Objects -> PeerRecord] /\ \A x \in Objects : Sound(peer[x])
      /\ registered \in [Addresses -> Objects \cup {NoPeer}] /\ peersLength \in Int
      /\ numConns = Cardinality(Connected(peer)) /\ Queued(peer, queue)
      /\ Members(queue) \subseteq Objects /\ Mapped(peer, registered, peersLength)
  BY <1>1 DEF PoolOK, Queued, Members
<1>3. gone \subseteq Objects /\ \A x \in gone : peer[x].swarm
  BY <1>2 DEF Mapped
<1>4. \A x \in Objects \ gone : peer[x].swarm => peer[x].lost = "replaced"
  BY <1>2, PeersAssumption DEF Mapped, Sound, Unused
<1>. HIDE DEF gone, g
<1>5. \A x \in Objects \ gone : g[x] = peer[x]
  BY <1>2, EndedFields DEF g
<1>6. \A x \in gone :
        /\ x \in Objects /\ g[x] \in PeerRecord /\ ~g[x].live /\ ~g[x].connected /\ ~g[x].swarm
        /\ g[x].kind = peer[x].kind /\ g[x].addr = peer[x].addr
        /\ g[x].socket = IF peer[x].socket = "none" THEN "none" ELSE "closing"
        /\ g[x].lost = IF x \in Members(queue) THEN "queued" ELSE peer[x].lost
  BY <1>2, <1>3, EndedFields DEF g
<1>7. \A x \in Objects : g[x] \in PeerRecord /\ Sound(g[x])
  <2>1. \A x \in gone : peer[x].kind # "free"
    BY <1>2, <1>3 DEF Sound, Unused
  <2>2. \A x \in gone : Sound(g[x])
    <3>. SUFFICES ASSUME NEW x \in gone PROVE Sound(g[x])
      OBVIOUS
    <3>1. x \in Objects /\ Sound(peer[x]) /\ peer[x].kind \notin {"free", "new"}
      BY <1>2, <1>3, <2>1 DEF Sound
    <3>. QED
      BY <1>6, <3>1 DEF Sound, PeerRecord
  <2>. QED
    BY <1>2, <1>5, <1>6, <2>2
<1>8. g \in [Objects -> PeerRecord]
  BY <1>7 DEF g, Ended
<1>9. numConns' = Cardinality(Connected(g))
  <2>1. Connected(g) = Connected(peer) \ gone
    BY <1>5, <1>6 DEF Connected
  <2>2. Counted(peer, gone) = Connected(peer) \cap gone
    BY <1>3 DEF Counted, Connected
  <2>3. Cardinality(Connected(g)) = Cardinality(Connected(peer)) - Cardinality(Connected(peer) \cap gone)
    BY <2>1, FiniteSets, FS_Difference
  <2>. QED
    BY <1>1, <1>2, <2>2, <2>3
<1>10. Queued(g, queue)
  <2>1. \A x \in Objects : g[x].live => g[x] = peer[x]
    BY <1>5, <1>6
  <2>2. \A x \in Members(queue) : g[x].kind = "out" /\ g[x].socket = "none"
                                 /\ (~g[x].live => g[x].lost # "no")
    BY <1>2, <1>5, <1>6 DEF Queued
  <2>. QED
    BY <1>2, <2>1, <2>2 DEF Queued
<1>11. \A x \in timers : g[x].kind = "out" /\ x \in Objects
  BY <1>5, <1>6 DEF PoolOK
<1>12. \A x \in wires' : g[x].live /\ g[x].connected /\ g[x].swarm /\ x \in Objects
  BY <1>1, <1>5 DEF PoolOK
<1>13. Explained(g)
  <2>. SUFFICES ASSUME NEW x \in Objects, g[x].socket \in {"dialing", "open"}, g[x].kind # "new"
                PROVE  g[x].lost # "no"
    BY DEF Explained
  <2>1. x \notin gone /\ g[x] = peer[x]
    BY <1>5, <1>6
  <2>2. peer[x].kind \in {"out", "in"}
    BY <1>2, <2>1 DEF Sound, PeerRecord, Unused
  <2>. QED
    BY <1>2, <1>4, <2>1, <2>2 DEF Sound
<1>. QED
  BY <1>1, <1>2, <1>7, <1>8, <1>9, <1>10, <1>11, <1>12, <1>13 DEF PoolOK

-----------------------------------------------------------------------------
LEMMA InitPInv == Init => PInv
<1>. SUFFICES ASSUME Init PROVE PInv
  OBVIOUS
<1>1. \A o \in Objects : peer[o] = Unused /\ Sound(peer[o]) /\ peer[o] \in PeerRecord
                         /\ ~peer[o].live /\ ~peer[o].swarm /\ ~peer[o].connected
  BY UnusedSound DEF Init, Sound, Unused
<1>2. peer \in [Objects -> PeerRecord] /\ registered \in [Addresses -> Objects \cup {NoPeer}]
      /\ \A a \in Addresses : registered[a] = NoPeer
  BY <1>1 DEF Init
<1>3. Connected(peer) = {} /\ Listed(registered) = {} /\ Cardinality({}) = 0
  BY <1>1, <1>2, FS_EmptySet DEF Connected, Listed
<1>4. Queued(peer, queue)
  BY <1>1 DEF Init, Queued, Members
<1>5. peersLength = 0 /\ numConns = 0 /\ wires = {} /\ timers = {} /\ ~destroyed
      /\ paused \in BOOLEAN /\ destroyed \in BOOLEAN
  BY DEF Init
<1>6. Mapped(peer, registered, peersLength)
  <2>1. peersLength >= Cardinality(Listed(registered))
    BY <1>3, <1>5
  <2>. QED
    BY <1>1, <1>2, <2>1 DEF Mapped
<1>. QED
  BY <1>1, <1>2, <1>3, <1>4, <1>5, <1>6 DEF PInv, PoolOK

(* #addPeer as its callers use it: f is the peers, or has one more socket  *)
(* closed.                                                                 *)
LEMMA JoinOK ==
    ASSUME NEW f, PoolOK(f, registered, peersLength, numConns, wires, queue, timers', destroyed),
           wires' = wires, \A o \in Objects : peer[o] = Unused => f[o] = Unused,
           destroyed \in BOOLEAN,
           NEW a \in Addresses, ~Ignored(a), NEW n \in Nat, Join(f, a, n)
    PROVE  PoolOK(peer', registered', peersLength', numConns', wires', queue', timers', destroyed)
<1>1. PICK o \in Free :
        /\ registered'  = [registered EXCEPT ![a] = o]
        /\ peersLength' = peersLength + 1
        /\ UNCHANGED numConns
        /\ Drain([f EXCEPT ![o] = Outgoing(a, n)], Append(queue, o), 1, numConns)
  BY DEF Join
<1>2. o \in Objects /\ f[o] = Unused /\ registered[a] = NoPeer /\ ~destroyed
  BY DEF Free, Ignored
<1>3. PoolOK([f EXCEPT ![o] = Outgoing(a, n)], registered', peersLength', numConns', wires',
             Append(queue, o), timers', destroyed)
  BY <1>1, <1>2, JoinsOK
<1>. QED
  BY <1>1, <1>3, DrainOK

(* The parts of the invariant that concern one peer and its timers.        *)
LEMMA PoolFacts ==
    ASSUME PInv
    PROVE  /\ PoolOK(peer, registered, peersLength, numConns, wires, queue, timers, destroyed)
           /\ destroyed \in BOOLEAN
           /\ peer \in [Objects -> PeerRecord] /\ timers \subseteq Objects
           /\ \A o \in Objects : Sound(peer[o]) /\ peer[o].retries \in Nat
           /\ \A o \in timers : peer[o].kind = "out" /\ peer[o].addr \in Addresses
<1>1. peer \in [Objects -> PeerRecord] /\ timers \subseteq Objects
      /\ \A o \in Objects : Sound(peer[o])
  BY DEF PInv, PoolOK
<1>. QED
  BY <1>1 DEF PInv, PoolOK, Sound, PeerRecord

LEMMA ConnectOK ==
    ASSUME PInv, NEW o \in Objects, Connect(o)
    PROVE  PoolOK(peer', registered', peersLength', numConns', wires', queue', timers', destroyed)
<1>. DEFINE joins == peer[o].live /\ ~destroyed
<1>1. /\ peer[o].socket = "dialing"
      /\ numConns' = numConns + IF joins THEN 1 ELSE 0
      /\ peer' = [peer EXCEPT ![o].socket = "open", ![o].connected = joins]
      /\ UNCHANGED <<registered, peersLength, wires, queue, timers>>
  BY DEF Connect
<1>2. /\ peer \in [Objects -> PeerRecord] /\ \A x \in Objects : Sound(peer[x])
      /\ numConns = Cardinality(Connected(peer)) /\ Queued(peer, queue)
      /\ Members(queue) \subseteq Objects
  BY DEF PInv, PoolOK, Queued, Members
<1>3. Sound(peer[o]) /\ ~peer[o].connected /\ peer[o].kind = "out"
      /\ peer[o].live = peer[o].swarm /\ o \notin Members(queue) /\ o \notin wires
  BY <1>1, <1>2 DEF Sound, Queued, PInv, PoolOK
<1>4. joins \in BOOLEAN
  BY <1>2 DEF PInv, PeerRecord
<1>5. /\ peer' \in [Objects -> PeerRecord]
      /\ \A x \in Objects \ {o} : peer'[x] = peer[x]
      /\ peer'[o].socket = "open" /\ peer'[o].connected = joins
      /\ peer'[o].kind = "out" /\ peer'[o].addr = peer[o].addr /\ peer'[o].live = peer[o].live
      /\ peer'[o].swarm = peer[o].swarm /\ peer'[o].lost = peer[o].lost
  <2>1. peer[o] \in PeerRecord
    BY <1>2
  <2>2. LET y == [peer[o] EXCEPT !.socket = "open", !.connected = joins] IN
        /\ y \in PeerRecord /\ y.socket = "open" /\ y.connected = joins
        /\ y.kind = "out" /\ y.addr = peer[o].addr /\ y.live = peer[o].live
        /\ y.swarm = peer[o].swarm /\ y.lost = peer[o].lost
    BY <1>3, <1>4, <2>1 DEF PeerRecord
  <2>3. peer' = [peer EXCEPT ![o] = [peer[o] EXCEPT !.socket = "open", !.connected = joins]]
    BY <1>1, <1>2
  <2>. QED
    BY <1>2, <2>2, <2>3
<1>6. joins = (peer[o].live /\ ~destroyed)
  OBVIOUS
<1>. HIDE DEF joins
<1>7. \A x \in Objects : Sound(peer'[x])
  <2>1. Sound(peer'[o])
    BY <1>1, <1>3, <1>5, <1>6 DEF Sound, PeerRecord
  <2>. QED
    BY <1>2, <1>5, <2>1
<1>8. numConns' = Cardinality(Connected(peer'))
  <2>1. o \notin Connected(peer)
        /\ Connected(peer') = IF joins THEN Connected(peer) \cup {o} ELSE Connected(peer)
    BY <1>3, <1>5, <1>6 DEF Connected
  <2>2. Cardinality(Connected(peer) \cup {o}) = Cardinality(Connected(peer)) + 1
    BY <2>1, FiniteSets, FS_AddElement
  <2>3. Cardinality(Connected(peer)) \in Nat
    BY FiniteSets
  <2>. QED
    BY <1>1, <1>2, <2>1, <2>2, <2>3
<1>9. Queued(peer', queue)
  BY <1>2, <1>3, <1>5 DEF Queued
<1>10. ~destroyed => Mapped(peer', registered, peersLength)
  <2>1. \A x \in Objects : /\ peer'[x].swarm = peer[x].swarm /\ peer'[x].addr = peer[x].addr
                           /\ peer'[x].live = peer[x].live /\ peer'[x].lost = peer[x].lost
    BY <1>5
  <2>. QED
    BY <2>1 DEF PInv, PoolOK, Mapped
<1>11. destroyed => Explained(peer')
  BY <1>1, <1>3, <1>5 DEF PInv, PoolOK, Explained
<1>. QED
  BY <1>1, <1>3, <1>5, <1>7, <1>8, <1>9, <1>10, <1>11 DEF PInv, PoolOK

LEMMA HandshakeOK ==
    ASSUME PInv, NEW o \in Objects, Handshake(o)
    PROVE  PoolOK(peer', registered', peersLength', numConns', wires', queue', timers', destroyed)
<1>1. /\ peer[o].kind = "out" /\ peer[o].connected /\ wires' = wires \cup {o}
      /\ peer' = [peer EXCEPT ![o].retries = 0]
      /\ UNCHANGED <<registered, peersLength, numConns, queue, timers>>
  BY DEF Handshake, counts
<1>2. /\ peer \in [Objects -> PeerRecord] /\ \A x \in Objects : Sound(peer[x])
      /\ Members(queue) \subseteq Objects
  BY DEF PInv, PoolOK, Queued, Members
<1>3. \A x \in Objects :
        /\ peer'[x] \in PeerRecord
        /\ peer'[x].kind = peer[x].kind /\ peer'[x].addr = peer[x].addr
        /\ peer'[x].live = peer[x].live /\ peer'[x].connected = peer[x].connected
        /\ peer'[x].swarm = peer[x].swarm /\ peer'[x].socket = peer[x].socket
        /\ peer'[x].lost = peer[x].lost
        /\ x # o => peer'[x] = peer[x]
  <2>1. peer[o] \in PeerRecord
    BY <1>2
  <2>2. LET y == [peer[o] EXCEPT !.retries = 0] IN
        /\ y \in PeerRecord /\ y.kind = peer[o].kind /\ y.addr = peer[o].addr
        /\ y.live = peer[o].live /\ y.connected = peer[o].connected
        /\ y.swarm = peer[o].swarm /\ y.socket = peer[o].socket /\ y.lost = peer[o].lost
    BY <2>1 DEF PeerRecord
  <2>3. peer' = [peer EXCEPT ![o] = [peer[o] EXCEPT !.retries = 0]]
    BY <1>1, <1>2
  <2>. QED
    BY <1>2, <2>2, <2>3
<1>4. peer' \in [Objects -> PeerRecord]
  BY <1>1, <1>2, <1>3
<1>5. \A x \in Objects : Sound(peer'[x])
  <2>1. Sound(peer'[o])
    BY <1>1, <1>2, <1>3 DEF Sound
  <2>. QED
    BY <1>2, <1>3, <2>1
<1>6. Connected(peer') = Connected(peer)
  BY <1>3 DEF Connected
<1>7. Queued(peer', queue)
  BY <1>2, <1>3 DEF PInv, PoolOK, Queued
<1>8. IF destroyed THEN Explained(peer') ELSE Mapped(peer', registered, peersLength)
  BY <1>3 DEF PInv, PoolOK, Explained, Mapped
<1>9. peer[o].live /\ peer[o].swarm
  BY <1>1, <1>2 DEF Sound
<1>. QED
  BY <1>1, <1>3, <1>4, <1>5, <1>6, <1>7, <1>8, <1>9 DEF PInv, PoolOK

LEMMA AddPeerOK ==
    ASSUME PInv, NEW a \in Known, AddPeer(a)
    PROVE  PoolOK(peer', registered', peersLength', numConns', wires', queue', timers', destroyed)
<1>1. a \in Addresses /\ ~Ignored(a) /\ wires' = wires /\ timers' = timers /\ Join(peer, a, 0)
  BY DEF AddPeer, Addresses
<1>. QED
  BY <1>1, PoolFacts, JoinOK

LEMMA RemovePeerOK ==
    ASSUME PInv, NEW a \in Addresses, RemovePeer(a)
    PROVE  PoolOK(peer', registered', peersLength', numConns', wires', queue', timers', destroyed)
<1>. DEFINE o == registered[a]
            more == IF Ghost(peer, o) THEN 0 ELSE 1
<1>1. ~destroyed /\ o # NoPeer /\ timers' = timers /\ End(peer, o, more)
  BY DEF RemovePeer
<1>2. o \in Objects /\ peer[o].swarm
  BY <1>1 DEF PInv, PoolOK, Mapped
<1>3. Ending(peer[o], peer[o])
  BY <1>2, PoolFacts DEF Ending, Sound, Unused
<1>4. more \in Nat
  OBVIOUS
<1>. HIDE DEF o, more
<1>. QED
  BY <1>1, <1>2, <1>3, <1>4, PoolFacts, EndOK

LEMMA FailOK ==
    ASSUME PInv, NEW o \in Objects, Fail(o)
    PROVE  PoolOK(peer', registered', peersLength', numConns', wires', queue', timers', destroyed)
<1>1. peer[o].live /\ timers' = timers /\ End(peer, o, 0)
  BY DEF Fail
<1>2. Ending(peer[o], peer[o])
  BY <1>1, PoolFacts DEF Ending, Sound, Unused
<1>. QED
  BY <1>1, <1>2, PoolFacts, EndOK

(* A timer more or less, of an outgoing peer.                              *)
LEMMA TimersOK ==
    ASSUME NEW p, NEW reg, NEW len, NEW num, NEW ws, NEW q, NEW tm, NEW dst,
           PoolOK(p, reg, len, num, ws, q, tm, dst),
           NEW tn \in SUBSET Objects, \A o \in tn : p[o].kind = "out"
    PROVE  PoolOK(p, reg, len, num, ws, q, tn, dst)
  BY DEF PoolOK

(* The collector alone.                                                    *)
LEMMA SweptOK ==
    ASSUME NEW f,
           PoolOK(f, registered', peersLength', numConns', wires', queue', timers', destroyed),
           peer' = Swept(f)
    PROVE  PoolOK(peer', registered', peersLength', numConns', wires', queue', timers', destroyed)
<1>. DEFINE kept == {o \in Objects : Reachable(f, o)}
<1>1. peer' = [o \in Objects |-> IF o \in kept THEN f[o] ELSE Unused]
  BY DEF Swept
<1>2. kept \in SUBSET Objects
      /\ \A o \in Objects : \/ f[o].live \/ f[o].socket # "none"
                            \/ o \in Members(queue') \cup timers'
                            \/ \E a \in Addresses : registered'[a] = o
                            => o \in kept
  BY DEF Reachable
<1>. HIDE DEF kept
<1>3. PoolOK([o \in Objects |-> IF o \in kept THEN f[o] ELSE Unused], registered',
             peersLength', numConns', wires', queue', timers', destroyed)
  BY <1>2, SweepOK
<1>. QED
  BY <1>1, <1>3

LEMMA CloseOK ==
    ASSUME PInv, NEW o \in Objects, Close(o)
    PROVE  PoolOK(peer', registered', peersLength', numConns', wires', queue', timers', destroyed)
<1>. DEFINE f == [peer EXCEPT ![o].socket = "none"]
            again == peer[o].kind = "out" /\ ~destroyed
            tcp == Utp /\ ~Ignored(peer[o].addr)
<1>1. ~peer[o].live /\ peer[o].socket # "none" /\ wires' = wires
  BY DEF Close
<1>2. PoolOK(f, registered, peersLength, numConns, wires, queue, timers, destroyed)
  BY <1>1, PoolFacts, ShutOK
<1>3. \A x \in Objects : peer[x] = Unused => f[x] = Unused
  <2>1. Unused.socket = "none"
    BY DEF Unused
  <2>2. \A x \in Objects \ {o} : f[x] = peer[x]
    BY PoolFacts
  <2>. QED
    BY <1>1, <2>1, <2>2
<1>4. peer[o].kind = "out" => peer[o].addr \in Addresses
  BY PoolFacts DEF Sound
<1>5. \A x \in Objects : f[x].kind = peer[x].kind
  BY PoolFacts DEF PeerRecord
<1>. HIDE DEF f
<1>6. CASE again /\ timers' = timers \cup {o} /\ UNCHANGED <<counts, queue>> /\ peer' = f
  <2>1. timers' \in SUBSET Objects /\ \A x \in timers' : f[x].kind = "out"
    BY <1>5, <1>6, PoolFacts
  <2>2. PoolOK(f, registered, peersLength, numConns, wires, queue, timers', destroyed)
    BY <1>2, <2>1, TimersOK
  <2>. QED
    BY <1>1, <1>6, <2>2 DEF counts
<1>7. CASE again /\ tcp /\ timers' = timers /\ Join(f, peer[o].addr, 0)
  <2>1. PoolOK(f, registered, peersLength, numConns, wires, queue, timers', destroyed)
    BY <1>2, <1>7
  <2>. QED
    BY <1>1, <1>3, <1>4, <1>7, <2>1, PoolFacts, JoinOK
<1>8. CASE UNCHANGED <<counts, queue, timers>> /\ peer' = Swept(f)
  <2>1. PoolOK(f, registered', peersLength', numConns', wires', queue', timers', destroyed)
    BY <1>1, <1>2, <1>8 DEF counts
  <2>. QED
    BY <1>8, <2>1, SweptOK
<1>. QED
  BY <1>6, <1>7, <1>8 DEF Close, f

LEMMA ReconnectOK ==
    ASSUME PInv, NEW o \in Objects, Reconnect(o)
    PROVE  PoolOK(peer', registered', peersLength', numConns', wires', queue', timers', destroyed)
<1>1. o \in timers /\ timers' = timers \ {o} /\ wires' = wires
  BY DEF Reconnect
<1>2. peer[o].addr \in Addresses /\ peer[o].retries + 1 \in Nat
  BY <1>1, PoolFacts
<1>3. PoolOK(peer, registered, peersLength, numConns, wires, queue, timers', destroyed)
  <2>1. timers' \in SUBSET Objects /\ \A x \in timers' : peer[x].kind = "out"
    BY <1>1, PoolFacts
  <2>. QED
    BY <2>1, PoolFacts, TimersOK
<1>4. CASE ~Ignored(peer[o].addr) /\ Join(peer, peer[o].addr, peer[o].retries + 1)
  BY <1>1, <1>2, <1>3, <1>4, PoolFacts, JoinOK
<1>5. CASE UNCHANGED <<counts, queue>> /\ peer' = Swept(peer)
  <2>1. PoolOK(peer, registered', peersLength', numConns', wires', queue', timers', destroyed)
    BY <1>1, <1>3, <1>5 DEF counts
  <2>. QED
    BY <1>5, <2>1, SweptOK
<1>. QED
  BY <1>4, <1>5 DEF Reconnect

LEMMA IncomingOK ==
    ASSUME PInv, NEW a \in Remote, Incoming(a)
    PROVE  PoolOK(peer', registered', peersLength', numConns', wires', queue', timers', destroyed)
<1>1. PICK o \in Objects : peer[o] = Unused /\ peer' = [peer EXCEPT ![o] = Accepted(a)]
  BY DEF Incoming, Free
<1>2. UNCHANGED <<registered, peersLength, numConns, wires, queue, timers>>
  BY DEF Incoming, counts
<1>3. LET y == Accepted(a) IN
      /\ y \in PeerRecord /\ y.kind = "new" /\ y.addr = a /\ y.live /\ y.connected /\ ~y.swarm
      /\ y.socket = "open" /\ y.lost = "no" /\ a \in Addresses
  BY DEF Accepted, Unused, PeerRecord, Addresses
<1>4. Sound(Accepted(a))
  BY <1>3 DEF Sound
<1>5. peer[o].kind = "free" /\ ~peer[o].live /\ ~peer[o].swarm /\ ~peer[o].connected
  BY <1>1 DEF Unused
<1>6. /\ peer \in [Objects -> PeerRecord] /\ Queued(peer, queue)
      /\ Members(queue) \subseteq Objects
      /\ \A x \in Objects : Sound(peer[x])
  BY DEF PInv, PoolOK, Queued, Members
<1>7. /\ peer' \in [Objects -> PeerRecord] /\ peer'[o] = Accepted(a)
      /\ \A x \in Objects \ {o} : peer'[x] = peer[x]
  BY <1>1, <1>3, <1>6
<1>8. Connected(peer') = Connected(peer)
  BY <1>3, <1>5, <1>7 DEF Connected
<1>9. o \notin Members(queue) /\ o \notin wires /\ o \notin timers
  BY <1>5, <1>6 DEF PInv, PoolOK, Queued
<1>10. Queued(peer', queue)
  BY <1>3, <1>6, <1>7, <1>9 DEF Queued
<1>11. destroyed => Explained(peer')
  BY <1>3, <1>7 DEF PInv, PoolOK, Explained
<1>12. ~destroyed => Mapped(peer', registered, peersLength)
  <2>. SUFFICES ASSUME ~destroyed PROVE Mapped(peer', registered, peersLength)
    OBVIOUS
  <2>1. Mapped(peer, registered, peersLength)
        /\ \A b \in Addresses : registered[b] # NoPeer => registered[b] \in Objects
    BY DEF PInv, PoolOK
  <2>2. \A b \in Addresses : registered[b] # NoPeer => registered[b] \in Objects \ {o}
    BY <1>5, <2>1 DEF Mapped
  <2>. QED
    BY <1>3, <1>7, <2>1, <2>2 DEF Mapped
<1>13. \A x \in Objects : Sound(peer'[x])
  BY <1>4, <1>6, <1>7
<1>. QED
  BY <1>2, <1>7, <1>8, <1>9, <1>10, <1>11, <1>12, <1>13 DEF PInv, PoolOK

LEMMA AcceptOK ==
    ASSUME PInv, NEW o \in Objects, Accept(o)
    PROVE  PoolOK(peer', registered', peersLength', numConns', wires', queue', timers', destroyed)
<1>. DEFINE f == [peer EXCEPT ![o].kind = "in"]
            g == [f EXCEPT ![o].swarm = TRUE, ![o].connected = FALSE]
<1>1. peer[o].kind = "new" /\ peer[o].live /\ timers' = timers
  BY DEF Accept
<1>2. peer \in [Objects -> PeerRecord] /\ peer[o] \in PeerRecord /\ Sound(peer[o])
  BY PoolFacts
<1>3. /\ f \in [Objects -> PeerRecord] /\ \A x \in Objects \ {o} : f[x] = peer[x]
      /\ f[o].kind = "in" /\ f[o].addr = peer[o].addr /\ f[o].live = peer[o].live
      /\ f[o].connected = peer[o].connected /\ f[o].socket = peer[o].socket
      /\ f[o].swarm = peer[o].swarm /\ f[o].lost = peer[o].lost
  BY <1>2 DEF PeerRecord
<1>4. ~peer[o].swarm
  BY <1>1, <1>2 DEF Sound
<1>. HIDE DEF f
<1>5. CASE End(f, o, 0)
  <2>1. Ending(peer[o], f[o])
    BY <1>1, <1>2, <1>3, <1>4 DEF Ending
  <2>. QED
    BY <1>1, <1>3, <1>5, <2>1, PoolFacts, EndOK
<1>6. CASE End(g, o, 0)
  <2>1. /\ g \in [Objects -> PeerRecord] /\ \A x \in Objects \ {o} : g[x] = peer[x]
        /\ g[o].kind = "in" /\ g[o].addr = peer[o].addr /\ g[o].socket = peer[o].socket
        /\ ~g[o].connected /\ g[o].lost = peer[o].lost
    <3>1. f[o] \in PeerRecord /\ g = [f EXCEPT ![o] = [f[o] EXCEPT !.swarm = TRUE, !.connected = FALSE]]
      BY <1>3
    <3>2. LET y == [f[o] EXCEPT !.swarm = TRUE, !.connected = FALSE] IN
          /\ y \in PeerRecord /\ y.kind = f[o].kind /\ y.addr = f[o].addr
          /\ y.socket = f[o].socket /\ ~y.connected /\ y.lost = f[o].lost
      BY <3>1 DEF PeerRecord
    <3>. HIDE DEF g
    <3>. QED
      BY <1>3, <3>1, <3>2
  <2>. HIDE DEF g
  <2>2. Ending(peer[o], g[o])
    BY <1>1, <1>2, <2>1 DEF Ending
  <2>. QED
    BY <1>1, <1>6, <2>1, <2>2, PoolFacts, EndOK
<1>7. CASE ~destroyed /\ Register(f, o) /\ numConns' = numConns + 1 /\ wires' = wires \cup {o}
  <2>1. f[o].lost # "replaced"
    BY <1>1, <1>2, <1>3 DEF Sound
  <2>. QED
    BY <1>1, <1>3, <1>7, <2>1, PoolFacts, RegisterOK
<1>. QED
  BY <1>5, <1>6, <1>7 DEF Accept, f

LEMMA AcceptLateOK ==
    ASSUME PInv, NEW o \in Objects, AcceptLate(o)
    PROVE  PoolOK(peer', registered', peersLength', numConns', wires', queue', timers', destroyed)
<1>. DEFINE f == [peer EXCEPT ![o].kind = "in", ![o].lost = "ghost"]
<1>1. /\ peer[o].kind = "new" /\ ~peer[o].live /\ ~destroyed /\ Register(f, o)
      /\ timers' = timers /\ numConns' = numConns /\ wires' = wires
  BY DEF AcceptLate
<1>2. peer \in [Objects -> PeerRecord] /\ peer[o] \in PeerRecord
  BY PoolFacts
<1>3. f = [peer EXCEPT ![o] = [peer[o] EXCEPT !.kind = "in", !.lost = "ghost"]]
  BY <1>2
<1>4. LET y == [peer[o] EXCEPT !.kind = "in", !.lost = "ghost"] IN
      /\ y \in PeerRecord /\ y.kind = "in" /\ y.addr = peer[o].addr /\ y.live = peer[o].live
      /\ y.connected = peer[o].connected /\ y.socket = peer[o].socket /\ y.lost = "ghost"
  BY <1>2 DEF PeerRecord
<1>. HIDE DEF f
<1>5. /\ f \in [Objects -> PeerRecord] /\ \A x \in Objects \ {o} : f[x] = peer[x]
      /\ f[o].kind = "in" /\ f[o].addr = peer[o].addr /\ f[o].live = peer[o].live
      /\ f[o].connected = peer[o].connected /\ f[o].socket = peer[o].socket
      /\ f[o].lost = "ghost"
  BY <1>2, <1>3, <1>4
<1>6. numConns \in Nat
  BY FiniteSets DEF PInv, PoolOK
<1>7. numConns' = numConns + (IF peer[o].live THEN 1 ELSE 0)
      /\ wires' = IF peer[o].live THEN wires \cup {o} ELSE wires
  BY <1>1, <1>6
<1>. QED
  BY <1>1, <1>5, <1>7, PoolFacts, RegisterOK

LEMMA ResumeOK ==
    ASSUME PInv, Resume
    PROVE  PoolOK(peer', registered', peersLength', numConns', wires', queue', timers', destroyed)
<1>1. /\ Drain(peer, queue, 1, numConns)
      /\ UNCHANGED <<registered, peersLength, numConns, wires, timers>>
  BY DEF Resume, counts
<1>2. PoolOK(peer, registered', peersLength', numConns', wires', queue, timers', destroyed)
  BY <1>1, PoolFacts
<1>. QED
  BY <1>1, <1>2, PoolFacts, DrainOK

LEMMA NextPInv == PInv /\ [Next]_vars => PInv'
<1>. SUFFICES ASSUME PInv, [Next]_vars PROVE PInv'
  OBVIOUS
<1>. DEFINE kept == PoolOK(peer', registered', peersLength', numConns', wires', queue', timers',
                           destroyed)
<1>1. ASSUME kept, UNCHANGED flags PROVE PInv'
  BY <1>1 DEF PInv, flags
<1>2. ASSUME NEW a \in Known, AddPeer(a) PROVE PInv'
  BY <1>1, <1>2, AddPeerOK DEF AddPeer
<1>3. ASSUME NEW a \in Addresses, RemovePeer(a) PROVE PInv'
  BY <1>1, <1>3, RemovePeerOK DEF RemovePeer
<1>4. ASSUME NEW o \in Objects, Connect(o) PROVE PInv'
  BY <1>1, <1>4, ConnectOK DEF Connect
<1>5. ASSUME NEW o \in Objects, Handshake(o) PROVE PInv'
  BY <1>1, <1>5, HandshakeOK DEF Handshake
<1>6. ASSUME NEW o \in Objects, Fail(o) PROVE PInv'
  BY <1>1, <1>6, FailOK DEF Fail
<1>7. ASSUME NEW o \in Objects, Close(o) PROVE PInv'
  BY <1>1, <1>7, CloseOK DEF Close
<1>8. ASSUME NEW o \in Objects, Reconnect(o) PROVE PInv'
  BY <1>1, <1>8, ReconnectOK DEF Reconnect
<1>9. ASSUME NEW a \in Remote, Incoming(a) PROVE PInv'
  BY <1>1, <1>9, IncomingOK DEF Incoming
<1>10. ASSUME NEW o \in Objects, Accept(o) PROVE PInv'
  BY <1>1, <1>10, AcceptOK DEF Accept
<1>11. ASSUME NEW o \in Objects, AcceptLate(o) PROVE PInv'
  BY <1>1, <1>11, AcceptLateOK DEF AcceptLate
<1>12. CASE Pause
  <2>1. UNCHANGED <<peer, registered, peersLength, numConns, wires, queue, timers, destroyed>>
        /\ paused' \in BOOLEAN
    BY <1>12 DEF Pause, counts
  <2>. QED
    BY <2>1 DEF PInv
<1>13. CASE Resume
  <2>1. kept /\ paused' \in BOOLEAN /\ destroyed' = destroyed
    BY <1>13, ResumeOK DEF Resume
  <2>. QED
    BY <2>1 DEF PInv
<1>14. CASE Destroy
  <2>1. destroyed' \in BOOLEAN /\ paused' = paused
    BY <1>14 DEF Destroy, DestroyPeers
  <2>. QED
    BY <1>14, <2>1, DestroyOK DEF PInv
<1>15. CASE UNCHANGED vars
  <2>1. UNCHANGED <<peer, registered, peersLength, numConns, wires, queue, timers, paused, destroyed>>
    BY <1>15 DEF vars, counts, flags
  <2>. QED
    BY <2>1 DEF PInv
<1>. QED
  BY <1>2, <1>3, <1>4, <1>5, <1>6, <1>7, <1>8, <1>9, <1>10, <1>11, <1>12, <1>13, <1>14, <1>15
     DEF Next

-----------------------------------------------------------------------------
(* #numConns, on which #drain decides whether to open a connection, is the *)
(* number of connected members in every state: whatever order sockets      *)
(* connect, fail and close in, peers are replaced, removed or registered   *)
(* after their end, and the torrent is paused, resumed or destroyed.       *)
THEOREM CountRight == Spec => []ConnsCounted
<1>1. PInv => ConnsCounted
  BY DEF PInv, PoolOK, ConnsCounted, Connected
<1>. QED
  BY <1>1, InitPInv, NextPInv, PTL DEF Spec

(* The map, the wires and the queue agree with the peers in every state:   *)
(* every member is registered unless an incoming one took its place, no    *)
(* wire is that of a destroyed peer, and a peer that has not been dialed   *)
(* waits in the queue once.                                                *)
THEOREM AgreeAlways == Spec => []PeersAgree
<1>1. PInv => PeersAgree
  <2>. SUFFICES ASSUME PInv PROVE PeersAgree
    OBVIOUS
  <2>1. RegistryAgrees
    BY DEF PInv, PoolOK, Mapped, Listed, RegistryAgrees
  <2>2. WiresAreLive
    BY DEF PInv, PoolOK, WiresAreLive
  <2>3. QueueIsWaiting
    <3>1. Queued(peer, queue) /\ DOMAIN queue = 1 .. Len(queue)
      BY LenProperties DEF PInv, PoolOK, Queued
    <3>. QED
      BY <3>1 DEF Queued, QueueIsWaiting
  <2>. QED
    BY <2>1, <2>2, <2>3 DEF PeersAgree
<1>. QED
  BY <1>1, InitPInv, NextPInv, PTL DEF Spec

(* A connection outlives #destroyTorrent only when its peer was removed    *)
(* while it was queued, or its entry in the map was taken by an incoming   *)
(* peer of the same address: no other order of calls leaks a socket.       *)
THEOREM LeakExplained == Spec => []LeakIsExplained
<1>1. PInv => LeakIsExplained
  BY DEF PInv, PoolOK, Explained, LeakIsExplained, HasSocket
<1>. QED
  BY <1>1, InitPInv, NextPInv, PTL DEF Spec

-----------------------------------------------------------------------------
(* The handshake of two of them.                                            *)

TokenKinds == {"key", "key19", "pad", "long", "req1", "xor", "enc", "encL", "vc", "select", "hs",
               "ext", "rest"}
Ciphers == {"none", "good", "junk"}
Token == [t : TokenKinds, s : Ciphers \cup {"plain"}]

Parsers == {"handshake", "type", "pe1", "pe2", "pe3", "pe3enc", "pe4", "messages", "stuck"}

SideType ==
    [open : BOOLEAN, swarm : BOOLEAN, buffer : Seq(Token), sync : Ciphers, parser : Parsers,
     secret : Ciphers, gens : Ciphers, waiters : Nat, method : BOOLEAN, done : BOOLEAN,
     pe : BOOLEAN, sent : BOOLEAN, got : BOOLEAN, sentExt : Nat, gotExt : BOOLEAN,
     hasFast : BOOLEAN, handled : Nat]

Task == [k : {"encrypt3", "hashes3", "hash1", "hash3", "get3", "encrypt4", "get"}, s : Ciphers]

Shape ==
    [wire : [Sides -> SideType], stream : [Sides -> Seq(Token)], tasks : [Sides -> SUBSET Task],
     misread : BOOLEAN, crashed : BOOLEAN]

GetTask == [k |-> "get", s |-> "none"]

(* The attempt is encrypted.                                               *)
Enc == Encrypts("out", retries)

(* What one end knows of the other's extensions, once both are told.       *)
TermsRight(p, e) == (p.sent /\ p.got => p.hasFast = FastBoth(e)) /\ p.sentExt <= 1

(* The next token of an end, read or not.                                  *)
Unread(x, e) == x.wire[e].buffer # << >> \/ x.stream[e] # << >>
NextToken(x, e) == IF x.wire[e].buffer # << >> THEN x.wire[e].buffer[1] ELSE x.stream[e][1]

(* An encrypted attempt, p with the tasks ts at the outgoing end.          *)
OutEncrypted(p, ts) ==
    /\ p.parser \in {"pe2", "pe4", "handshake", "messages"}
    /\ p.parser \in {"handshake", "messages"} \/ p.got => p.method
    /\ \A task \in ts : task.k \in {"encrypt3", "hashes3"}
                        /\ (task.k = "encrypt3" => p.parser = "pe2" /\ task.s = "good")
    /\ p.handled = 0 \/ (p.handled = 1 /\ p.parser = "messages")

(* Nothing of the other end has been taken.                                *)
Untouched(p) == p.parser = "type" \/ (p.parser = "handshake" /\ ~p.method)

InEncrypted(p, ts) ==
    /\ p.parser \notin {"pe2", "pe4"} /\ \A task \in ts : task.k \notin {"encrypt3", "hashes3"}
    /\ p.got => p.method
    /\ GetTask \in ts \/ p.handled > 0 => p.got
    /\ Untouched(p) => ts = {} /\ p.sync = "none"

KeyFirst(x) ==
    Untouched(x.wire["in"]) /\ x.wire["in"].open =>
        IF Unread(x, "in") THEN NextToken(x, "in").t \in {"key", "key19"}
        ELSE ~x.wire["out"].pe \/ ~x.wire["out"].open

Begun(x) ==
    \/ x.wire["out"].pe
    \/ \A e \in Sides : ~Unread(x, e) /\ x.tasks[e] = {}

EncryptedRight(x) ==
    /\ OutEncrypted(x.wire["out"], x.tasks["out"])
    /\ InEncrypted(x.wire["in"], x.tasks["in"])
    /\ KeyFirst(x) /\ Begun(x)

(* A plain attempt.                                                        *)
OutPlain(p, ts) ==
    /\ p.parser \in {"handshake", "messages"} /\ p.sync = "none" /\ ~p.method /\ ts = {}
    /\ p.handled = 0 \/ (p.handled = 1 /\ p.parser = "messages")

InPlain(p, ts) ==
    /\ p.parser \in {"type", "handshake", "messages"} /\ p.sync = "none" /\ ~p.method
    /\ ts \subseteq {GetTask} /\ p.handled <= 1
    /\ p.parser # "messages" => p.handled = 0 /\ ~p.swarm /\ ts = {}
    /\ ts # {} => p.handled = 0

HelloFirst(x, e) ==
    x.wire[e].parser # "messages" /\ x.wire[e].open =>
        IF Unread(x, e) THEN NextToken(x, e) = Tok("hs", "plain")
        ELSE ~x.wire[Other(e)].sent \/ ~x.wire[Other(e)].open

PlainRight(x) ==
    /\ OutPlain(x.wire["out"], x.tasks["out"])
    /\ InPlain(x.wire["in"], x.tasks["in"])
    /\ \A e \in Sides : HelloFirst(x, e)
    /\ ~x.misread

HandshakeRight(x) ==
    /\ x \in Shape
    /\ \A e \in Sides : TermsRight(x.wire[e], e)
    /\ IF Enc THEN EncryptedRight(x) ELSE PlainRight(x)

HandshakeInv == setup \in Setup /\ retries \in Nat /\ HandshakeRight(Now)

-----------------------------------------------------------------------------
LEMMA TwoSides ==
    ASSUME NEW e \in Sides
    PROVE  Other(e) \in Sides /\ Other(e) # e /\ Other(Other(e)) = e /\ Sides = {e, Other(e)}
BY DEF Sides, Other

LEMMA Joining ==
    ASSUME NEW q1 \in Seq(Token), NEW q2 \in Seq(Token)
    PROVE  /\ q1 \o q2 \in Seq(Token)
           /\ q1 # << >> \/ q2 # << >> => q1 \o q2 # << >>
           /\ q1 # << >> => (q1 \o q2)[1] = q1[1]
           /\ q1 = << >> /\ q2 # << >> => (q1 \o q2)[1] = q2[1]
<1>1. /\ q1 \o q2 \in Seq(Token) /\ Len(q1 \o q2) = Len(q1) + Len(q2)
      /\ \A i \in 1 .. Len(q1) + Len(q2) :
            (q1 \o q2)[i] = IF i <= Len(q1) THEN q1[i] ELSE q2[i - Len(q1)]
  BY ConcatProperties
<1>2. Len(q1) \in Nat /\ Len(q2) \in Nat /\ (q1 = << >> <=> Len(q1) = 0)
  /\ (q2 = << >> <=> Len(q2) = 0)
  BY LenProperties, EmptySeq
<1>3. q1 \o q2 = << >> <=> Len(q1 \o q2) = 0 BY <1>1, EmptySeq
<1> QED BY <1>1, <1>2, <1>3

LEMMA Encrypting ==
    ASSUME NEW p \in SideType, NEW tok \in Token
    PROVE  /\ Encrypt(p, tok) \in Token /\ Encrypt(p, tok).t = tok.t
           /\ ~p.method => Encrypt(p, tok) = tok
BY DEF SideType, Token, Encrypt, Tok, Ciphers

LEMMA EncryptAll ==
    ASSUME NEW p \in SideType, NEW toks \in Seq(Token), toks # << >>,
           NEW q, q = [i \in DOMAIN toks |-> Encrypt(p, toks[i])]
    PROVE  q \in Seq(Token) /\ q # << >> /\ q[1] = Encrypt(p, toks[1])
<1>1. Len(toks) \in Nat \ {0} /\ DOMAIN toks = 1 .. Len(toks)
  /\ \A i \in 1 .. Len(toks) : toks[i] \in Token
  BY LenProperties, EmptySeq, ElementOfSeq
<1>2. \A i \in 1 .. Len(toks) : Encrypt(p, toks[i]) \in Token BY <1>1, Encrypting
<1>3. q \in [1 .. Len(toks) -> Token] BY <1>1, <1>2
<1>4. q \in Seq(Token) /\ Len(q) = Len(toks) BY <1>1, <1>3, SeqDef, LenProperties
<1>5. q # << >> BY <1>1, <1>4, EmptySeq
<1>6. 1 \in 1 .. Len(toks) BY <1>1
<1> QED BY <1>1, <1>4, <1>5, <1>6

(* What a push does; tok is the first token as it was given.               *)
Pushed(x, y, e, tok) ==
    /\ y \in Shape
    /\ y.wire = x.wire /\ y.tasks = x.tasks /\ y.misread = x.misread
    /\ Unread(y, e) = Unread(x, e) /\ NextToken(y, e) = NextToken(x, e)
    /\ \/ ~x.wire[e].open
          /\ Unread(y, Other(e)) = Unread(x, Other(e))
          /\ NextToken(y, Other(e)) = NextToken(x, Other(e))
       \/ x.wire[e].open
          /\ Unread(y, Other(e))
          /\ IF Unread(x, Other(e)) THEN NextToken(y, Other(e)) = NextToken(x, Other(e))
             ELSE NextToken(y, Other(e)) = Encrypt(x.wire[e], tok)

LEMMA PushDoes ==
    ASSUME NEW x \in Shape, NEW e \in Sides, NEW toks \in Seq(Token), toks # << >>
    PROVE  Pushed(x, Push(x, e, toks), e, toks[1])
<1> DEFINE f == Other(e)
           q == [i \in DOMAIN toks |-> Encrypt(x.wire[e], toks[i])]
           y == Push(x, e, toks)
<1>1. f \in Sides /\ f # e BY TwoSides
<1>2. x.wire[e] \in SideType /\ x.stream[f] \in Seq(Token) /\ x.stream[e] \in Seq(Token)
  BY <1>1 DEF Shape
<1>3. CASE ~x.wire[e].open
  <2>1. y = x BY <1>3 DEF Push
  <2> QED BY <1>3, <2>1 DEF Pushed
<1>4. CASE x.wire[e].open
  <2>1. q \in Seq(Token) /\ q # << >> /\ q[1] = Encrypt(x.wire[e], toks[1]) BY <1>2, EncryptAll
  <2> HIDE DEF q
  <2>2. y = [x EXCEPT !.stream[f] = x.stream[f] \o q] BY <1>4 DEF Push, q
  <2> DEFINE r == x.stream[f] \o q
  <2>3. /\ r \in Seq(Token) /\ r # << >> /\ (x.stream[f] # << >> => r[1] = x.stream[f][1])
        /\ (x.stream[f] = << >> => r[1] = q[1])
    BY <1>2, <2>1, Joining
  <2> HIDE DEF r, y
  <2>4. y \in Shape /\ y.wire = x.wire /\ y.tasks = x.tasks /\ y.misread = x.misread
        /\ y.stream[f] = r /\ y.stream[e] = x.stream[e]
    BY <1>1, <2>2, <2>3 DEF Shape, r
  <2>5. Unread(y, e) = Unread(x, e) /\ NextToken(y, e) = NextToken(x, e)
    BY <2>4 DEF Unread, NextToken
  <2>6. Unread(y, f) BY <2>3, <2>4 DEF Unread
  <2>7. IF Unread(x, f) THEN NextToken(y, f) = NextToken(x, f)
        ELSE NextToken(y, f) = Encrypt(x.wire[e], toks[1])
    BY <2>1, <2>3, <2>4 DEF Unread, NextToken
  <2>8. y \in Shape /\ y.wire = x.wire /\ y.tasks = x.tasks /\ y.misread = x.misread BY <2>4
  <2> QED BY <1>4, <2>5, <2>6, <2>7, <2>8 DEF Pushed, y
<1> QED BY <1>3, <1>4

-----------------------------------------------------------------------------
(* The parts of a push that leaves the invariant.                          *)
LEMMA EncryptedPush ==
    ASSUME NEW x, NEW y, NEW e \in Sides, NEW tok \in Token,
           HandshakeRight(x), Enc, x.wire["out"].pe, Pushed(x, y, e, tok)
    PROVE  HandshakeRight(y)
<1>1. EncryptedRight(x) /\ x \in Shape BY DEF HandshakeRight
<1>2. y \in Shape /\ y.wire = x.wire /\ y.tasks = x.tasks BY DEF Pushed
<1>3. KeyFirst(y)
  <2>1. CASE e = "in"
    <3>1. Unread(y, "in") = Unread(x, "in") /\ NextToken(y, "in") = NextToken(x, "in")
      BY <2>1 DEF Pushed
    <3> QED BY <1>1, <1>2, <3>1 DEF KeyFirst, EncryptedRight
  <2>2. CASE e = "out"
    <3>1. Other(e) = "in" BY <2>2 DEF Other
    <3>2. CASE ~x.wire["out"].open
      <4>1. Unread(y, "in") = Unread(x, "in") /\ NextToken(y, "in") = NextToken(x, "in")
        BY <2>2, <3>1, <3>2 DEF Pushed
      <4> QED BY <1>1, <1>2, <4>1 DEF KeyFirst, EncryptedRight
    <3>3. CASE x.wire["out"].open
      <4>1. ASSUME Untouched(x.wire["in"]), x.wire["in"].open PROVE Unread(x, "in")
        BY <1>1, <3>3, <4>1 DEF KeyFirst, EncryptedRight
      <4>2. Unread(y, "in") BY <2>2, <3>1, <3>3 DEF Pushed
      <4>3. Unread(x, "in") => NextToken(y, "in") = NextToken(x, "in")
        BY <2>2, <3>1, <3>3 DEF Pushed
      <4> QED BY <1>1, <1>2, <4>1, <4>2, <4>3 DEF KeyFirst, EncryptedRight
    <3> QED BY <3>2, <3>3
  <2> QED BY <2>1, <2>2 DEF Sides
<1>4. EncryptedRight(y) BY <1>1, <1>2, <1>3 DEF EncryptedRight, Begun
<1> QED BY <1>2, <1>4 DEF HandshakeRight

LEMMA PlainPush ==
    ASSUME NEW x, NEW y, NEW e \in Sides, NEW tok \in Token,
           HandshakeRight(x), ~Enc, x.wire[e].sent, Pushed(x, y, e, tok)
    PROVE  HandshakeRight(y)
<1> DEFINE f == Other(e)
<1>0. f \in Sides /\ f # e /\ Other(f) = e /\ Sides = {e, f} BY TwoSides
<1>1. PlainRight(x) /\ x \in Shape BY DEF HandshakeRight
<1>2. y \in Shape /\ y.wire = x.wire /\ y.tasks = x.tasks /\ y.misread = x.misread BY DEF Pushed
<1> HIDE DEF f
<1>3. HelloFirst(y, e)
  <2>1. Unread(y, e) = Unread(x, e) /\ NextToken(y, e) = NextToken(x, e) BY DEF Pushed
  <2> QED BY <1>1, <1>2, <2>1 DEF HelloFirst, PlainRight
<1>4. HelloFirst(y, f)
  <2>0. HelloFirst(x, f) BY <1>0, <1>1 DEF PlainRight
  <2>1. CASE ~x.wire[e].open
    <3>1. Unread(y, f) = Unread(x, f) /\ NextToken(y, f) = NextToken(x, f)
      BY <2>1 DEF Pushed, f
    <3> QED BY <1>2, <2>0, <3>1 DEF HelloFirst
  <2>2. CASE x.wire[e].open
    <3>1. Unread(y, f) BY <2>2 DEF Pushed, f
    <3>2. Unread(x, f) => NextToken(y, f) = NextToken(x, f) BY <2>2 DEF Pushed, f
    <3>3. x.wire[f].parser # "messages" /\ x.wire[f].open => Unread(x, f)
      BY <1>0, <2>0, <2>2 DEF HelloFirst
    <3> QED BY <1>2, <2>0, <3>1, <3>2, <3>3 DEF HelloFirst
  <2> QED BY <2>1, <2>2
<1>5. \A g \in Sides : HelloFirst(y, g) BY <1>0, <1>3, <1>4
<1>6. PlainRight(y) BY <1>1, <1>2, <1>5 DEF PlainRight
<1> QED BY <1>2, <1>6 DEF HandshakeRight

(* A step that changes the record and the tasks of one end only.           *)
Local(x, y, e, p, ts) ==
    /\ y \in Shape
    /\ y.wire[e] = p /\ y.wire[Other(e)] = x.wire[Other(e)]
    /\ y.tasks[e] = ts /\ y.tasks[Other(e)] = x.tasks[Other(e)]
    /\ y.stream = x.stream /\ y.misread = x.misread

LEMMA EncryptedLocal ==
    ASSUME NEW x, NEW y, NEW e \in Sides, NEW p, NEW ts,
           HandshakeRight(x), Enc, x.wire["out"].pe, Local(x, y, e, p, ts), TermsRight(p, e),
           e = "out" => OutEncrypted(p, ts) /\ p.pe /\ (p.open => x.wire["out"].open),
           e = "in" => /\ InEncrypted(p, ts)
                       /\ Untouched(p) /\ p.open =>
                             /\ Untouched(x.wire["in"]) /\ x.wire["in"].open
                             /\ p.buffer = x.wire["in"].buffer
    PROVE  HandshakeRight(y)
<1>1. EncryptedRight(x) /\ x \in Shape BY DEF HandshakeRight
<1>2. \A g \in Sides : TermsRight(y.wire[g], g)
  BY TwoSides DEF Local, HandshakeRight
<1>3. CASE e = "in"
  <2>1. /\ y.wire["in"] = p /\ y.wire["out"] = x.wire["out"] /\ y.tasks["in"] = ts
        /\ y.tasks["out"] = x.tasks["out"] /\ y.stream = x.stream
    BY <1>3 DEF Local, Other
  <2>2. KeyFirst(y)
    BY <1>1, <1>3, <2>1 DEF KeyFirst, EncryptedRight, Unread, NextToken
  <2> QED BY <1>1, <1>2, <1>3, <2>1, <2>2 DEF HandshakeRight, EncryptedRight, Begun, Local
<1>4. CASE e = "out"
  <2>1. /\ y.wire["out"] = p /\ y.wire["in"] = x.wire["in"] /\ y.tasks["out"] = ts
        /\ y.tasks["in"] = x.tasks["in"] /\ y.stream = x.stream
    BY <1>4 DEF Local, Other
  <2>2. KeyFirst(y)
    BY <1>1, <1>4, <2>1 DEF KeyFirst, EncryptedRight, Unread, NextToken
  <2> QED BY <1>1, <1>2, <1>4, <2>1, <2>2 DEF HandshakeRight, EncryptedRight, Begun, Local
<1> QED BY <1>3, <1>4 DEF Sides

LEMMA PlainLocal ==
    ASSUME NEW x, NEW y, NEW e \in Sides, NEW p, NEW ts,
           HandshakeRight(x), ~Enc, Local(x, y, e, p, ts), TermsRight(p, e),
           e = "out" => OutPlain(p, ts), e = "in" => InPlain(p, ts),
           p.sent = x.wire[e].sent, p.open => x.wire[e].open,
           p.parser # "messages" /\ p.open =>
              x.wire[e].parser # "messages" /\ p.buffer = x.wire[e].buffer
    PROVE  HandshakeRight(y)
<1> DEFINE f == Other(e)
<1>0. f \in Sides /\ f # e /\ Other(f) = e /\ Sides = {e, f} BY TwoSides
<1>1. PlainRight(x) /\ x \in Shape BY DEF HandshakeRight
<1>2. \A g \in Sides : TermsRight(y.wire[g], g)
  BY TwoSides DEF Local, HandshakeRight
<1>3. /\ y.wire[e] = p /\ y.wire[f] = x.wire[f] /\ y.tasks[e] = ts
      /\ y.tasks[f] = x.tasks[f] /\ y.stream = x.stream /\ y.misread = x.misread /\ y \in Shape
  BY DEF Local
<1> HIDE DEF f
<1>4. HelloFirst(y, e)
  <2>1. HelloFirst(x, e) BY <1>1 DEF PlainRight
  <2>2. Other(e) = f BY DEF f
  <2> QED BY <1>3, <2>1, <2>2 DEF HelloFirst, Unread, NextToken
<1>5. HelloFirst(y, f)
  <2>1. HelloFirst(x, f) BY <1>0, <1>1 DEF PlainRight
  <2> QED BY <1>0, <1>3, <2>1 DEF HelloFirst, Unread, NextToken
<1>6. OutPlain(y.wire["out"], y.tasks["out"]) /\ InPlain(y.wire["in"], y.tasks["in"])
  <2>1. CASE e = "out"
    <3>1. f = "in" BY <2>1 DEF f, Other
    <3> QED BY <1>1, <1>3, <2>1, <3>1 DEF PlainRight
  <2>2. CASE e = "in"
    <3>1. f = "out" BY <2>2 DEF f, Other
    <3> QED BY <1>1, <1>3, <2>2, <3>1 DEF PlainRight
  <2> QED BY <2>1, <2>2 DEF Sides
<1>7. PlainRight(y)
  <2>1. \A g \in Sides : HelloFirst(y, g) BY <1>0, <1>4, <1>5
  <2> QED BY <1>1, <1>3, <1>6, <2>1 DEF PlainRight
<1> QED BY <1>2, <1>3, <1>7 DEF HandshakeRight

(* One end closes, having read some of its tokens or none.                 *)
Closed(x, y, e, b) ==
    /\ y \in Shape
    /\ y.wire[e] = [x.wire[e] EXCEPT !.open = FALSE, !.buffer = b]
    /\ y.wire[Other(e)] = x.wire[Other(e)] /\ y.tasks = x.tasks
    /\ \A g \in Sides : y.stream[g] = << >>

LEMMA ClosedRight ==
    ASSUME NEW x, NEW y, NEW e \in Sides, NEW b, HandshakeRight(x), Closed(x, y, e, b),
           Enc \/ y.misread = x.misread,
           Enc => x.wire["out"].pe \/ b = x.wire[e].buffer
    PROVE  HandshakeRight(y)
<1> DEFINE f == Other(e)
           q == x.wire[e]
           p == y.wire[e]
<1>0. f \in Sides /\ f # e /\ Other(f) = e /\ Other(e) = f /\ Sides = {e, f} BY TwoSides
<1>1. x \in Shape /\ q \in SideType BY DEF HandshakeRight, Shape
<1>2. /\ y \in Shape /\ y.wire[f] = x.wire[f] /\ y.tasks = x.tasks
      /\ \A g \in Sides : y.stream[g] = << >>
  BY DEF Closed
<1>3. /\ p.open = FALSE /\ p.swarm = q.swarm /\ p.sync = q.sync /\ p.parser = q.parser
      /\ p.method = q.method /\ p.pe = q.pe /\ p.sent = q.sent /\ p.got = q.got
      /\ p.sentExt = q.sentExt /\ p.hasFast = q.hasFast /\ p.handled = q.handled
      /\ p.buffer = b
  BY <1>1 DEF Closed, SideType
<1> HIDE DEF f, p, q
<1>4. \A g \in Sides : TermsRight(y.wire[g], g)
  <2>1. TermsRight(x.wire[e], e) /\ TermsRight(x.wire[f], f) BY <1>0 DEF HandshakeRight
  <2>2. TermsRight(y.wire[e], e) BY <1>3, <2>1 DEF TermsRight, p, q
  <2> QED BY <1>0, <1>2, <2>1, <2>2
<1>5. ASSUME Enc PROVE EncryptedRight(y)
  <2>0. EncryptedRight(x) BY <1>5 DEF HandshakeRight
  <2>1. CASE e = "out"
    <3>1. f = "in" BY <2>1 DEF f, Other
    <3>2. OutEncrypted(y.wire["out"], y.tasks["out"])
      BY <1>2, <1>3, <2>0, <2>1 DEF EncryptedRight, OutEncrypted, p, q
    <3>3. InEncrypted(y.wire["in"], y.tasks["in"]) BY <1>2, <2>0, <3>1 DEF EncryptedRight
    <3>4. y.wire["out"].open = FALSE /\ y.wire["out"].pe = x.wire["out"].pe
      BY <1>3, <2>1 DEF p, q
    <3>5. KeyFirst(y)
      BY <1>2, <2>0, <3>1, <3>4 DEF KeyFirst, EncryptedRight, Unread, NextToken, Sides
    <3>6. Begun(y)
      <4>1. CASE x.wire["out"].pe BY <3>4, <4>1 DEF Begun
      <4>2. CASE ~x.wire["out"].pe
        <5>1. b = q.buffer BY <1>5, <4>2 DEF q
        <5>2. \A g \in Sides : ~Unread(x, g) /\ x.tasks[g] = {}
          BY <2>0, <4>2 DEF EncryptedRight, Begun
        <5>3. \A g \in Sides : y.wire[g].buffer = << >>
          BY <1>0, <1>2, <1>3, <5>1, <5>2 DEF Unread, p, q
        <5> QED BY <1>2, <5>2, <5>3 DEF Begun, Unread
      <4> QED BY <4>1, <4>2
    <3> QED BY <3>2, <3>3, <3>5, <3>6 DEF EncryptedRight
  <2>2. CASE e = "in"
    <3>1. f = "out" BY <2>2 DEF f, Other
    <3>2. InEncrypted(y.wire["in"], y.tasks["in"])
      BY <1>2, <1>3, <2>0, <2>2 DEF EncryptedRight, InEncrypted, Untouched, p, q
    <3>3. OutEncrypted(y.wire["out"], y.tasks["out"]) BY <1>2, <2>0, <3>1 DEF EncryptedRight
    <3>4. y.wire["in"].open = FALSE /\ y.wire["out"].pe = x.wire["out"].pe
      BY <1>2, <1>3, <2>2, <3>1 DEF p
    <3>5. KeyFirst(y) BY <3>4 DEF KeyFirst
    <3>6. Begun(y)
      <4>1. CASE x.wire["out"].pe BY <3>4, <4>1 DEF Begun
      <4>2. CASE ~x.wire["out"].pe
        <5>1. b = q.buffer BY <1>5, <4>2 DEF q
        <5>2. \A g \in Sides : ~Unread(x, g) /\ x.tasks[g] = {}
          BY <2>0, <4>2 DEF EncryptedRight, Begun
        <5>3. \A g \in Sides : y.wire[g].buffer = << >>
          BY <1>0, <1>2, <1>3, <5>1, <5>2 DEF Unread, p, q
        <5> QED BY <1>2, <5>2, <5>3 DEF Begun, Unread
      <4> QED BY <4>1, <4>2
    <3> QED BY <3>2, <3>3, <3>5, <3>6 DEF EncryptedRight
  <2> QED BY <2>1, <2>2 DEF Sides
<1>6. ASSUME ~Enc PROVE PlainRight(y)
  <2>0. PlainRight(x) /\ y.misread = x.misread BY <1>6 DEF HandshakeRight
  <2>1. HelloFirst(y, e) BY <1>3 DEF HelloFirst, p
  <2>2. HelloFirst(y, f)
    <3>1. HelloFirst(x, f) BY <1>0, <2>0 DEF PlainRight
    <3>2. y.wire[Other(f)].open = FALSE BY <1>0, <1>3 DEF p
    <3>3. y.stream[f] = << >> BY <1>0, <1>2
    <3> QED BY <1>2, <3>1, <3>2, <3>3 DEF HelloFirst, Unread, NextToken
  <2>3. OutPlain(y.wire["out"], y.tasks["out"]) /\ InPlain(y.wire["in"], y.tasks["in"])
    <3>1. CASE e = "out"
      <4>1. f = "in" BY <3>1 DEF f, Other
      <4>2. OutPlain(y.wire["out"], y.tasks["out"])
        BY <1>2, <1>3, <2>0, <3>1 DEF PlainRight, OutPlain, p, q
      <4> QED BY <1>2, <2>0, <4>1, <4>2 DEF PlainRight
    <3>2. CASE e = "in"
      <4>1. f = "out" BY <3>2 DEF f, Other
      <4>2. InPlain(y.wire["in"], y.tasks["in"])
        BY <1>2, <1>3, <2>0, <3>2 DEF PlainRight, InPlain, p, q
      <4> QED BY <1>2, <2>0, <4>1, <4>2 DEF PlainRight
    <3> QED BY <3>1, <3>2 DEF Sides
  <2>4. \A g \in Sides : HelloFirst(y, g) BY <1>0, <2>1, <2>2
  <2> QED BY <2>0, <2>3, <2>4 DEF PlainRight
<1> QED BY <1>2, <1>4, <1>5, <1>6 DEF HandshakeRight

-----------------------------------------------------------------------------
(* The messages of a handshake.                                            *)
LEMMA SetOne ==
    ASSUME NEW x \in Shape, NEW e \in Sides, NEW p \in SideType, NEW ts \in SUBSET Task
    PROVE  /\ Local(x, [x EXCEPT !.wire[e] = p], e, p, x.tasks[e])
           /\ Local(x, [x EXCEPT !.wire[e] = p, !.tasks[e] = ts], e, p, ts)
<1> DEFINE y == [x EXCEPT !.wire[e] = p]
           z == [x EXCEPT !.wire[e] = p, !.tasks[e] = ts]
<1>0. Other(e) \in Sides /\ Other(e) # e BY TwoSides
<1>1. Local(x, y, e, p, x.tasks[e])
  <2>1. y \in Shape BY DEF Shape
  <2>2. y.wire[e] = p /\ y.wire[Other(e)] = x.wire[Other(e)] BY <1>0 DEF Shape
  <2>3. y.tasks = x.tasks /\ y.stream = x.stream /\ y.misread = x.misread BY DEF Shape
  <2> QED BY <2>1, <2>2, <2>3 DEF Local
<1>2. Local(x, z, e, p, ts)
  <2>1. z \in Shape BY DEF Shape
  <2>2. z.wire[e] = p /\ z.wire[Other(e)] = x.wire[Other(e)] BY <1>0 DEF Shape
  <2>3. z.tasks[e] = ts /\ z.tasks[Other(e)] = x.tasks[Other(e)] BY <1>0 DEF Shape
  <2>4. z.stream = x.stream /\ z.misread = x.misread BY DEF Shape
  <2> QED BY <2>1, <2>2, <2>3, <2>4 DEF Local
<1> QED BY <1>1, <1>2

(* Sending is right once the attempt has begun.                            *)
Sends(x) == HandshakeRight(x) /\ (Enc => x.wire["out"].pe)

(* What sending leaves alone.                                              *)
Kept(x, y, e) ==
    /\ y.tasks = x.tasks /\ y.wire["out"].pe = x.wire["out"].pe
    /\ y.wire[e].parser = x.wire[e].parser /\ y.wire[e].got = x.wire[e].got
    /\ y.wire[e].method = x.wire[e].method /\ y.wire[e].open = x.wire[e].open
    /\ y.wire[e].swarm = x.wire[e].swarm

LEMMA SendExtendedRight ==
    ASSUME NEW x, NEW e \in Sides, Sends(x), x.wire[e].sent, x.wire[e].sentExt = 0
    PROVE  Sends(SendExtended(x, e)) /\ Kept(x, SendExtended(x, e), e)
<1> DEFINE q == x.wire[e]
           p == [q EXCEPT !.sentExt = q.sentExt + 1]
           y == [x EXCEPT !.wire[e].sentExt = @ + 1]
           toks == <<Tok("ext", "plain")>>
           z == Push(y, e, toks)
<1>1. HandshakeRight(x) /\ x \in Shape BY DEF Sends, HandshakeRight
<1>2. q \in SideType BY <1>1 DEF Shape
<1>3. /\ p \in SideType /\ p.sentExt = 1
      /\ p.open = q.open /\ p.swarm = q.swarm /\ p.sync = q.sync /\ p.parser = q.parser
      /\ p.method = q.method /\ p.pe = q.pe /\ p.sent = q.sent /\ p.got = q.got
      /\ p.hasFast = q.hasFast /\ p.handled = q.handled /\ p.buffer = q.buffer
  <2>1. q.sentExt = 0 OBVIOUS
  <2> HIDE DEF q
  <2>2. p \in SideType BY <1>2, <2>1 DEF SideType
  <2>3. p.sentExt = 1 BY <1>2, <2>1 DEF SideType
  <2> QED BY <1>2, <2>2, <2>3 DEF SideType
<1>4. SendExtended(x, e) = Push([x EXCEPT !.wire[e].sentExt = @ + 1], e, <<Tok("ext", "plain")>>)
  BY DEF SendExtended
<1>5. Local(x, y, e, p, x.tasks[e])
  <2>1. p = [x.wire[e] EXCEPT !.sentExt = @ + 1] /\ y = [x EXCEPT !.wire[e].sentExt = @ + 1] OBVIOUS
  <2> HIDE DEF p, y
  <2>2. y = [x EXCEPT !.wire[e] = p] BY <1>1, <2>1 DEF Shape
  <2>3. Local(x, [x EXCEPT !.wire[e] = p], e, p, x.tasks[e])
    BY <1>1, <1>3, SetOne DEF Shape
  <2> QED BY <2>2, <2>3, Zenon
<1>6. toks \in Seq(Token) /\ toks # << >> /\ toks[1] = Tok("ext", "plain") /\ toks[1] \in Token
  BY DEF Token, TokenKinds, Ciphers, Tok
<1>7. TermsRight(p, e)
  <2>1. TermsRight(q, e) BY <1>1 DEF HandshakeRight
  <2> HIDE DEF p, q
  <2> QED BY <1>3, <2>1 DEF TermsRight
<1> HIDE DEF p, y, toks, z
<1>8. HandshakeRight(y)
  <2>1. CASE Enc
    <3>1. EncryptedRight(x) /\ x.wire["out"].pe BY <1>1, <2>1 DEF HandshakeRight, Sends
    <3>2. e = "out" => OutEncrypted(p, x.tasks[e]) /\ p.pe /\ (p.open => x.wire["out"].open)
      BY <1>3, <3>1 DEF EncryptedRight, OutEncrypted
    <3>3. e = "in" => /\ InEncrypted(p, x.tasks[e])
                      /\ Untouched(p) => Untouched(x.wire["in"])
                      /\ p.open = x.wire["in"].open /\ p.buffer = x.wire["in"].buffer
      BY <1>3, <3>1 DEF EncryptedRight, InEncrypted, Untouched
    <3> QED BY <1>1, <1>5, <1>7, <2>1, <3>1, <3>2, <3>3, EncryptedLocal
  <2>2. CASE ~Enc
    <3>1. PlainRight(x) BY <1>1, <2>2 DEF HandshakeRight
    <3>2. e = "out" => OutPlain(p, x.tasks[e]) BY <1>3, <3>1 DEF PlainRight, OutPlain
    <3>3. e = "in" => InPlain(p, x.tasks[e]) BY <1>3, <3>1 DEF PlainRight, InPlain
    <3> QED BY <1>1, <1>3, <1>5, <1>7, <2>2, <3>2, <3>3, PlainLocal
  <2> QED BY <2>1, <2>2
<1>9. y \in Shape /\ y.wire[e] = p /\ y.tasks = x.tasks /\ y.wire["out"].pe = x.wire["out"].pe
  <2>1. y.tasks = x.tasks BY <1>1 DEF y, Shape
  <2>2. y.wire["out"].pe = x.wire["out"].pe
    BY <1>3, <1>5 DEF Local, Sides, Other
  <2> QED BY <1>5, <2>1, <2>2 DEF Local
<1>10. Pushed(y, z, e, toks[1]) BY <1>6, <1>9, PushDoes DEF z
<1>11. HandshakeRight(z)
  <2>1. CASE Enc
    <3>1. y.wire["out"].pe BY <1>9, <2>1 DEF Sends
    <3> QED BY <1>6, <1>8, <1>10, <2>1, <3>1, EncryptedPush
  <2>2. CASE ~Enc
    <3>1. y.wire[e].sent BY <1>3, <1>9
    <3> QED BY <1>6, <1>8, <1>10, <2>2, <3>1, PlainPush
  <2> QED BY <2>1, <2>2
<1>12. Kept(x, z, e) BY <1>3, <1>9, <1>10 DEF Kept, Pushed
<1>13. SendExtended(x, e) = z BY <1>4 DEF y, toks, z
<1> QED BY <1>11, <1>12, <1>13 DEF Sends, Kept

(* What sending a handshake changes of an end before anything is sent.     *)
Said(p, q) ==
    /\ p.open = q.open /\ p.swarm = q.swarm /\ p.sync = q.sync /\ p.parser = q.parser
    /\ p.method = q.method /\ p.pe = q.pe /\ p.got = q.got /\ p.buffer = q.buffer
    /\ p.sentExt = q.sentExt /\ p.handled = q.handled /\ p.sent

LEMMA PlainHello ==
    ASSUME NEW x, NEW y, NEW z, NEW e \in Sides, NEW p \in SideType, HandshakeRight(x), ~Enc,
           Local(x, y, e, p, x.tasks[e]), Said(p, x.wire[e]), TermsRight(p, e),
           Pushed(y, z, e, Tok("hs", "plain"))
    PROVE  HandshakeRight(z)
<1> DEFINE f == Other(e)
           q == x.wire[e]
           hs == Tok("hs", "plain")
<1>0. f \in Sides /\ f # e /\ Other(f) = e /\ Other(e) = f /\ Sides = {e, f} BY TwoSides
<1>1. PlainRight(x) /\ x \in Shape BY DEF HandshakeRight
<1>2. /\ z \in Shape /\ z.wire[e] = p /\ z.wire[f] = x.wire[f] /\ z.tasks[e] = x.tasks[e]
      /\ z.tasks[f] = x.tasks[f] /\ z.misread = x.misread /\ y.wire[e] = p /\ y.wire[f] = x.wire[f]
  BY DEF Local, Pushed
<1>3. Unread(y, f) = Unread(x, f) /\ NextToken(y, f) = NextToken(x, f)
      /\ Unread(y, e) = Unread(x, e) /\ NextToken(y, e) = NextToken(x, e)
  BY DEF Local, Said, Unread, NextToken
<1>4. Said(p, q) OBVIOUS
<1>5. hs \in Token BY DEF Token, TokenKinds, Tok
<1>6. ~p.method
  <2>1. ~q.method BY <1>0, <1>1 DEF PlainRight, OutPlain, InPlain, Sides
  <2> HIDE DEF q
  <2> QED BY <1>4, <2>1 DEF Said
<1>7. Encrypt(p, hs) = hs BY <1>5, <1>6, Encrypting
<1>8. HelloFirst(z, e)
  <2>1. HelloFirst(x, e) BY <1>1 DEF PlainRight
  <2>2. Unread(z, e) = Unread(x, e) /\ NextToken(z, e) = NextToken(x, e) BY <1>3 DEF Pushed
  <2>3. p.parser = x.wire[e].parser /\ p.open = x.wire[e].open BY <1>4 DEF Said
  <2> HIDE DEF f, q, hs
  <2> QED BY <1>0, <1>2, <2>1, <2>2, <2>3 DEF HelloFirst
<1>9. HelloFirst(z, f)
  <2>1. HelloFirst(x, f) BY <1>0, <1>1 DEF PlainRight
  <2>2. CASE ~p.open
    <3>1. ~z.wire[Other(f)].open BY <1>0, <1>2, <2>2
    <3>2. ~x.wire[Other(f)].open BY <1>0, <1>4, <2>2 DEF Said
    <3>3. Unread(z, f) = Unread(x, f) /\ NextToken(z, f) = NextToken(x, f)
      BY <1>2, <1>3, <2>2 DEF Pushed
    <3> HIDE DEF f, q, hs
    <3> QED BY <1>2, <2>1, <3>1, <3>2, <3>3 DEF HelloFirst
  <2>3. CASE p.open
    <3>1. Unread(z, f) BY <1>2, <2>3 DEF Pushed
    <3>2. CASE Unread(x, f)
      <4>1. NextToken(z, f) = NextToken(x, f) BY <1>2, <1>3, <2>3, <3>2 DEF Pushed
      <4> HIDE DEF f, q
      <4> QED BY <1>2, <2>1, <3>1, <3>2, <4>1 DEF HelloFirst
    <3>3. CASE ~Unread(x, f)
      <4>1. NextToken(z, f) = Encrypt(p, hs) BY <1>2, <1>3, <2>3, <3>3 DEF Pushed
      <4> HIDE DEF f, q
      <4> QED BY <1>2, <1>7, <3>1, <4>1 DEF HelloFirst
    <3> QED BY <3>2, <3>3
  <2> QED BY <2>2, <2>3
<1>10. OutPlain(z.wire["out"], z.tasks["out"]) /\ InPlain(z.wire["in"], z.tasks["in"])
  <2>1. CASE e = "out"
    <3>1. f = "in" BY <2>1 DEF Other
    <3>2. OutPlain(p, x.tasks["out"]) BY <1>1, <1>4, <2>1 DEF PlainRight, OutPlain, Said
    <3> QED BY <1>1, <1>2, <2>1, <3>1, <3>2 DEF PlainRight
  <2>2. CASE e = "in"
    <3>1. f = "out" BY <2>2 DEF Other
    <3>2. InPlain(p, x.tasks["in"]) BY <1>1, <1>4, <2>2 DEF PlainRight, InPlain, Said
    <3> QED BY <1>1, <1>2, <2>2, <3>1, <3>2 DEF PlainRight
  <2> QED BY <2>1, <2>2 DEF Sides
<1>11. PlainRight(z)
  <2>1. \A g \in Sides : HelloFirst(z, g) BY <1>0, <1>8, <1>9
  <2> QED BY <1>1, <1>2, <1>10, <2>1 DEF PlainRight
<1>12. \A g \in Sides : TermsRight(z.wire[g], g)
  BY <1>0, <1>2 DEF HandshakeRight
<1> QED BY <1>2, <1>11, <1>12 DEF HandshakeRight

LEMMA SendHandshakeRight ==
    ASSUME NEW x, NEW e \in Sides, Sends(x)
    PROVE  Sends(SendHandshake(x, e)) /\ Kept(x, SendHandshake(x, e), e)
<1> DEFINE q == x.wire[e]
           fast == q.got /\ FastBoth(e)
           p == [q EXCEPT !.sent = TRUE, !.hasFast = fast]
           y == [x EXCEPT !.wire[e].sent = TRUE, !.wire[e].hasFast = fast]
           toks == <<Tok("hs", "plain")>>
           z == Push(y, e, toks)
<1>1. HandshakeRight(x) /\ x \in Shape BY DEF Sends, HandshakeRight
<1>2. q \in SideType BY <1>1 DEF Shape
<1>3. fast \in BOOLEAN OBVIOUS
<1>4. p \in SideType /\ Said(p, q) /\ p.hasFast = fast
  <2> HIDE DEF fast, q
  <2> QED BY <1>2, <1>3 DEF SideType, Said
<1>5. Local(x, y, e, p, x.tasks[e])
  <2>1. p = [x.wire[e] EXCEPT !.sent = TRUE, !.hasFast = fast]
        /\ y = [x EXCEPT !.wire[e].sent = TRUE, !.wire[e].hasFast = fast] OBVIOUS
  <2> HIDE DEF p, y, fast
  <2>2. y = [x EXCEPT !.wire[e] = p] BY <1>1, <2>1 DEF Shape
  <2>3. Local(x, [x EXCEPT !.wire[e] = p], e, p, x.tasks[e])
    BY <1>1, <1>4, SetOne DEF Shape
  <2> QED BY <2>2, <2>3, Zenon
<1>6. toks \in Seq(Token) /\ toks # << >> /\ toks[1] = Tok("hs", "plain") /\ toks[1] \in Token
  BY DEF Token, TokenKinds, Ciphers, Tok
<1>7. TermsRight(p, e)
  <2>1. TermsRight(q, e) BY <1>1 DEF HandshakeRight
  <2>2. p.hasFast = (q.got /\ FastBoth(e)) BY <1>4
  <2> HIDE DEF p, q, fast
  <2>3. p.got = q.got /\ p.sentExt = q.sentExt BY <1>4 DEF Said
  <2>4. p.got => p.hasFast = FastBoth(e) BY <2>2, <2>3 DEF FastBoth
  <2> QED BY <2>1, <2>3, <2>4 DEF TermsRight
<1>8. SendHandshake(x, e) = IF x.wire[e].got /\ x.wire[e].sentExt = 0
                            THEN SendExtended(z, e) ELSE z
  BY DEF SendHandshake
<1> HIDE DEF p, y, toks, z, fast
<1>9. y \in Shape /\ y.wire[e] = p /\ y.tasks = x.tasks /\ y.wire["out"].pe = x.wire["out"].pe
  <2>1. y.tasks = x.tasks BY <1>1 DEF y, Shape
  <2>2. y.wire["out"].pe = x.wire["out"].pe
    BY <1>4, <1>5 DEF Local, Sides, Other, Said
  <2> QED BY <1>5, <2>1, <2>2 DEF Local
<1>10. Pushed(y, z, e, toks[1]) BY <1>6, <1>9, PushDoes DEF z
<1>11. HandshakeRight(z)
  <2>1. CASE Enc
    <3>1. EncryptedRight(x) /\ x.wire["out"].pe BY <1>1, <2>1 DEF HandshakeRight, Sends
    <3>2. e = "out" => OutEncrypted(p, x.tasks[e]) /\ p.pe /\ (p.open => x.wire["out"].open)
      BY <1>4, <3>1 DEF EncryptedRight, OutEncrypted, Said
    <3>3. e = "in" => /\ InEncrypted(p, x.tasks[e])
                      /\ Untouched(p) => Untouched(x.wire["in"])
                      /\ p.open = x.wire["in"].open /\ p.buffer = x.wire["in"].buffer
      BY <1>4, <3>1 DEF EncryptedRight, InEncrypted, Untouched, Said
    <3>4. HandshakeRight(y) BY <1>1, <1>5, <1>7, <2>1, <3>1, <3>2, <3>3, EncryptedLocal
    <3>5. y.wire["out"].pe BY <1>9, <3>1
    <3> QED BY <1>6, <1>10, <2>1, <3>4, <3>5, EncryptedPush
  <2>2. CASE ~Enc
    BY <1>1, <1>4, <1>5, <1>6, <1>7, <1>10, <2>2, PlainHello
  <2> QED BY <2>1, <2>2
<1>12. Kept(x, z, e) BY <1>4, <1>9, <1>10 DEF Kept, Pushed, Said
<1>13. Sends(z) BY <1>11, <1>12 DEF Sends, Kept
<1>14. z.wire[e].sent /\ z.wire[e].sentExt = x.wire[e].sentExt
  BY <1>4, <1>9, <1>10 DEF Pushed, Said
<1>15. CASE x.wire[e].got /\ x.wire[e].sentExt = 0
  <2>1. Sends(SendExtended(z, e)) /\ Kept(z, SendExtended(z, e), e)
    BY <1>13, <1>14, <1>15, SendExtendedRight
  <2>2. SendHandshake(x, e) = SendExtended(z, e) BY <1>8, <1>15
  <2> QED BY <1>12, <2>1, <2>2 DEF Kept
<1>16. CASE ~(x.wire[e].got /\ x.wire[e].sentExt = 0)
  <2>1. SendHandshake(x, e) = z BY <1>8, <1>16
  <2> QED BY <1>12, <1>13, <2>1
<1> QED BY <1>15, <1>16

(* An end may be handed over.                                              *)
MayJoin(x, e) ==
    /\ (Enc => x.wire[e].got)
    /\ x.wire[e].parser = "messages" \/ (Enc /\ e = "in" /\ ~Untouched(x.wire[e]))
    /\ e = "out" \/ ~Enc => x.wire[e].handled = 0
    /\ ~Enc /\ e = "in" => x.tasks[e] = {}

LEMMA PeerOnHandshakeRight ==
    ASSUME NEW x, NEW e \in Sides, Sends(x), Joined(x, e) => MayJoin(x, e)
    PROVE  Sends(PeerOnHandshake(x, e)) /\ Kept(x, PeerOnHandshake(x, e), e)
<1> DEFINE q == x.wire[e]
           p == [q EXCEPT !.handled = q.handled + 1]
           y == [x EXCEPT !.wire[e].handled = @ + 1]
<1>1. HandshakeRight(x) /\ x \in Shape BY DEF Sends, HandshakeRight
<1>2. CASE ~Joined(x, e)
  <2>1. PeerOnHandshake(x, e) = x BY <1>2 DEF PeerOnHandshake
  <2> QED BY <2>1 DEF Kept
<1>3. CASE Joined(x, e)
  <2>1. MayJoin(x, e) BY <1>3
  <2>2. q \in SideType BY <1>1 DEF Shape
  <2>3. /\ p \in SideType
        /\ p.open = q.open /\ p.swarm = q.swarm /\ p.sync = q.sync /\ p.parser = q.parser
        /\ p.method = q.method /\ p.pe = q.pe /\ p.sent = q.sent /\ p.got = q.got
        /\ p.hasFast = q.hasFast /\ p.sentExt = q.sentExt /\ p.buffer = q.buffer
        /\ p.handled = q.handled + 1
    <3> HIDE DEF q
    <3>1. p \in SideType BY <2>2 DEF SideType
    <3> QED BY <2>2, <3>1 DEF SideType
  <2>4. Local(x, y, e, p, x.tasks[e])
    <3>1. p = [x.wire[e] EXCEPT !.handled = @ + 1]
      /\ y = [x EXCEPT !.wire[e].handled = @ + 1] OBVIOUS
    <3> HIDE DEF p, y
    <3>2. y = [x EXCEPT !.wire[e] = p] BY <1>1, <3>1 DEF Shape
    <3>3. Local(x, [x EXCEPT !.wire[e] = p], e, p, x.tasks[e])
      BY <1>1, <2>3, SetOne DEF Shape
    <3> QED BY <3>2, <3>3, Zenon
  <2>5. PeerOnHandshake(x, e) = IF x.wire[e].sent THEN y ELSE SendHandshake(y, e)
    BY <1>3 DEF PeerOnHandshake
  <2>6. TermsRight(p, e)
    <3>1. TermsRight(q, e) BY <1>1 DEF HandshakeRight
    <3> HIDE DEF p, q
    <3> QED BY <2>3, <3>1 DEF TermsRight
  <2>7. /\ (Enc => q.got)
        /\ q.parser = "messages" \/ (Enc /\ e = "in" /\ ~Untouched(q))
    BY <2>1 DEF MayJoin
  <2> HIDE DEF p, y
  <2>8. HandshakeRight(y)
    <3>1. CASE Enc
      <4>1. EncryptedRight(x) /\ x.wire["out"].pe BY <1>1, <3>1 DEF HandshakeRight, Sends
      <4>2. e = "out" => OutEncrypted(p, x.tasks[e]) /\ p.pe /\ (p.open => x.wire["out"].open)
        BY <2>1, <2>3, <2>7, <4>1 DEF EncryptedRight, OutEncrypted, MayJoin
      <4>3. e = "in" => InEncrypted(p, x.tasks[e]) /\ ~Untouched(p)
        BY <2>3, <2>7, <3>1, <4>1 DEF EncryptedRight, InEncrypted, Untouched
      <4> QED BY <1>1, <2>4, <2>6, <3>1, <4>1, <4>2, <4>3, EncryptedLocal
    <3>2. CASE ~Enc
      <4>1. PlainRight(x) /\ q.handled = 0 BY <1>1, <2>1, <3>2 DEF HandshakeRight, MayJoin
      <4>2. e = "out" => OutPlain(p, x.tasks[e])
        BY <2>3, <2>7, <4>1 DEF PlainRight, OutPlain
      <4>3. e = "in" => InPlain(p, x.tasks[e])
        BY <2>1, <2>3, <2>7, <3>2, <4>1 DEF PlainRight, InPlain, MayJoin
      <4> QED BY <1>1, <2>3, <2>4, <2>6, <3>2, <4>2, <4>3, PlainLocal
    <3> QED BY <3>1, <3>2
  <2>9. Kept(x, y, e)
    <3>1. y.tasks = x.tasks BY <1>1 DEF y, Shape
    <3>2. y.wire["out"].pe = x.wire["out"].pe
      BY <2>3, <2>4 DEF Local, Sides, Other
    <3> QED BY <2>3, <2>4, <3>1, <3>2 DEF Local, Kept
  <2>10. Sends(y) BY <2>8, <2>9 DEF Sends, Kept
  <2>11. Sends(SendHandshake(y, e)) /\ Kept(y, SendHandshake(y, e), e)
    BY <2>10, SendHandshakeRight
  <2>12. Kept(x, SendHandshake(y, e), e) BY <2>9, <2>11 DEF Kept
  <2>13. CASE x.wire[e].sent
    <3>1. PeerOnHandshake(x, e) = y BY <2>5, <2>13
    <3> QED BY <2>9, <2>10, <3>1
  <2>14. CASE ~x.wire[e].sent
    <3>1. PeerOnHandshake(x, e) = SendHandshake(y, e) BY <2>5, <2>14
    <3> QED BY <2>11, <2>12, <3>1
  <2> QED BY <2>13, <2>14
<1> QED BY <1>2, <1>3

(* A handshake that is the first of the tokens and may be taken.           *)
LEMMA OnHandshakeRight ==
    ASSUME NEW x, NEW y, NEW e \in Sides, Sends(x), x.wire[e].open, x.wire[e].buffer # << >>,
           x.wire[e].parser \in {"type", "handshake"}, Enc => x.wire[e].method,
           y = [x EXCEPT !.wire[e].buffer = Tail(@)]
    PROVE  HandshakeRight(OnHandshake(y, e))
<1> DEFINE q == x.wire[e]
           fast == y.wire[e].sent /\ FastBoth(e)
           p == [q EXCEPT !.buffer = Tail(q.buffer), !.got = TRUE, !.hasFast = fast,
                          !.parser = "messages"]
           u1 == [y EXCEPT !.wire[e].got = TRUE, !.wire[e].hasFast = fast,
                           !.wire[e].parser = "messages"]
           z == PeerOnHandshake(u1, e)
           v == IF e = "in" THEN Await(z, e, "get", "none") ELSE z
<1>1. HandshakeRight(x) /\ x \in Shape BY DEF Sends, HandshakeRight
<1>2. q \in SideType BY <1>1 DEF Shape
<1>3. fast \in BOOLEAN /\ Tail(q.buffer) \in Seq(Token)
  <2>1. q.buffer # << >> OBVIOUS
  <2> HIDE DEF q, fast
  <2>2. q.buffer \in Seq(Token) BY <1>2 DEF SideType
  <2>3. Tail(q.buffer) \in Seq(Token) BY <2>1, <2>2, HeadTailProperties
  <2>4. fast \in BOOLEAN BY DEF fast
  <2> QED BY <2>3, <2>4
<1>4. /\ p \in SideType /\ p.got /\ p.parser = "messages" /\ p.hasFast = fast
      /\ p.open = q.open /\ p.swarm = q.swarm /\ p.sync = q.sync /\ p.method = q.method
      /\ p.pe = q.pe /\ p.sent = q.sent /\ p.sentExt = q.sentExt /\ p.handled = q.handled
  <2> DEFINE rest == Tail(q.buffer)
  <2>1. p = [q EXCEPT !.buffer = rest, !.got = TRUE, !.hasFast = fast, !.parser = "messages"]
    OBVIOUS
  <2>2. rest \in Seq(Token) BY <1>3
  <2> HIDE DEF fast, q, rest, p
  <2>3. p \in SideType BY <1>2, <1>3, <2>1, <2>2 DEF SideType, Parsers
  <2> QED BY <1>2, <2>1, <2>3 DEF SideType
<1>5. Local(x, u1, e, p, x.tasks[e])
  <2>1. p = [x.wire[e] EXCEPT !.buffer = Tail(@), !.got = TRUE, !.hasFast = fast,
                              !.parser = "messages"]
        /\ u1 = [y EXCEPT !.wire[e].got = TRUE, !.wire[e].hasFast = fast,
                          !.wire[e].parser = "messages"] OBVIOUS
  <2> HIDE DEF p, u1, fast
  <2>2. u1 = [x EXCEPT !.wire[e] = p] BY <1>1, <2>1 DEF Shape
  <2>3. Local(x, [x EXCEPT !.wire[e] = p], e, p, x.tasks[e])
    BY <1>1, <1>4, SetOne DEF Shape
  <2> QED BY <2>2, <2>3, Zenon
<1>7. y.wire[e].sent = q.sent
  <2>1. y.wire[e] = [x.wire[e] EXCEPT !.buffer = Tail(@)] BY <1>1 DEF Shape
  <2> QED BY <1>2, <2>1 DEF SideType
<1>6. TermsRight(p, e)
  <2>1. TermsRight(q, e) BY <1>1 DEF HandshakeRight
  <2>2. p.hasFast = (q.sent /\ FastBoth(e)) BY <1>4, <1>7
  <2> HIDE DEF p, q, fast
  <2>3. p.sent => p.hasFast = FastBoth(e) BY <1>4, <2>2 DEF FastBoth
  <2> QED BY <1>4, <2>1, <2>3 DEF TermsRight
<1>8. OnHandshake(y, e) = IF v.wire[e].sent /\ v.wire[e].sentExt = 0 THEN SendExtended(v, e) ELSE v
  BY Zenon DEF OnHandshake
<1> HIDE DEF p, u1, z, v, fast
<1>9. HandshakeRight(u1) /\ (MayJoin(u1, e) \/ ~Joined(u1, e))
  <2>0. u1.wire[e] = p /\ u1.tasks[e] = x.tasks[e] BY <1>5 DEF Local
  <2>1. CASE Enc
    <3>1. EncryptedRight(x) /\ x.wire["out"].pe /\ q.method BY <1>1, <2>1 DEF HandshakeRight, Sends
    <3>2. e = "out" => /\ OutEncrypted(p, x.tasks[e]) /\ p.pe
                       /\ (p.open => x.wire["out"].open) /\ p.handled = 0
      BY <1>4, <3>1 DEF EncryptedRight, OutEncrypted
    <3>3. e = "in" => InEncrypted(p, x.tasks[e]) /\ ~Untouched(p)
      BY <1>4, <3>1 DEF EncryptedRight, InEncrypted, Untouched
    <3>4. HandshakeRight(u1) BY <1>1, <1>5, <1>6, <2>1, <3>1, <3>2, <3>3, EncryptedLocal
    <3>5. e = "out" => p.handled = 0 BY <3>2
    <3>6. MayJoin(u1, e)
      <4>1. u1.wire[e].got /\ u1.wire[e].parser = "messages" BY <1>4, <2>0
      <4>2. e = "out" => u1.wire[e].handled = 0 BY <2>0, <3>5
      <4> QED BY <2>1, <4>1, <4>2 DEF MayJoin
    <3> QED BY <3>4, <3>6
  <2>2. CASE ~Enc
    <3>1. PlainRight(x) BY <1>1, <2>2 DEF HandshakeRight
    <3>2. e = "out" => OutPlain(p, x.tasks[e]) /\ p.handled = 0
      BY <1>4, <3>1 DEF PlainRight, OutPlain
    <3>3. e = "in" => InPlain(p, x.tasks[e]) /\ ~p.swarm
      BY <1>4, <3>1 DEF PlainRight, InPlain
    <3>4. HandshakeRight(u1) BY <1>1, <1>4, <1>5, <1>6, <2>2, <3>2, <3>3, PlainLocal
    <3>5. e = "in" => ~Joined(u1, e) BY <2>0, <3>3 DEF Joined
    <3>6. ASSUME e = "out" PROVE MayJoin(u1, e)
      <4>1. u1.wire[e].got /\ u1.wire[e].parser = "messages" BY <1>4, <2>0
      <4>2. u1.wire[e].handled = 0 BY <2>0, <3>2, <3>6
      <4> QED BY <3>6, <4>1, <4>2 DEF MayJoin
    <3> QED BY <3>4, <3>5, <3>6 DEF Sides
  <2> QED BY <2>1, <2>2
<1>10. u1.wire["out"].pe = x.wire["out"].pe /\ u1.wire[e] = p
  BY <1>4, <1>5 DEF Local, Sides, Other
<1>11. Sends(u1) BY <1>9, <1>10 DEF Sends
<1>12. Sends(z) /\ Kept(u1, z, e) BY <1>9, <1>11, PeerOnHandshakeRight DEF z
<1>13. Sends(v)
  <2>1. CASE e = "out"
    <3>1. v = z BY <2>1 DEF v
    <3> QED BY <1>12, <3>1
  <2>2. CASE e = "in"
    <3> DEFINE ts == z.tasks[e] \cup {GetTask}
    <3>1. v = [z EXCEPT !.tasks[e] = ts] BY <2>2 DEF v, Await, GetTask
    <3>2. z \in Shape /\ z.wire[e] \in SideType /\ HandshakeRight(z)
      BY <1>12 DEF Sends, HandshakeRight, Shape
    <3>3. GetTask \in Task BY DEF GetTask, Task, Ciphers
    <3>4. ts \in SUBSET Task BY <3>2, <3>3 DEF Shape
    <3> HIDE DEF ts
    <3>5. Local(z, v, e, z.wire[e], ts)
      <4>1. v \in Shape BY <3>1, <3>2, <3>4 DEF Shape
      <4>2. v.wire = z.wire /\ v.stream = z.stream /\ v.misread = z.misread
            /\ v.tasks = [z.tasks EXCEPT ![e] = ts]
        BY <3>1, <3>2 DEF Shape
      <4> QED BY <3>2, <4>1, <4>2, TwoSides DEF Local, Shape
    <3>6. z.wire[e].got /\ z.wire[e].parser = "messages" BY <1>4, <1>10, <1>12 DEF Kept
    <3>7. TermsRight(z.wire[e], e) BY <3>2 DEF HandshakeRight
    <3>8. HandshakeRight(v)
      <4>1. CASE Enc
        <5>1. EncryptedRight(z) /\ z.wire["out"].pe BY <1>12, <3>2, <4>1 DEF HandshakeRight, Sends
        <5>2. InEncrypted(z.wire[e], ts) /\ ~Untouched(z.wire[e])
          BY <2>2, <3>6, <5>1 DEF EncryptedRight, InEncrypted, Untouched, GetTask, ts
        <5> QED BY <2>2, <3>2, <3>5, <3>7, <4>1, <5>1, <5>2, EncryptedLocal
      <4>2. CASE ~Enc
        <5>1. PlainRight(z) BY <3>2, <4>2 DEF HandshakeRight
        <5>2. PlainRight(x) /\ x.tasks[e] = {} /\ ~p.swarm /\ p.handled = 0
          BY <1>1, <1>4, <2>2, <4>2 DEF HandshakeRight, PlainRight, InPlain
        <5>3. z = u1 BY <1>10, <5>2 DEF z, PeerOnHandshake, Joined
        <5>4. z.tasks[e] = {} /\ z.wire[e].handled = 0 BY <1>5, <1>10, <5>2, <5>3 DEF Local
        <5>5. InPlain(z.wire[e], ts)
          BY <2>2, <3>6, <5>1, <5>4 DEF PlainRight, InPlain, ts
        <5> QED BY <2>2, <3>2, <3>5, <3>7, <4>2, <5>5, PlainLocal
      <4> QED BY <4>1, <4>2
    <3>9. v.wire["out"].pe = z.wire["out"].pe BY <2>2, <3>5 DEF Local, Other
    <3> QED BY <1>12, <3>8, <3>9 DEF Sends
  <2> QED BY <2>1, <2>2 DEF Sides
<1>14. CASE v.wire[e].sent /\ v.wire[e].sentExt = 0
  <2>1. Sends(SendExtended(v, e)) BY <1>13, <1>14, SendExtendedRight
  <2>2. OnHandshake(y, e) = SendExtended(v, e) BY <1>8, <1>14
  <2> QED BY <2>1, <2>2 DEF Sends
<1>15. CASE ~(v.wire[e].sent /\ v.wire[e].sentExt = 0)
  <2>1. OnHandshake(y, e) = v BY <1>8, <1>15
  <2> QED BY <1>13, <2>1 DEF Sends
<1> QED BY <1>14, <1>15

-----------------------------------------------------------------------------
(* Steps from the state of the variables.                                  *)
LEMMA BecomesRight ==
    ASSUME HandshakeInv, NEW y, HandshakeRight(y), Becomes(y), UNCHANGED <<setup, retries>>
    PROVE  HandshakeInv'
<1>1. y = [wire |-> y.wire, stream |-> y.stream, tasks |-> y.tasks, misread |-> y.misread,
           crashed |-> y.crashed]
  BY DEF HandshakeRight, Shape
<1>2. Now' = y BY <1>1 DEF Becomes, Now
<1>3. Enc' = Enc BY DEF Enc, Encrypts
<1>4. HandshakeRight(Now)'
  <2>1. (Now \in Shape)' BY <1>2 DEF HandshakeRight
  <2>2. (\A e \in Sides : TermsRight(Now.wire[e], e))'
    BY <1>2 DEF HandshakeRight, TermsRight, FastBoth
  <2>3. ASSUME Enc PROVE EncryptedRight(Now)'
    <3>1. EncryptedRight(y) BY <2>3 DEF HandshakeRight
    <3> QED BY <1>2, <3>1
  <2>4. ASSUME ~Enc PROVE PlainRight(Now)'
    <3>1. PlainRight(y) BY <2>4 DEF HandshakeRight
    <3> QED BY <1>2, <3>1
  <2> QED BY <1>3, <2>1, <2>2, <2>3, <2>4 DEF HandshakeRight
<1> QED BY <1>4 DEF HandshakeInv

LEMMA NowRight ==
    ASSUME HandshakeInv
    PROVE  /\ HandshakeRight(Now) /\ Now \in Shape /\ Now.wire = wire /\ Now.tasks = tasks
           /\ Now.stream = stream /\ Now.misread = misread
           /\ \A e \in Sides : wire[e] \in SideType /\ stream[e] \in Seq(Token)
                               /\ tasks[e] \in SUBSET Task
           /\ Enc => EncryptedRight(Now)
           /\ ~Enc => PlainRight(Now)
<1>1. Now.wire = wire /\ Now.tasks = tasks /\ Now.stream = stream /\ Now.misread = misread
  BY DEF Now
<1>2. HandshakeRight(Now) /\ Now \in Shape BY DEF HandshakeInv, HandshakeRight
<1>3. \A e \in Sides : wire[e] \in SideType /\ stream[e] \in Seq(Token) /\ tasks[e] \in SUBSET Task
  BY <1>1, <1>2 DEF Shape
<1>4. (Enc => EncryptedRight(Now)) /\ (~Enc => PlainRight(Now)) BY <1>2 DEF HandshakeRight
<1> QED BY <1>1, <1>2, <1>3, <1>4

(* An attempt with unread tokens or tasks has begun.                       *)
LEMMA HasBegun ==
    ASSUME HandshakeInv, NEW e \in Sides,
           wire[e].buffer # << >> \/ stream[e] # << >> \/ tasks[e] # {}
    PROVE  Sends(Now)
BY NowRight DEF Sends, EncryptedRight, Begun, Unread

(* What one end has told and heard, and the rest of its record that most   *)
(* steps leave alone.                                                      *)
SameTold(p, q) ==
    p.sent = q.sent /\ p.got = q.got /\ p.hasFast = q.hasFast /\ p.sentExt = q.sentExt

Keeps(p, q) ==
    /\ SameTold(p, q) /\ p.open = q.open /\ p.swarm = q.swarm /\ p.sync = q.sync
    /\ p.parser = q.parser /\ p.method = q.method /\ p.pe = q.pe /\ p.handled = q.handled

(* A step that touches one end only.                                       *)
Touches(x, y, e) == Local(x, y, e, y.wire[e], y.tasks[e])

LEMMA TouchesTwice ==
    ASSUME NEW x, NEW y, NEW z, NEW e \in Sides, Touches(x, y, e), Touches(y, z, e)
    PROVE  Touches(x, z, e)
BY DEF Touches, Local

(* Another record of an end.                                              *)
SetEnd(x, e, p) == [x EXCEPT !.wire[e] = p]

LEMMA SetTouches ==
    ASSUME NEW x \in Shape, NEW e \in Sides, NEW p \in SideType, NEW y, y = SetEnd(x, e, p)
    PROVE  Touches(x, y, e) /\ y \in Shape /\ y.wire[e] = p /\ y.tasks = x.tasks
<1>1. Local(x, y, e, p, x.tasks[e]) BY SetOne DEF Shape, SetEnd
<1>2. y.tasks = x.tasks BY DEF Shape, SetEnd
<1> QED BY <1>1, <1>2 DEF Touches, Local

LEMMA AwaitTouches ==
    ASSUME NEW x \in Shape, NEW e \in Sides, NEW k, NEW s, [k |-> k, s |-> s] \in Task
    PROVE  /\ Touches(x, Await(x, e, k, s), e) /\ Await(x, e, k, s) \in Shape
           /\ Await(x, e, k, s).wire = x.wire
           /\ Await(x, e, k, s).tasks[e] = x.tasks[e] \cup {[k |-> k, s |-> s]}
<1> DEFINE task == [k |-> k, s |-> s]
           ts == x.tasks[e] \cup {task}
           y == Await(x, e, k, s)
<1>1. y = [x EXCEPT !.tasks[e] = ts] BY DEF Await
<1>2. ts \in SUBSET Task BY DEF Shape
<1>3. ts = x.tasks[e] \cup {task} OBVIOUS
<1> HIDE DEF ts, y, task
<1>4. y \in Shape BY <1>1, <1>2 DEF Shape
<1>5. y.wire = x.wire /\ y.stream = x.stream /\ y.misread = x.misread
      /\ y.tasks = [x.tasks EXCEPT ![e] = ts]
  BY <1>1 DEF Shape
<1>6. y.tasks[e] = ts /\ y.tasks[Other(e)] = x.tasks[Other(e)] BY <1>5, TwoSides DEF Shape
<1>7. Touches(x, y, e) BY <1>4, <1>5, <1>6 DEF Touches, Local
<1> QED BY <1>3, <1>4, <1>5, <1>6, <1>7 DEF y, task

LEMMA DoneTouches ==
    ASSUME HandshakeInv, NEW e \in Sides, NEW k, NEW s
    PROVE  /\ Touches(Now, Done(e, k, s), e) /\ Done(e, k, s) \in Shape
           /\ Done(e, k, s).wire = wire
           /\ Done(e, k, s).tasks[e] = tasks[e] \ {[k |-> k, s |-> s]}
<1> DEFINE task == [k |-> k, s |-> s]
           ts == Now.tasks[e] \ {task}
           y == Done(e, k, s)
<1>0. Now \in Shape /\ Now.wire = wire /\ Now.tasks = tasks BY NowRight
<1>1. y = [Now EXCEPT !.tasks[e] = ts] BY DEF Done
<1>2. ts \in SUBSET Task BY <1>0 DEF Shape
<1>3. ts = tasks[e] \ {task} BY <1>0
<1> HIDE DEF ts, y, task
<1>4. y \in Shape BY <1>0, <1>1, <1>2 DEF Shape
<1>5. y.wire = Now.wire /\ y.stream = Now.stream /\ y.misread = Now.misread
      /\ y.tasks = [Now.tasks EXCEPT ![e] = ts]
  BY <1>0, <1>1 DEF Shape
<1>6. y.tasks[e] = ts /\ y.tasks[Other(e)] = Now.tasks[Other(e)] BY <1>0, <1>5, TwoSides DEF Shape
<1>7. Touches(Now, y, e) BY <1>4, <1>5, <1>6 DEF Touches, Local
<1> QED BY <1>0, <1>3, <1>4, <1>5, <1>6, <1>7 DEF y, task

(* One field of an end is set.                                             *)
WithSecret(x, e, s) == [x EXCEPT !.wire[e].secret = s]
WithBuffer(x, e, b) == [x EXCEPT !.wire[e].buffer = b]

LEMMA SetSecret ==
    ASSUME NEW x \in Shape, NEW e \in Sides, NEW s \in Ciphers, NEW y,
           y = WithSecret(x, e, s)
    PROVE  /\ Touches(x, y, e) /\ y \in Shape /\ y.tasks = x.tasks
           /\ Keeps(y.wire[e], x.wire[e]) /\ y.wire[e].buffer = x.wire[e].buffer
<1> DEFINE q == x.wire[e]
           p == [q EXCEPT !.secret = s]
<1>1. q \in SideType BY DEF Shape
<1>2. p = [q EXCEPT !.secret = s] OBVIOUS
<1>3. y = SetEnd(x, e, p) BY DEF Shape, SetEnd, WithSecret
<1> HIDE DEF p
<1>4. p \in SideType
  <2> HIDE DEF q
  <2> QED BY <1>1, <1>2 DEF SideType
<1>5. Keeps(p, q) /\ p.buffer = q.buffer
  <2> HIDE DEF q
  <2> QED BY <1>1, <1>2, <1>4 DEF SideType, Keeps, SameTold
<1>6. Touches(x, y, e) /\ y \in Shape /\ y.wire[e] = p /\ y.tasks = x.tasks
  <2> HIDE DEF q
  <2> QED BY <1>3, <1>4, SetTouches
<1> QED BY <1>5, <1>6, Zenon

LEMMA WaitTouches ==
    ASSUME NEW x \in Shape, NEW e \in Sides, NEW y, y = WaitFor(x, e)
    PROVE  /\ Touches(x, y, e) /\ y \in Shape /\ y.tasks = x.tasks
           /\ Keeps(y.wire[e], x.wire[e]) /\ y.wire[e].buffer = x.wire[e].buffer
<1> DEFINE q == x.wire[e]
           more == q.waiters + 1
           p == [q EXCEPT !.waiters = more]
<1>1. q \in SideType BY DEF Shape
<1>2. p = [q EXCEPT !.waiters = more] OBVIOUS
<1>3. y = SetEnd(x, e, p) BY DEF Shape, WaitFor, SetEnd
<1>4. more \in Nat
  <2> HIDE DEF q
  <2> QED BY <1>1 DEF SideType
<1> HIDE DEF p, more
<1>5. p \in SideType
  <2> HIDE DEF q
  <2> QED BY <1>1, <1>2, <1>4 DEF SideType
<1>6. Keeps(p, q) /\ p.buffer = q.buffer
  <2> HIDE DEF q
  <2> QED BY <1>1, <1>2, <1>5 DEF SideType, Keeps, SameTold
<1>7. Touches(x, y, e) /\ y \in Shape /\ y.wire[e] = p /\ y.tasks = x.tasks
  <2> HIDE DEF q
  <2> QED BY <1>3, <1>5, SetTouches
<1> QED BY <1>6, <1>7, Zenon

LEMMA SetBuffer ==
    ASSUME NEW x \in Shape, NEW e \in Sides, NEW b \in Seq(Token), NEW y,
           y = WithBuffer(x, e, b)
    PROVE  /\ Touches(x, y, e) /\ y \in Shape /\ y.tasks = x.tasks
           /\ Keeps(y.wire[e], x.wire[e]) /\ y.wire[e].buffer = b
<1> DEFINE q == x.wire[e]
           p == [q EXCEPT !.buffer = b]
<1>1. q \in SideType BY DEF Shape
<1>2. p = [q EXCEPT !.buffer = b] OBVIOUS
<1>3. y = SetEnd(x, e, p) BY DEF Shape, SetEnd, WithBuffer
<1> HIDE DEF p
<1>4. p \in SideType
  <2> HIDE DEF q
  <2> QED BY <1>1, <1>2 DEF SideType
<1>5. Keeps(p, q) /\ p.buffer = b
  <2> HIDE DEF q
  <2> QED BY <1>1, <1>2, <1>4 DEF SideType, Keeps, SameTold
<1>6. Touches(x, y, e) /\ y \in Shape /\ y.wire[e] = p /\ y.tasks = x.tasks
  <2> HIDE DEF q
  <2> QED BY <1>3, <1>4, SetTouches
<1> QED BY <1>5, <1>6, Zenon

LEMMA FirstTaken ==
    ASSUME NEW q \in SideType, q.buffer # << >>
    PROVE  Tail(q.buffer) \in Seq(Token) /\ q.buffer[1] \in Token
<1>1. q.buffer \in Seq(Token) BY DEF SideType
<1>2. Len(q.buffer) \in Nat \ {0} BY <1>1, EmptySeq, LenProperties
<1> QED BY <1>1, <1>2, HeadTailProperties, ElementOfSeq

LEMMA TakenTouches ==
    ASSUME HandshakeInv, NEW e \in Sides, wire[e].buffer # << >>
    PROVE  /\ Touches(Now, Taken(e), e) /\ Taken(e) \in Shape /\ Taken(e).tasks = tasks
           /\ Keeps(Taken(e).wire[e], wire[e]) /\ FirstToken(e) \in Token
<1>1. Now \in Shape /\ Now.wire = wire /\ Now.tasks = tasks /\ wire[e] \in SideType BY NowRight
<1>2. Tail(wire[e].buffer) \in Seq(Token) /\ FirstToken(e) \in Token
  BY <1>1, FirstTaken DEF FirstToken
<1>3. Taken(e) = [Now EXCEPT !.wire[e].buffer = Tail(wire[e].buffer)] BY <1>1 DEF Taken
<1> DEFINE y == Taken(e)
           b == Tail(wire[e].buffer)
<1>4. y = WithBuffer(Now, e, b) BY <1>3 DEF WithBuffer
<1>5. b \in Seq(Token) BY <1>2
<1> HIDE DEF y, b
<1>6. Touches(Now, y, e) /\ y \in Shape /\ y.tasks = Now.tasks /\ Keeps(y.wire[e], Now.wire[e])
  BY <1>1, <1>4, <1>5, SetBuffer
<1> QED BY <1>1, <1>2, <1>6 DEF y

LEMMA OutStep ==
    ASSUME HandshakeInv, Enc, wire["out"].pe, NEW y, Touches(Now, y, "out"),
           SameTold(y.wire["out"], wire["out"]), OutEncrypted(y.wire["out"], y.tasks["out"]),
           y.wire["out"].pe, y.wire["out"].open => wire["out"].open
    PROVE  Sends(y)
<1>1. TermsRight(y.wire["out"], "out")
  BY NowRight DEF SameTold, TermsRight, HandshakeRight, Sides
<1>2. HandshakeRight(y) BY <1>1, NowRight, EncryptedLocal DEF Sides, Touches
<1> QED BY <1>2 DEF Sends

LEMMA InStep ==
    ASSUME HandshakeInv, Enc, wire["out"].pe, NEW y, Touches(Now, y, "in"),
           SameTold(y.wire["in"], wire["in"]), wire["in"].method => y.wire["in"].method,
           y.wire["in"].handled = wire["in"].handled,
           \/ y.wire["in"].parser \in {"pe1", "pe3", "pe3enc", "stuck", "messages"}
           \/ y.wire["in"].parser = "handshake" /\ y.wire["in"].method,
           GetTask \in y.tasks["in"] => GetTask \in tasks["in"],
           \A task \in y.tasks["in"] : task.k \notin {"encrypt3", "hashes3"}
    PROVE  Sends(y)
<1> DEFINE p == y.wire["in"]
           ts == y.tasks["in"]
<1>1. Local(Now, y, "in", p, ts) BY DEF Touches
<1>2. TermsRight(p, "in")
  BY NowRight DEF SameTold, TermsRight, HandshakeRight, Sides
<1>3. InEncrypted(wire["in"], tasks["in"]) BY NowRight DEF EncryptedRight
<1>4. ~Untouched(p) BY DEF Untouched
<1>5. InEncrypted(p, ts) BY <1>3, <1>4 DEF InEncrypted, SameTold
<1>6. HandshakeRight(y) BY <1>1, <1>2, <1>4, <1>5, NowRight, EncryptedLocal DEF Sides
<1>7. y.wire["out"] = wire["out"] BY <1>1, NowRight DEF Local, Other
<1> QED BY <1>6, <1>7 DEF Sends

(* An end goes on to another parser, with the secret or the cipher known.   *)
WithKey(x, e, f, s) == [x EXCEPT !.wire[e].parser = f, !.wire[e].secret = s]
WithMethod(x, e) == [x EXCEPT !.wire[e].method = TRUE, !.wire[e].parser = "handshake"]
WithDone(x, e) ==
    [x EXCEPT !.wire[e].method = TRUE, !.wire[e].done = TRUE, !.wire[e].parser = "handshake"]
WithParser(x, e, f) == [x EXCEPT !.wire[e].parser = f]
WithExt(x, e) == [x EXCEPT !.wire[e].gotExt = TRUE]

LEMMA SetKey ==
    ASSUME NEW x \in Shape, NEW e \in Sides, NEW f \in Parsers, NEW s \in Ciphers,
           NEW y, y = WithKey(x, e, f, s)
    PROVE  /\ Touches(x, y, e) /\ y \in Shape /\ y.tasks = x.tasks
           /\ SameTold(y.wire[e], x.wire[e]) /\ y.wire[e].open = x.wire[e].open
           /\ y.wire[e].swarm = x.wire[e].swarm /\ y.wire[e].sync = x.wire[e].sync
           /\ y.wire[e].method = x.wire[e].method /\ y.wire[e].pe = x.wire[e].pe
           /\ y.wire[e].handled = x.wire[e].handled
           /\ y.wire[e].buffer = x.wire[e].buffer /\ y.wire[e].parser = f
           /\ y.wire[e].secret = s
<1> DEFINE q == x.wire[e]
           p == [q EXCEPT !.parser = f, !.secret = s]
<1>1. q \in SideType BY DEF Shape
<1>2. p = [q EXCEPT !.parser = f, !.secret = s] OBVIOUS
<1>3. y = SetEnd(x, e, p) BY DEF Shape, SetEnd, WithKey
<1> HIDE DEF p
<1>4. p \in SideType
  <2> HIDE DEF q
  <2> QED BY <1>1, <1>2 DEF SideType
<1>5. /\ SameTold(p, q) /\ p.open = q.open /\ p.swarm = q.swarm /\ p.sync = q.sync
      /\ p.method = q.method /\ p.pe = q.pe /\ p.handled = q.handled
      /\ p.buffer = q.buffer /\ p.parser = f /\ p.secret = s
  <2> HIDE DEF q
  <2> QED BY <1>1, <1>2, <1>4 DEF SideType, SameTold
<1>6. Touches(x, y, e) /\ y \in Shape /\ y.wire[e] = p /\ y.tasks = x.tasks
  <2> HIDE DEF q
  <2> QED BY <1>3, <1>4, SetTouches
<1> QED BY <1>5, <1>6, Zenon

LEMMA SetMethod ==
    ASSUME NEW x \in Shape, NEW e \in Sides,
           NEW y, y = WithMethod(x, e)
    PROVE  /\ Touches(x, y, e) /\ y \in Shape /\ y.tasks = x.tasks
           /\ SameTold(y.wire[e], x.wire[e]) /\ y.wire[e].open = x.wire[e].open
           /\ y.wire[e].swarm = x.wire[e].swarm /\ y.wire[e].sync = x.wire[e].sync
           /\ y.wire[e].pe = x.wire[e].pe /\ y.wire[e].handled = x.wire[e].handled
           /\ y.wire[e].buffer = x.wire[e].buffer /\ y.wire[e].method
           /\ y.wire[e].parser = "handshake"
<1> DEFINE q == x.wire[e]
           p == [q EXCEPT !.method = TRUE, !.parser = "handshake"]
<1>1. q \in SideType BY DEF Shape
<1>2. p = [q EXCEPT !.method = TRUE, !.parser = "handshake"] OBVIOUS
<1>3. y = SetEnd(x, e, p) BY DEF Shape, SetEnd, WithMethod
<1> HIDE DEF p
<1>4. p \in SideType
  <2> HIDE DEF q
  <2> QED BY <1>1, <1>2 DEF SideType, Parsers
<1>5. /\ SameTold(p, q) /\ p.open = q.open /\ p.swarm = q.swarm /\ p.sync = q.sync
      /\ p.pe = q.pe /\ p.handled = q.handled /\ p.buffer = q.buffer /\ p.method
      /\ p.parser = "handshake"
  <2> HIDE DEF q
  <2> QED BY <1>1, <1>2, <1>4 DEF SideType, SameTold
<1>6. Touches(x, y, e) /\ y \in Shape /\ y.wire[e] = p /\ y.tasks = x.tasks
  <2> HIDE DEF q
  <2> QED BY <1>3, <1>4, SetTouches
<1> QED BY <1>5, <1>6, Zenon

LEMMA SetDone ==
    ASSUME NEW x \in Shape, NEW e \in Sides,
           NEW y, y = WithDone(x, e)
    PROVE  /\ Touches(x, y, e) /\ y \in Shape /\ y.tasks = x.tasks
           /\ SameTold(y.wire[e], x.wire[e]) /\ y.wire[e].open = x.wire[e].open
           /\ y.wire[e].swarm = x.wire[e].swarm /\ y.wire[e].sync = x.wire[e].sync
           /\ y.wire[e].pe = x.wire[e].pe /\ y.wire[e].handled = x.wire[e].handled
           /\ y.wire[e].buffer = x.wire[e].buffer /\ y.wire[e].method /\ y.wire[e].done
           /\ y.wire[e].parser = "handshake"
<1> DEFINE q == x.wire[e]
           p == [q EXCEPT !.method = TRUE, !.done = TRUE, !.parser = "handshake"]
<1>1. q \in SideType BY DEF Shape
<1>2. p = [q EXCEPT !.method = TRUE, !.done = TRUE, !.parser = "handshake"] OBVIOUS
<1>3. y = SetEnd(x, e, p) BY DEF Shape, SetEnd, WithDone
<1> HIDE DEF p
<1>4. p \in SideType
  <2> HIDE DEF q
  <2> QED BY <1>1, <1>2 DEF SideType, Parsers
<1>5. /\ SameTold(p, q) /\ p.open = q.open /\ p.swarm = q.swarm /\ p.sync = q.sync
      /\ p.pe = q.pe /\ p.handled = q.handled /\ p.buffer = q.buffer /\ p.method
      /\ p.done /\ p.parser = "handshake"
  <2> HIDE DEF q
  <2> QED BY <1>1, <1>2, <1>4 DEF SideType, SameTold
<1>6. Touches(x, y, e) /\ y \in Shape /\ y.wire[e] = p /\ y.tasks = x.tasks
  <2> HIDE DEF q
  <2> QED BY <1>3, <1>4, SetTouches
<1> QED BY <1>5, <1>6, Zenon

LEMMA SetParser ==
    ASSUME NEW x \in Shape, NEW e \in Sides, NEW f \in Parsers,
           NEW y, y = WithParser(x, e, f)
    PROVE  /\ Touches(x, y, e) /\ y \in Shape /\ y.tasks = x.tasks
           /\ SameTold(y.wire[e], x.wire[e]) /\ y.wire[e].open = x.wire[e].open
           /\ y.wire[e].swarm = x.wire[e].swarm /\ y.wire[e].sync = x.wire[e].sync
           /\ y.wire[e].method = x.wire[e].method /\ y.wire[e].pe = x.wire[e].pe
           /\ y.wire[e].handled = x.wire[e].handled
           /\ y.wire[e].buffer = x.wire[e].buffer /\ y.wire[e].parser = f
<1> DEFINE q == x.wire[e]
           p == [q EXCEPT !.parser = f]
<1>1. q \in SideType BY DEF Shape
<1>2. p = [q EXCEPT !.parser = f] OBVIOUS
<1>3. y = SetEnd(x, e, p) BY DEF Shape, SetEnd, WithParser
<1> HIDE DEF p
<1>4. p \in SideType
  <2> HIDE DEF q
  <2> QED BY <1>1, <1>2 DEF SideType
<1>5. /\ SameTold(p, q) /\ p.open = q.open /\ p.swarm = q.swarm /\ p.sync = q.sync
      /\ p.method = q.method /\ p.pe = q.pe /\ p.handled = q.handled
      /\ p.buffer = q.buffer /\ p.parser = f
  <2> HIDE DEF q
  <2> QED BY <1>1, <1>2, <1>4 DEF SideType, SameTold
<1>6. Touches(x, y, e) /\ y \in Shape /\ y.wire[e] = p /\ y.tasks = x.tasks
  <2> HIDE DEF q
  <2> QED BY <1>3, <1>4, SetTouches
<1> QED BY <1>5, <1>6, Zenon

LEMMA SetExt ==
    ASSUME NEW x \in Shape, NEW e \in Sides,
           NEW y, y = WithExt(x, e)
    PROVE  /\ Touches(x, y, e) /\ y \in Shape /\ y.tasks = x.tasks
           /\ SameTold(y.wire[e], x.wire[e]) /\ y.wire[e].open = x.wire[e].open
           /\ y.wire[e].swarm = x.wire[e].swarm /\ y.wire[e].sync = x.wire[e].sync
           /\ y.wire[e].parser = x.wire[e].parser /\ y.wire[e].method = x.wire[e].method
           /\ y.wire[e].pe = x.wire[e].pe /\ y.wire[e].handled = x.wire[e].handled
           /\ y.wire[e].buffer = x.wire[e].buffer /\ y.wire[e].gotExt
<1> DEFINE q == x.wire[e]
           p == [q EXCEPT !.gotExt = TRUE]
<1>1. q \in SideType BY DEF Shape
<1>2. p = [q EXCEPT !.gotExt = TRUE] OBVIOUS
<1>3. y = SetEnd(x, e, p) BY DEF Shape, SetEnd, WithExt
<1> HIDE DEF p
<1>4. p \in SideType
  <2> HIDE DEF q
  <2> QED BY <1>1, <1>2 DEF SideType
<1>5. /\ SameTold(p, q) /\ p.open = q.open /\ p.swarm = q.swarm /\ p.sync = q.sync
      /\ p.parser = q.parser /\ p.method = q.method /\ p.pe = q.pe
      /\ p.handled = q.handled /\ p.buffer = q.buffer /\ p.gotExt
  <2> HIDE DEF q
  <2> QED BY <1>1, <1>2, <1>4 DEF SideType, SameTold
<1>6. Touches(x, y, e) /\ y \in Shape /\ y.wire[e] = p /\ y.tasks = x.tasks
  <2> HIDE DEF q
  <2> QED BY <1>3, <1>4, SetTouches
<1> QED BY <1>5, <1>6, Zenon

(* What the awaited results set.                                           *)
WithSync(x, e, s) == [x EXCEPT !.wire[e].sync = s, !.wire[e].parser = "pe3"]
WithPe(x, e) == [x EXCEPT !.wire[e].pe = TRUE]
WithSwarm(x, e) == [x EXCEPT !.wire[e].swarm = TRUE]
WithGens(x, e, s, f, g) ==
    [x EXCEPT !.wire[e].gens = s, !.wire[e].waiters = 0, !.wire[e].parser = f, !.wire[e].sync = g]
WithEnd(x, e) == [x EXCEPT !.wire[e].done = TRUE]

LEMMA SetSync ==
    ASSUME NEW x \in Shape, NEW e \in Sides, NEW s \in Ciphers,
           NEW y, y = WithSync(x, e, s)
    PROVE  /\ Touches(x, y, e) /\ y \in Shape /\ y.tasks = x.tasks
           /\ SameTold(y.wire[e], x.wire[e]) /\ y.wire[e].open = x.wire[e].open
           /\ y.wire[e].swarm = x.wire[e].swarm /\ y.wire[e].method = x.wire[e].method
           /\ y.wire[e].pe = x.wire[e].pe /\ y.wire[e].handled = x.wire[e].handled
           /\ y.wire[e].buffer = x.wire[e].buffer /\ y.wire[e].sync = s
           /\ y.wire[e].parser = "pe3"
<1> DEFINE q == x.wire[e]
           p == [q EXCEPT !.sync = s, !.parser = "pe3"]
<1>1. q \in SideType BY DEF Shape
<1>2. p = [q EXCEPT !.sync = s, !.parser = "pe3"] OBVIOUS
<1>3. y = SetEnd(x, e, p) BY DEF Shape, SetEnd, WithSync
<1> HIDE DEF p
<1>4. p \in SideType
  <2> HIDE DEF q
  <2> QED BY <1>1, <1>2 DEF SideType, Parsers
<1>5. /\ SameTold(p, q) /\ p.open = q.open /\ p.swarm = q.swarm
      /\ p.method = q.method /\ p.pe = q.pe /\ p.handled = q.handled
      /\ p.buffer = q.buffer /\ p.sync = s /\ p.parser = "pe3"
  <2> HIDE DEF q
  <2> QED BY <1>1, <1>2, <1>4 DEF SideType, SameTold
<1>6. Touches(x, y, e) /\ y \in Shape /\ y.wire[e] = p /\ y.tasks = x.tasks
  <2> HIDE DEF q
  <2> QED BY <1>3, <1>4, SetTouches
<1> QED BY <1>5, <1>6, Zenon

LEMMA SetPe ==
    ASSUME NEW x \in Shape, NEW e \in Sides,
           NEW y, y = WithPe(x, e)
    PROVE  /\ Touches(x, y, e) /\ y \in Shape /\ y.tasks = x.tasks
           /\ SameTold(y.wire[e], x.wire[e]) /\ y.wire[e].open = x.wire[e].open
           /\ y.wire[e].swarm = x.wire[e].swarm /\ y.wire[e].sync = x.wire[e].sync
           /\ y.wire[e].parser = x.wire[e].parser /\ y.wire[e].method = x.wire[e].method
           /\ y.wire[e].handled = x.wire[e].handled
           /\ y.wire[e].buffer = x.wire[e].buffer /\ y.wire[e].pe
<1> DEFINE q == x.wire[e]
           p == [q EXCEPT !.pe = TRUE]
<1>1. q \in SideType BY DEF Shape
<1>2. p = [q EXCEPT !.pe = TRUE] OBVIOUS
<1>3. y = SetEnd(x, e, p) BY DEF Shape, SetEnd, WithPe
<1> HIDE DEF p
<1>4. p \in SideType
  <2> HIDE DEF q
  <2> QED BY <1>1, <1>2 DEF SideType
<1>5. /\ SameTold(p, q) /\ p.open = q.open /\ p.swarm = q.swarm /\ p.sync = q.sync
      /\ p.parser = q.parser /\ p.method = q.method /\ p.handled = q.handled
      /\ p.buffer = q.buffer /\ p.pe
  <2> HIDE DEF q
  <2> QED BY <1>1, <1>2, <1>4 DEF SideType, SameTold
<1>6. Touches(x, y, e) /\ y \in Shape /\ y.wire[e] = p /\ y.tasks = x.tasks
  <2> HIDE DEF q
  <2> QED BY <1>3, <1>4, SetTouches
<1> QED BY <1>5, <1>6, Zenon

LEMMA SetSwarm ==
    ASSUME NEW x \in Shape, NEW e \in Sides,
           NEW y, y = WithSwarm(x, e)
    PROVE  /\ Touches(x, y, e) /\ y \in Shape /\ y.tasks = x.tasks
           /\ SameTold(y.wire[e], x.wire[e]) /\ y.wire[e].open = x.wire[e].open
           /\ y.wire[e].sync = x.wire[e].sync /\ y.wire[e].parser = x.wire[e].parser
           /\ y.wire[e].method = x.wire[e].method /\ y.wire[e].pe = x.wire[e].pe
           /\ y.wire[e].handled = x.wire[e].handled
           /\ y.wire[e].buffer = x.wire[e].buffer /\ y.wire[e].swarm
<1> DEFINE q == x.wire[e]
           p == [q EXCEPT !.swarm = TRUE]
<1>1. q \in SideType BY DEF Shape
<1>2. p = [q EXCEPT !.swarm = TRUE] OBVIOUS
<1>3. y = SetEnd(x, e, p) BY DEF Shape, SetEnd, WithSwarm
<1> HIDE DEF p
<1>4. p \in SideType
  <2> HIDE DEF q
  <2> QED BY <1>1, <1>2 DEF SideType
<1>5. /\ SameTold(p, q) /\ p.open = q.open /\ p.sync = q.sync /\ p.parser = q.parser
      /\ p.method = q.method /\ p.pe = q.pe /\ p.handled = q.handled
      /\ p.buffer = q.buffer /\ p.swarm
  <2> HIDE DEF q
  <2> QED BY <1>1, <1>2, <1>4 DEF SideType, SameTold
<1>6. Touches(x, y, e) /\ y \in Shape /\ y.wire[e] = p /\ y.tasks = x.tasks
  <2> HIDE DEF q
  <2> QED BY <1>3, <1>4, SetTouches
<1> QED BY <1>5, <1>6, Zenon

LEMMA SetEndDone ==
    ASSUME NEW x \in Shape, NEW e \in Sides,
           NEW y, y = WithEnd(x, e)
    PROVE  /\ Touches(x, y, e) /\ y \in Shape /\ y.tasks = x.tasks
           /\ SameTold(y.wire[e], x.wire[e]) /\ y.wire[e].open = x.wire[e].open
           /\ y.wire[e].swarm = x.wire[e].swarm /\ y.wire[e].sync = x.wire[e].sync
           /\ y.wire[e].parser = x.wire[e].parser /\ y.wire[e].method = x.wire[e].method
           /\ y.wire[e].pe = x.wire[e].pe /\ y.wire[e].handled = x.wire[e].handled
           /\ y.wire[e].buffer = x.wire[e].buffer /\ y.wire[e].done
<1> DEFINE q == x.wire[e]
           p == [q EXCEPT !.done = TRUE]
<1>1. q \in SideType BY DEF Shape
<1>2. p = [q EXCEPT !.done = TRUE] OBVIOUS
<1>3. y = SetEnd(x, e, p) BY DEF Shape, SetEnd, WithEnd
<1> HIDE DEF p
<1>4. p \in SideType
  <2> HIDE DEF q
  <2> QED BY <1>1, <1>2 DEF SideType
<1>5. /\ SameTold(p, q) /\ p.open = q.open /\ p.swarm = q.swarm /\ p.sync = q.sync
      /\ p.parser = q.parser /\ p.method = q.method /\ p.pe = q.pe
      /\ p.handled = q.handled /\ p.buffer = q.buffer /\ p.done
  <2> HIDE DEF q
  <2> QED BY <1>1, <1>2, <1>4 DEF SideType, SameTold
<1>6. Touches(x, y, e) /\ y \in Shape /\ y.wire[e] = p /\ y.tasks = x.tasks
  <2> HIDE DEF q
  <2> QED BY <1>3, <1>4, SetTouches
<1> QED BY <1>5, <1>6, Zenon

LEMMA SetGens ==
    ASSUME NEW x \in Shape, NEW e \in Sides, NEW s \in Ciphers, NEW f \in Parsers,
           NEW g \in Ciphers,
           NEW y, y = WithGens(x, e, s, f, g)
    PROVE  /\ Touches(x, y, e) /\ y \in Shape /\ y.tasks = x.tasks
           /\ SameTold(y.wire[e], x.wire[e]) /\ y.wire[e].open = x.wire[e].open
           /\ y.wire[e].swarm = x.wire[e].swarm /\ y.wire[e].method = x.wire[e].method
           /\ y.wire[e].pe = x.wire[e].pe /\ y.wire[e].handled = x.wire[e].handled
           /\ y.wire[e].buffer = x.wire[e].buffer /\ y.wire[e].gens = s
           /\ y.wire[e].waiters = 0 /\ y.wire[e].parser = f /\ y.wire[e].sync = g
<1> DEFINE q == x.wire[e]
           p == [q EXCEPT !.gens = s, !.waiters = 0, !.parser = f, !.sync = g]
<1>1. q \in SideType BY DEF Shape
<1>2. p = [q EXCEPT !.gens = s, !.waiters = 0, !.parser = f, !.sync = g] OBVIOUS
<1>3. y = SetEnd(x, e, p) BY DEF Shape, SetEnd, WithGens
<1> HIDE DEF p
<1>4. p \in SideType
  <2> HIDE DEF q
  <2> QED BY <1>1, <1>2 DEF SideType
<1>5. /\ SameTold(p, q) /\ p.open = q.open /\ p.swarm = q.swarm
      /\ p.method = q.method /\ p.pe = q.pe /\ p.handled = q.handled
      /\ p.buffer = q.buffer /\ p.gens = s /\ p.waiters = 0 /\ p.parser = f
      /\ p.sync = g
  <2> HIDE DEF q
  <2> QED BY <1>1, <1>2, <1>4 DEF SideType, SameTold
<1>6. Touches(x, y, e) /\ y \in Shape /\ y.wire[e] = p /\ y.tasks = x.tasks
  <2> HIDE DEF q
  <2> QED BY <1>3, <1>4, SetTouches
<1> QED BY <1>5, <1>6, Zenon

(* Pushing after such a step.                                              *)
LEMMA ThenPush ==
    ASSUME NEW x, NEW e \in Sides, Sends(x), Enc, NEW toks \in Seq(Token), toks # << >>
    PROVE  Sends(Push(x, e, toks))
<1>1. x \in Shape /\ HandshakeRight(x) /\ x.wire["out"].pe BY DEF Sends, HandshakeRight
<1>2. Pushed(x, Push(x, e, toks), e, toks[1]) BY <1>1, PushDoes
<1>3. toks[1] \in Token
  <2>1. Len(toks) \in Nat \ {0} BY EmptySeq, LenProperties
  <2> QED BY <2>1, ElementOfSeq
<1>4. HandshakeRight(Push(x, e, toks)) BY <1>1, <1>2, <1>3, EncryptedPush
<1> QED BY <1>1, <1>2, <1>4 DEF Sends, Pushed

LEMMA Closing ==
    ASSUME NEW x, NEW e \in Sides, HandshakeRight(x)
    PROVE  HandshakeRight(DestroyPeer(x, e))
<1> DEFINE p == [x.wire[e] EXCEPT !.open = FALSE]
           none == [f \in Sides |-> << >>]
           y == DestroyPeer(x, e)
<1>1. x \in Shape /\ x.wire[e] \in SideType BY DEF HandshakeRight, Shape
<1>2. p \in SideType /\ p = [x.wire[e] EXCEPT !.open = FALSE, !.buffer = x.wire[e].buffer]
  BY <1>1 DEF SideType
<1>3. none \in [Sides -> Seq(Token)] BY EmptySeq
<1>4. y = [x EXCEPT !.wire[e].open = FALSE, !.stream = none]
  /\ p = [x.wire[e] EXCEPT !.open = FALSE]
  BY DEF DestroyPeer
<1>5. none["out"] = << >> /\ none["in"] = << >> BY DEF Sides
<1> HIDE DEF p, none, y
<1>6. y = [x EXCEPT !.wire[e] = p, !.stream = none] BY <1>1, <1>4 DEF Shape
<1>7. /\ y \in Shape /\ y.wire = [x.wire EXCEPT ![e] = p] /\ y.stream = none
      /\ y.tasks = x.tasks /\ y.misread = x.misread
  BY <1>1, <1>2, <1>3, <1>6 DEF Shape
<1>8. Closed(x, y, e, x.wire[e].buffer)
  <2>1. y.wire[e] = p /\ y.wire[Other(e)] = x.wire[Other(e)] BY <1>1, <1>7, TwoSides DEF Shape
  <2>2. \A g \in Sides : y.stream[g] = << >> BY <1>5, <1>7 DEF Sides
  <2> QED BY <1>2, <1>7, <2>1, <2>2 DEF Closed
<1>9. HandshakeRight(y) BY <1>7, <1>8, ClosedRight
<1> QED BY <1>9 DEF y

-----------------------------------------------------------------------------
(* The parsers.                                                            *)
LEMMA ParsePe2Right ==
    ASSUME HandshakeInv, NEW e \in Sides, Loops(e), ParsePe2(e), UNCHANGED <<setup, retries>>
    PROVE  HandshakeInv'
<1> DEFINE q == wire["out"]
           secret == Secret(FirstToken("out"))
           z1 == Taken("out")
           z2 == [z1 EXCEPT !.wire["out"].secret = secret]
           z3 == WaitFor(z2, "out")
           e3 == [k |-> "encrypt3", s |-> "good"]
           y == IF q.secret = "none" THEN Await(z3, "out", "encrypt3", "good") ELSE z3
<1>1. Enc /\ e = "out" /\ q.parser = "pe2" /\ q.buffer # << >> /\ Becomes(y)
  <2>1. wire[e].parser = "pe2" BY DEF ParsePe2
  <2>2. ~(Enc /\ e = "in") BY <2>1, NowRight DEF EncryptedRight, InEncrypted
  <2>3. Enc BY <2>1, NowRight DEF PlainRight, OutPlain, InPlain, Sides
  <2>4. e = "out" BY <2>2, <2>3 DEF Sides
  <2> QED BY <2>1, <2>3, <2>4 DEF ParsePe2, Loops
<1>2. Sends(Now) /\ q.pe /\ OutEncrypted(q, tasks["out"])
  BY <1>1, HasBegun, NowRight DEF Sends, EncryptedRight, Sides
<1>3. secret \in Ciphers BY DEF Secret, Ciphers
<1>4. e3 \in Task BY DEF Task, Ciphers
<1>w. z2 = WithSecret(z1, "out", secret) BY DEF WithSecret
<1> HIDE DEF secret
<1>5. Touches(Now, z1, "out") /\ z1 \in Shape /\ z1.tasks = tasks /\ Keeps(z1.wire["out"], q)
  BY <1>1, TakenTouches DEF Sides
<1> HIDE DEF z1, z2
<1>6. Touches(z1, z2, "out") /\ z2 \in Shape /\ z2.tasks = tasks
      /\ Keeps(z2.wire["out"], z1.wire["out"])
  BY <1>3, <1>5, <1>w, SetSecret DEF Sides
<1>7. Touches(z2, z3, "out") /\ z3 \in Shape /\ z3.tasks = tasks
      /\ Keeps(z3.wire["out"], z2.wire["out"])
  BY <1>6, WaitTouches DEF Sides
<1>8. Touches(Now, z3, "out") /\ Keeps(z3.wire["out"], q)
  BY <1>5, <1>6, <1>7, TouchesTwice DEF Keeps, SameTold, Sides
<1> HIDE DEF z3
<1>9. /\ Touches(Now, y, "out") /\ y.wire = z3.wire
      /\ y.tasks["out"] = tasks["out"] \/ y.tasks["out"] = tasks["out"] \cup {e3}
  <2>1. CASE q.secret = "none"
    <3>1. Touches(z3, y, "out") /\ y.wire = z3.wire /\ y.tasks["out"] = z3.tasks["out"] \cup {e3}
      BY <1>4, <1>7, <2>1, AwaitTouches DEF Sides
    <3>2. Touches(Now, y, "out") BY <1>8, <3>1, TouchesTwice DEF Sides
    <3> HIDE DEF y, e3
    <3> QED BY <1>7, <3>1, <3>2
  <2>2. CASE q.secret # "none"
    <3>1. y = z3 BY <2>2
    <3> HIDE DEF y, e3
    <3> QED BY <1>7, <1>8, <3>1
  <2> QED BY <2>1, <2>2
<1> HIDE DEF y
<1>10. OutEncrypted(y.wire["out"], y.tasks["out"])
  BY <1>1, <1>2, <1>8, <1>9 DEF OutEncrypted, Keeps, SameTold
<1>11. Sends(y) BY <1>1, <1>2, <1>8, <1>9, <1>10, OutStep DEF Keeps
<1> QED BY <1>1, <1>11, BecomesRight DEF Sends

(* The keys and paddings that are pushed.                                  *)
LEMMA KeyTokens ==
    ASSUME NEW key \in Keys, NEW pad \in Pads
    PROVE  /\ <<Tok(key, "plain")>> \o pad \in Seq(Token) /\ <<Tok(key, "plain")>> \o pad # << >>
           /\ (<<Tok(key, "plain")>> \o pad)[1] = Tok(key, "plain") /\ Tok(key, "plain") \in Token
<1> DEFINE first == Tok(key, "plain")
           one == <<first>>
<1>1. first \in Token /\ Tok("pad", "plain") \in Token /\ Tok("long", "plain") \in Token
  BY HandshakeAssumption DEF Tok, Token, TokenKinds, Ciphers
<1> HIDE DEF first
<1>2. one \in Seq(Token) /\ one # << >> /\ one[1] = first BY <1>1
<1>3. pad \in Seq(Token)
  <2>1. pad = << >> \/ pad = <<Tok("pad", "plain")>> \/ pad = <<Tok("long", "plain")>> BY DEF Pads
  <2>2. << >> \in Seq(Token) BY EmptySeq
  <2>3. <<Tok("pad", "plain")>> \in Seq(Token) /\ <<Tok("long", "plain")>> \in Seq(Token) BY <1>1
  <2> QED BY <2>1, <2>2, <2>3
<1> HIDE DEF one
<1>4. one \o pad \in Seq(Token) /\ one \o pad # << >> /\ (one \o pad)[1] = one[1]
  BY <1>2, <1>3, Joining
<1> QED BY <1>1, <1>2, <1>4 DEF one, first

(* What comes from a state that is right leaves the invariant.             *)
LEMMA RefuseRight ==
    ASSUME HandshakeInv, NEW e \in Sides, wire[e].buffer # << >>, Enc
    PROVE  HandshakeRight(Refuse(Taken(e), e))
<1> DEFINE q == wire[e]
           b == Tail(q.buffer)
           p == [q EXCEPT !.open = FALSE, !.buffer = b]
           none == [f \in Sides |-> << >>]
           x == Taken(e)
           y == Refuse(Taken(e), e)
<1>1. Now \in Shape /\ Now.wire = wire /\ Now.tasks = tasks /\ q \in SideType BY NowRight
<1>2. b \in Seq(Token) BY <1>1, FirstTaken
<1>3. p = [q EXCEPT !.open = FALSE, !.buffer = b] OBVIOUS
<1>4. none \in [Sides -> Seq(Token)] /\ none["out"] = << >> /\ none["in"] = << >>
  BY EmptySeq DEF Sides
<1>5. y = [[x EXCEPT !.wire[e].open = FALSE, !.stream = none] EXCEPT !.misread = TRUE]
      /\ x = [Now EXCEPT !.wire[e].buffer = b]
  BY <1>1 DEF Refuse, DestroyPeer, Taken
<1> HIDE DEF p, none, y, b, x
<1>a. /\ x \in Shape /\ x.tasks = tasks /\ x.wire = [wire EXCEPT ![e] = [q EXCEPT !.buffer = b]]
  BY <1>1, <1>2, <1>5 DEF Shape, SideType
<1>b. x.wire[e] = [q EXCEPT !.buffer = b] BY <1>1, <1>a DEF Shape
<1>c. p = [x.wire[e] EXCEPT !.open = FALSE]
  <2> HIDE DEF q
  <2> QED BY <1>1, <1>3, <1>b DEF SideType
<1>6. p \in SideType
  <2> HIDE DEF q
  <2> QED BY <1>1, <1>2, <1>3 DEF SideType
<1>7. y = [x EXCEPT !.wire[e] = p, !.stream = none, !.misread = TRUE]
  BY <1>5, <1>a, <1>c DEF Shape
<1>8. /\ y \in Shape /\ y.wire = [x.wire EXCEPT ![e] = p] /\ y.stream = none
      /\ y.tasks = Now.tasks
  BY <1>1, <1>4, <1>6, <1>7, <1>a DEF Shape
<1>9. y.wire[e] = p /\ y.wire[Other(e)] = Now.wire[Other(e)] /\ \A g \in Sides : y.stream[g] = << >>
  BY <1>1, <1>4, <1>8, <1>a, TwoSides DEF Shape, Sides
<1>10. Closed(Now, y, e, b) BY <1>1, <1>3, <1>8, <1>9 DEF Closed
<1>11. Sends(Now) BY HasBegun
<1>12. HandshakeRight(y) BY <1>10, <1>11, ClosedRight DEF Sends
<1> QED BY <1>12 DEF y

LEMMA HelloTaken ==
    ASSUME HandshakeInv, NEW e \in Sides, Loops(e), wire[e].parser \in {"type", "handshake"},
           Enc => wire[e].method
    PROVE  HandshakeRight(OnHandshake(Taken(e), e))
<1>1. Now.wire = wire /\ Sends(Now) BY NowRight, HasBegun DEF Loops
<1>2. Taken(e) = [Now EXCEPT !.wire[e].buffer = Tail(@)] BY DEF Taken
<1>3. Now.wire[e].open /\ Now.wire[e].buffer # << >> /\ (Enc => Now.wire[e].method)
      /\ Now.wire[e].parser \in {"type", "handshake"}
  BY <1>1 DEF Loops
<1> DEFINE x == Now
           y == Taken(e)
<1>4. y = [x EXCEPT !.wire[e].buffer = Tail(@)] BY <1>2
<1> HIDE DEF x, y
<1>5. HandshakeRight(OnHandshake(y, e)) BY <1>1, <1>3, <1>4, OnHandshakeRight DEF x
<1> QED BY <1>5 DEF y

(* In a plain attempt a handshake comes first.                             *)
LEMMA PlainFirst ==
    ASSUME HandshakeInv, ~Enc, NEW e \in Sides, Loops(e), wire[e].parser # "messages"
    PROVE  FirstToken(e) = Tok("hs", "plain") /\ wire[e].parser \in {"type", "handshake"}
<1>1. PlainRight(Now) /\ Now.wire = wire BY NowRight
<1>2. HelloFirst(Now, e) BY <1>1 DEF PlainRight
<1>3. FirstToken(e) = Tok("hs", "plain")
  BY <1>1, <1>2 DEF HelloFirst, Unread, NextToken, Loops, FirstToken
<1>4. wire[e].parser \in {"type", "handshake"}
  BY <1>1 DEF PlainRight, OutPlain, InPlain, Sides
<1> QED BY <1>3, <1>4

(* In an encrypted one a key, of what the incoming end takes.              *)
LEMMA KeyComesFirst ==
    ASSUME HandshakeInv, Enc, Loops("in"), Untouched(wire["in"])
    PROVE  FirstToken("in").t \in {"key", "key19"}
<1>1. KeyFirst(Now) /\ Now.wire = wire BY NowRight DEF EncryptedRight
<1> QED BY <1>1 DEF KeyFirst, Unread, NextToken, Loops, FirstToken

LEMMA ParseHandshakeRight ==
    ASSUME HandshakeInv, NEW e \in Sides, Loops(e), ParseHandshake(e),
           UNCHANGED <<setup, retries>>
    PROVE  HandshakeInv'
<1>1. wire[e].parser = "handshake" BY DEF ParseHandshake
<1>2. CASE FirstToken(e) = Tok("hs", "plain")
  <2>1. Becomes(OnHandshake(Taken(e), e)) BY <1>2 DEF ParseHandshake
  <2>2. ASSUME Enc PROVE wire[e].method
    <3>1. CASE e = "out" BY <1>1, <2>2, <3>1, NowRight DEF EncryptedRight, OutEncrypted
    <3>2. CASE e = "in"
      <4>1. SUFFICES ASSUME ~wire["in"].method PROVE FALSE BY <3>2
      <4>2. Untouched(wire["in"]) BY <1>1, <3>2, <4>1 DEF Untouched
      <4>3. FirstToken("in").t \in {"key", "key19"} BY <2>2, <3>2, <4>2, KeyComesFirst
      <4> QED BY <1>2, <3>2, <4>3 DEF Tok
    <3> QED BY <3>1, <3>2 DEF Sides
  <2>3. HandshakeRight(OnHandshake(Taken(e), e)) BY <1>1, <2>2, HelloTaken
  <2> QED BY <2>1, <2>3, BecomesRight
<1>3. CASE FirstToken(e) # Tok("hs", "plain")
  <2>1. Becomes(Refuse(Taken(e), e)) BY <1>3 DEF ParseHandshake
  <2>2. Enc BY <1>1, <1>3, PlainFirst
  <2>3. HandshakeRight(Refuse(Taken(e), e)) BY <2>2, RefuseRight DEF Loops
  <2> QED BY <2>1, <2>3, BecomesRight
<1> QED BY <1>2, <1>3

LEMMA ExtTaken ==
    ASSUME HandshakeInv, NEW e \in Sides, Loops(e), OnExtended(e), UNCHANGED <<setup, retries>>
    PROVE  HandshakeInv'
<1> DEFINE z == Taken(e)
           y == WithExt(z, e)
           q == wire[e]
<1>1. Becomes(y) /\ q.parser = "messages" /\ q.buffer # << >>
  BY DEF OnExtended, WithExt, Loops
<1>2. Touches(Now, z, e) /\ z \in Shape /\ z.tasks = tasks /\ Keeps(z.wire[e], q)
  BY <1>1, TakenTouches
<1> HIDE DEF z, q
<1>3. Touches(z, y, e) /\ y.tasks = tasks /\ Keeps(y.wire[e], z.wire[e])
  BY <1>2, SetExt DEF Keeps
<1> HIDE DEF y
<1>4. Touches(Now, y, e) /\ y.tasks = tasks /\ Keeps(y.wire[e], q)
  BY <1>2, <1>3, TouchesTwice DEF Keeps, SameTold
<1>5. Sends(Now) /\ Now.wire = wire /\ Now.tasks = tasks BY <1>1, NowRight, HasBegun DEF q
<1>6. TermsRight(y.wire[e], e)
  BY <1>4, <1>5 DEF TermsRight, Keeps, SameTold, HandshakeRight, Sends, q
<1>7. HandshakeRight(y)
  <2>1. CASE Enc
    <3>1. EncryptedRight(Now) /\ wire["out"].pe BY <1>5, <2>1, NowRight DEF Sends
    <3>2. e = "out" => OutEncrypted(y.wire[e], y.tasks[e]) /\ y.wire[e].pe
                       /\ (y.wire[e].open => wire["out"].open)
      BY <1>1, <1>4, <1>5, <3>1 DEF EncryptedRight, OutEncrypted, Keeps, SameTold, q
    <3>3. e = "in" => InEncrypted(y.wire[e], y.tasks[e]) /\ ~Untouched(y.wire[e])
      BY <1>1, <1>4, <1>5, <3>1 DEF EncryptedRight, InEncrypted, Untouched, Keeps, SameTold, q
    <3> QED BY <1>4, <1>5, <1>6, <2>1, <3>1, <3>2, <3>3, NowRight, EncryptedLocal DEF Touches
  <2>2. CASE ~Enc
    <3>1. PlainRight(Now) BY <2>2, NowRight
    <3>2. e = "out" => OutPlain(y.wire[e], y.tasks[e])
      BY <1>1, <1>4, <1>5, <3>1 DEF PlainRight, OutPlain, Keeps, SameTold, q
    <3>3. e = "in" => InPlain(y.wire[e], y.tasks[e])
      BY <1>1, <1>4, <1>5, <3>1 DEF PlainRight, InPlain, Keeps, SameTold, q
    <3>4. y.wire[e].parser = "messages" /\ y.wire[e].sent = wire[e].sent
          /\ y.wire[e].open = wire[e].open
      BY <1>1, <1>4 DEF Keeps, SameTold, q
    <3> QED BY <1>4, <1>5, <1>6, <2>2, <3>2, <3>3, <3>4, NowRight, PlainLocal DEF Touches
  <2> QED BY <2>1, <2>2
<1> QED BY <1>1, <1>7, BecomesRight

(* The parsers that only the incoming end of an encrypted attempt has.     *)
LEMMA InParsers ==
    ASSUME HandshakeInv, NEW e \in Sides, Loops(e), wire[e].parser \in {"pe1", "pe3", "pe3enc"}
    PROVE  /\ e = "in" /\ Enc /\ wire["in"].buffer # << >> /\ wire["out"].pe /\ Sends(Now)
           /\ \A task \in tasks["in"] : task.k \notin {"encrypt3", "hashes3"}
<1>1. ~(Enc /\ e = "out") BY NowRight DEF EncryptedRight, OutEncrypted
<1>2. Enc BY NowRight DEF PlainRight, OutPlain, InPlain, Sides
<1>3. e = "in" BY <1>1, <1>2 DEF Sides
<1>4. \A task \in tasks["in"] : task.k \notin {"encrypt3", "hashes3"}
  BY <1>2, NowRight DEF EncryptedRight, InEncrypted
<1>5. Sends(Now) BY HasBegun DEF Loops
<1> QED BY <1>2, <1>3, <1>4, <1>5, NowRight DEF Loops, Sends

(* Another task of the incoming end.                                       *)
LEMMA InTask ==
    ASSUME NEW ts, NEW old, NEW k \in {"hash1", "hash3", "get3", "encrypt4"}, NEW s,
           ts \subseteq old \cup {[k |-> k, s |-> s]},
           \A task \in old : task.k \notin {"encrypt3", "hashes3"}
    PROVE  /\ GetTask \in ts => GetTask \in old
           /\ \A task \in ts : task.k \notin {"encrypt3", "hashes3"}
<1> DEFINE new == [k |-> k, s |-> s]
<1>1. new.k \in {"hash1", "hash3", "get3", "encrypt4"} /\ GetTask.k = "get" BY DEF GetTask
<1>2. new # GetTask BY <1>1
<1>3. ts \subseteq old \cup {new} OBVIOUS
<1> HIDE DEF new
<1> QED BY <1>1, <1>2, <1>3

LEMMA DetermineRight ==
    ASSUME HandshakeInv, NEW e \in Sides, Loops(e), DetermineHandshakeType(e),
           UNCHANGED <<setup, retries>>
    PROVE  HandshakeInv'
<1>1. wire[e].parser = "type" /\ wire[e].buffer # << >> BY DEF DetermineHandshakeType, Loops
<1>2. CASE ~Enc
  <2>1. FirstToken(e).t = "hs" BY <1>1, <1>2, PlainFirst DEF Tok
  <2>2. Becomes(OnHandshake(Taken(e), e)) BY <2>1 DEF DetermineHandshakeType
  <2>3. HandshakeRight(OnHandshake(Taken(e), e)) BY <1>1, <1>2, HelloTaken
  <2> QED BY <2>2, <2>3, BecomesRight
<1>3. CASE Enc
  <2>1. e = "in"
    <3>1. e # "out" BY <1>1, <1>3, NowRight DEF EncryptedRight, OutEncrypted
    <3> QED BY <3>1 DEF Sides
  <2>2. FirstToken("in").t \in {"key", "key19"} BY <1>1, <1>3, <2>1, KeyComesFirst DEF Untouched
  <2>3. InEncrypted(wire["in"], tasks["in"]) /\ Sends(Now) /\ wire["out"].pe
    BY <1>1, <1>3, NowRight, HasBegun DEF EncryptedRight, Sends
  <2>4. CASE FirstToken("in").t = "key19"
    <3>1. Becomes(Refuse(Taken("in"), "in")) BY <2>1, <2>4 DEF DetermineHandshakeType
    <3>2. HandshakeRight(Refuse(Taken("in"), "in")) BY <1>1, <1>3, <2>1, RefuseRight
    <3> QED BY <3>1, <3>2, BecomesRight
  <2>5. CASE FirstToken("in").t = "key"
    <3> DEFINE z1 == Taken("in")
               z2 == WithKey(z1, "in", "pe1", "good")
               z3 == Await(z2, "in", "hash1", "good")
    <3>1. PICK pad \in Pads, key \in Keys : Becomes(Push(z3, "in", <<Tok(key, "plain")>> \o pad))
      BY <2>1, <2>5 DEF DetermineHandshakeType, WithKey
    <3>2. Touches(Now, z1, "in") /\ z1 \in Shape /\ z1.tasks = tasks
          /\ Keeps(z1.wire["in"], wire["in"])
      BY <1>1, <2>1, TakenTouches
    <3> HIDE DEF z1
    <3>3. "pe1" \in Parsers /\ "good" \in Ciphers BY DEF Parsers, Ciphers
    <3>4. Touches(z1, z2, "in") /\ z2 \in Shape /\ z2.tasks = tasks
          /\ SameTold(z2.wire["in"], wire["in"]) /\ z2.wire["in"].parser = "pe1"
          /\ z2.wire["in"].method = wire["in"].method
          /\ z2.wire["in"].handled = wire["in"].handled
      BY <2>1, <3>2, <3>3, SetKey DEF Keeps, SameTold
    <3> HIDE DEF z2
    <3>5. [k |-> "hash1", s |-> "good"] \in Task BY DEF Task, Ciphers
    <3>6. Touches(z2, z3, "in") /\ z3.wire = z2.wire
          /\ z3.tasks["in"] = tasks["in"] \cup {[k |-> "hash1", s |-> "good"]}
      BY <2>1, <3>4, <3>5, AwaitTouches
    <3> HIDE DEF z3
    <3>7. Touches(Now, z3, "in") BY <2>1, <3>2, <3>4, <3>6, TouchesTwice
    <3>8. /\ GetTask \in z3.tasks["in"] => GetTask \in tasks["in"]
          /\ \A task \in z3.tasks["in"] : task.k \notin {"encrypt3", "hashes3"}
      BY <2>3, <3>6, InTask DEF InEncrypted
    <3>9. Sends(z3) BY <1>3, <2>3, <3>4, <3>6, <3>7, <3>8, InStep
    <3>10. HandshakeRight(Push(z3, "in", <<Tok(key, "plain")>> \o pad))
      BY <1>3, <2>1, <3>9, KeyTokens, ThenPush DEF Sends
    <3> QED BY <3>1, <3>10, BecomesRight
  <2> QED BY <2>2, <2>4, <2>5
<1> QED BY <1>2, <1>3

LEMMA ParsePe1Right ==
    ASSUME HandshakeInv, NEW e \in Sides, Loops(e), ParsePe1(e), UNCHANGED <<setup, retries>>
    PROVE  HandshakeInv'
<1> DEFINE z1 == Taken("in")
           z2 == WithSecret(z1, "in", "junk")
           y == Await(z2, "in", "hash1", "junk")
<1>1. /\ e = "in" /\ Enc /\ wire["in"].buffer # << >> /\ wire["out"].pe
      /\ \A task \in tasks["in"] : task.k \notin {"encrypt3", "hashes3"}
      /\ wire["in"].parser = "pe1"
  BY InParsers DEF ParsePe1
<1>2. Becomes(y) BY <1>1 DEF ParsePe1, WithSecret
<1>3. Touches(Now, z1, "in") /\ z1 \in Shape /\ z1.tasks = tasks /\ Keeps(z1.wire["in"], wire["in"])
  BY <1>1, TakenTouches
<1> HIDE DEF z1
<1>4. Touches(z1, z2, "in") /\ z2 \in Shape /\ z2.tasks = tasks
      /\ Keeps(z2.wire["in"], wire["in"])
  <2>1. "junk" \in Ciphers BY DEF Ciphers
  <2> QED BY <1>1, <1>3, <2>1, SetSecret DEF Keeps, SameTold
<1> HIDE DEF z2
<1>5. [k |-> "hash1", s |-> "junk"] \in Task BY DEF Task, Ciphers
<1>6. Touches(z2, y, "in") /\ y.wire = z2.wire
      /\ y.tasks["in"] = tasks["in"] \cup {[k |-> "hash1", s |-> "junk"]}
  BY <1>1, <1>4, <1>5, AwaitTouches
<1> HIDE DEF y
<1>7. Touches(Now, y, "in") BY <1>1, <1>3, <1>4, <1>6, TouchesTwice
<1>8. /\ GetTask \in y.tasks["in"] => GetTask \in tasks["in"]
      /\ \A task \in y.tasks["in"] : task.k \notin {"encrypt3", "hashes3"}
  BY <1>1, <1>6, InTask
<1>9. Sends(y) BY <1>1, <1>4, <1>6, <1>7, <1>8, InStep DEF Keeps
<1> QED BY <1>2, <1>9, BecomesRight DEF Sends

LEMMA ParsePe3Right ==
    ASSUME HandshakeInv, NEW e \in Sides, Loops(e), ParsePe3(e), UNCHANGED <<setup, retries>>
    PROVE  HandshakeInv'
<1> DEFINE ok == FirstToken("in").t = "xor" /\ FirstToken("in").s = wire["in"].secret
           s == IF ok THEN "good" ELSE "junk"
           rest == <<Tok("rest", "junk")>> \o Tail(wire["in"].buffer)
           z1 == IF FirstToken("in").t = "xor" THEN Taken("in") ELSE WithBuffer(Now, "in", rest)
           z2 == WaitFor(z1, "in")
           y == Await(z2, "in", "hash3", s)
<1>1. /\ e = "in" /\ Enc /\ wire["in"].buffer # << >> /\ wire["out"].pe
      /\ \A task \in tasks["in"] : task.k \notin {"encrypt3", "hashes3"}
      /\ wire["in"].parser = "pe3"
  BY InParsers DEF ParsePe3
<1>2. Now \in Shape /\ Now.wire = wire /\ Now.tasks = tasks /\ wire["in"] \in SideType
  BY NowRight DEF Sides
<1>3. Becomes(y) BY <1>1, <1>2 DEF ParsePe3, WithBuffer
<1>4. rest \in Seq(Token)
  <2>1. Tok("rest", "junk") \in Token BY DEF Tok, Token, TokenKinds, Ciphers
  <2>2. <<Tok("rest", "junk")>> \in Seq(Token) BY <2>1
  <2>3. Tail(wire["in"].buffer) \in Seq(Token) BY <1>1, <1>2, FirstTaken
  <2> QED BY <2>2, <2>3, Joining
<1> HIDE DEF rest
<1>5. Touches(Now, z1, "in") /\ z1 \in Shape /\ z1.tasks = tasks /\ Keeps(z1.wire["in"], wire["in"])
  <2>1. CASE FirstToken("in").t = "xor" BY <1>1, <2>1, TakenTouches
  <2>2. CASE FirstToken("in").t # "xor"
    <3>1. z1 = WithBuffer(Now, "in", rest) BY <2>2
    <3> HIDE DEF z1
    <3> QED BY <1>1, <1>2, <1>4, <3>1, SetBuffer
  <2> QED BY <2>1, <2>2
<1> HIDE DEF z1
<1>6. Touches(z1, z2, "in") /\ z2 \in Shape /\ z2.tasks = tasks
      /\ Keeps(z2.wire["in"], wire["in"])
  BY <1>1, <1>5, WaitTouches DEF Keeps, SameTold
<1> HIDE DEF z2
<1>7. [k |-> "hash3", s |-> s] \in Task BY DEF Task, Ciphers
<1> HIDE DEF s
<1>8. Touches(z2, y, "in") /\ y.wire = z2.wire
      /\ y.tasks["in"] = tasks["in"] \cup {[k |-> "hash3", s |-> s]}
  BY <1>1, <1>6, <1>7, AwaitTouches
<1> HIDE DEF y
<1>9. Touches(Now, y, "in") BY <1>1, <1>5, <1>6, <1>8, TouchesTwice
<1>10. /\ GetTask \in y.tasks["in"] => GetTask \in tasks["in"]
       /\ \A task \in y.tasks["in"] : task.k \notin {"encrypt3", "hashes3"}
  BY <1>1, <1>8, InTask
<1>11. Sends(y) BY <1>1, <1>6, <1>8, <1>9, <1>10, InStep DEF Keeps
<1> QED BY <1>3, <1>11, BecomesRight DEF Sends

LEMMA ParsePe3EncryptedRight ==
    ASSUME HandshakeInv, NEW e \in Sides, Loops(e), ParsePe3Encrypted(e),
           UNCHANGED <<setup, retries>>
    PROVE  HandshakeInv'
<1>1. /\ e = "in" /\ Enc /\ wire["in"].buffer # << >> /\ wire["out"].pe
      /\ \A task \in tasks["in"] : task.k \notin {"encrypt3", "hashes3"}
      /\ wire["in"].parser = "pe3enc"
  BY InParsers DEF ParsePe3Encrypted
<1>2. Now \in Shape /\ Now.wire = wire /\ Now.tasks = tasks /\ HandshakeRight(Now) BY NowRight
<1> DEFINE z == Taken("in")
           half == WithMethod(z, "in")
           v == WithParser(Now, "in", "stuck")
<1>3. Becomes(half) \/ Becomes(v) \/ Becomes(DestroyPeer(Now, "in"))
  BY <1>1 DEF ParsePe3Encrypted, WithMethod, WithParser
<1>4. HandshakeRight(DestroyPeer(Now, "in")) BY <1>2, Closing DEF Sides
<1>5. HandshakeRight(half)
  <2>1. Touches(Now, z, "in") /\ z \in Shape /\ z.tasks = tasks /\ Keeps(z.wire["in"], wire["in"])
    BY <1>1, TakenTouches
  <2> HIDE DEF z
  <2>2. Touches(z, half, "in") /\ half.tasks = tasks /\ SameTold(half.wire["in"], wire["in"])
        /\ half.wire["in"].parser = "handshake" /\ half.wire["in"].method
        /\ half.wire["in"].handled = wire["in"].handled
    <3>1. "in" \in Sides BY DEF Sides
    <3>2. /\ Touches(z, half, "in") /\ half.tasks = z.tasks
      /\ SameTold(half.wire["in"], z.wire["in"])
          /\ half.wire["in"].parser = "handshake" /\ half.wire["in"].handled = z.wire["in"].handled
          /\ half.wire["in"].method
      <4>1. half = WithMethod(z, "in") OBVIOUS
      <4> HIDE DEF half
      <4> QED BY <2>1, <3>1, <4>1, SetMethod
    <3> HIDE DEF half
    <3> QED BY <2>1, <3>2 DEF Keeps, SameTold
  <2> HIDE DEF half
  <2>3. Touches(Now, half, "in") BY <1>1, <2>1, <2>2, TouchesTwice
  <2>4. Sends(half) BY <1>1, <2>2, <2>3, InStep
  <2> QED BY <2>4 DEF Sends
<1>6. HandshakeRight(v)
  <2>1. Touches(Now, v, "in") /\ v.tasks = tasks /\ SameTold(v.wire["in"], wire["in"])
        /\ v.wire["in"].parser = "stuck" /\ v.wire["in"].method = wire["in"].method
        /\ v.wire["in"].handled = wire["in"].handled
    <3>1. "stuck" \in Parsers BY DEF Parsers
    <3> QED BY <1>1, <1>2, <3>1, SetParser
  <2> HIDE DEF v
  <2>2. Sends(v) BY <1>1, <2>1, InStep
  <2> QED BY <2>2 DEF Sends
<1> HIDE DEF half, v
<1>7. CASE Becomes(half) BY <1>5, <1>7, BecomesRight
<1>8. CASE Becomes(v) BY <1>6, <1>8, BecomesRight
<1>9. CASE Becomes(DestroyPeer(Now, "in")) BY <1>4, <1>9, BecomesRight
<1> QED BY <1>3, <1>7, <1>8, <1>9

LEMMA ParsePe4Right ==
    ASSUME HandshakeInv, NEW e \in Sides, Loops(e), ParsePe4(e), UNCHANGED <<setup, retries>>
    PROVE  HandshakeInv'
<1> DEFINE z == Taken("out")
           y == WithDone(z, "out")
<1>1. wire[e].parser = "pe4" BY DEF ParsePe4
<1>2. Enc /\ e = "out" /\ wire["out"].buffer # << >>
  <2>1. Enc BY <1>1, NowRight DEF PlainRight, OutPlain, InPlain, Sides
  <2>2. e # "in" BY <1>1, <2>1, NowRight DEF EncryptedRight, InEncrypted
  <2> QED BY <2>1, <2>2 DEF Sides, Loops
<1>3. Becomes(SendHandshake(y, "out")) BY <1>2 DEF ParsePe4, WithDone
<1>4. wire["out"].pe /\ OutEncrypted(wire["out"], tasks["out"])
  BY <1>2, HasBegun, NowRight DEF Sends, EncryptedRight, Sides
<1>5. Touches(Now, z, "out") /\ z \in Shape /\ z.tasks = tasks /\ Keeps(z.wire["out"], wire["out"])
  BY <1>2, TakenTouches
<1> HIDE DEF z
<1>6. Touches(z, y, "out") /\ y.tasks = tasks /\ SameTold(y.wire["out"], wire["out"])
      /\ y.wire["out"].parser = "handshake" /\ y.wire["out"].method
      /\ y.wire["out"].handled = wire["out"].handled /\ y.wire["out"].pe
      /\ y.wire["out"].open = wire["out"].open
  <2>1. "out" \in Sides BY DEF Sides
  <2>2. /\ Touches(z, y, "out") /\ y.tasks = z.tasks /\ SameTold(y.wire["out"], z.wire["out"])
        /\ y.wire["out"].parser = "handshake" /\ y.wire["out"].handled = z.wire["out"].handled
        /\ y.wire["out"].pe = z.wire["out"].pe /\ y.wire["out"].open = z.wire["out"].open
        /\ y.wire["out"].method
    <3>1. y = WithDone(z, "out") OBVIOUS
    <3> HIDE DEF y
    <3> QED BY <1>5, <2>1, <3>1, SetDone
  <2> HIDE DEF y
  <2> QED BY <1>4, <1>5, <2>2 DEF Keeps, SameTold
<1> HIDE DEF y
<1>7. Touches(Now, y, "out") BY <1>2, <1>5, <1>6, TouchesTwice
<1>8. OutEncrypted(y.wire["out"], y.tasks["out"])
  BY <1>1, <1>2, <1>4, <1>6 DEF OutEncrypted, SameTold
<1>9. Sends(y) BY <1>2, <1>4, <1>6, <1>7, <1>8, OutStep
<1>10. HandshakeRight(SendHandshake(y, "out")) BY <1>9, SendHandshakeRight DEF Sides, Sends
<1> QED BY <1>3, <1>10, BecomesRight

LEMMA ParseStepRight ==
    ASSUME HandshakeInv, NEW e \in Sides, ParseStep(e)
    PROVE  HandshakeInv'
<1>1. Loops(e) /\ UNCHANGED <<setup, retries>> BY DEF ParseStep
<1>2. CASE ParsePe2(e) BY <1>1, <1>2, ParsePe2Right
<1>3. CASE DetermineHandshakeType(e) BY <1>1, <1>3, DetermineRight
<1>4. CASE ParsePe1(e) BY <1>1, <1>4, ParsePe1Right
<1>5. CASE ParsePe3(e) BY <1>1, <1>5, ParsePe3Right
<1>6. CASE ParsePe3Encrypted(e) BY <1>1, <1>6, ParsePe3EncryptedRight
<1>7. CASE ParsePe4(e) BY <1>1, <1>7, ParsePe4Right
<1>8. CASE ParseHandshake(e) BY <1>1, <1>8, ParseHandshakeRight
<1>9. CASE OnExtended(e) BY <1>1, <1>9, ExtTaken
<1> QED BY <1>2, <1>3, <1>4, <1>5, <1>6, <1>7, <1>8, <1>9 DEF ParseStep

-----------------------------------------------------------------------------
(* What was awaited.                                                       *)

(* Only the incoming end of an encrypted attempt awaits hashes of what it  *)
(* was sent; the outgoing end awaits those it sends.                       *)
LEMMA Awaiting ==
    ASSUME HandshakeInv, NEW e \in Sides, NEW k, NEW s, [k |-> k, s |-> s] \in tasks[e]
    PROVE  /\ [k |-> k, s |-> s] \in Task /\ Sends(Now)
           /\ k \in {"encrypt3", "hashes3"} =>
                 Enc /\ e = "out" /\ wire["out"].pe /\ OutEncrypted(wire["out"], tasks["out"])
           /\ k \in {"hash1", "hash3", "get3", "encrypt4"} => Enc
           /\ k \notin {"encrypt3", "hashes3"} => e = "in"
           /\ Enc /\ e = "in" => /\ wire["out"].pe /\ InEncrypted(wire["in"], tasks["in"])
                                 /\ ~Untouched(wire["in"])
<1> DEFINE task == [k |-> k, s |-> s]
<1>0. task.k = k /\ task \in tasks[e] OBVIOUS
<1>1. task \in Task BY NowRight
<1>2. Sends(Now) BY HasBegun
<1>3. Now.wire = wire /\ Now.tasks = tasks BY NowRight
<1>4. GetTask.k = "get" BY DEF GetTask
<1> HIDE DEF task
<1>5. CASE Enc
  <2>1. EncryptedRight(Now) /\ wire["out"].pe BY <1>2, <1>3, <1>5, NowRight DEF Sends
  <2>2. e = "out" => k \in {"encrypt3", "hashes3"}
    BY <1>0, <1>3, <2>1 DEF EncryptedRight, OutEncrypted
  <2>3. e = "in" => k \notin {"encrypt3", "hashes3"} /\ ~Untouched(wire["in"])
    BY <1>0, <1>3, <2>1 DEF EncryptedRight, InEncrypted
  <2> QED BY <1>1, <1>2, <1>3, <1>5, <2>1, <2>2, <2>3 DEF EncryptedRight, Sides, task
<1>6. CASE ~Enc
  <2>1. PlainRight(Now) BY <1>6, NowRight
  <2>2. e # "out" BY <1>0, <1>3, <2>1 DEF PlainRight, OutPlain
  <2>3. e = "in" BY <2>2 DEF Sides
  <2>4. task = GetTask BY <1>0, <1>3, <2>1, <2>3 DEF PlainRight, InPlain
  <2>5. k = "get" BY <1>0, <1>4, <2>4
  <2> QED BY <1>1, <1>2, <1>6, <2>3, <2>5 DEF task
<1> QED BY <1>5, <1>6

(* The parsers of an incoming end that awaits something.                   *)
LEMMA Past ==
    ASSUME NEW p \in SideType, NEW ts, InEncrypted(p, ts), ~Untouched(p)
    PROVE  \/ p.parser \in {"pe1", "pe3", "pe3enc", "stuck", "messages"}
           \/ p.parser = "handshake" /\ p.method
BY DEF InEncrypted, Untouched, SideType, Parsers

(* A step of the incoming end that leaves its parser alone.                *)
LEMMA InSteady ==
    ASSUME HandshakeInv, Enc, wire["out"].pe, InEncrypted(wire["in"], tasks["in"]),
           ~Untouched(wire["in"]), NEW y, Touches(Now, y, "in"),
           SameTold(y.wire["in"], wire["in"]), y.wire["in"].method = wire["in"].method,
           y.wire["in"].handled = wire["in"].handled, y.wire["in"].parser = wire["in"].parser,
           GetTask \in y.tasks["in"] => GetTask \in tasks["in"],
           \A task \in y.tasks["in"] : task.k \notin {"encrypt3", "hashes3"}
    PROVE  Sends(y)
<1>1. wire["in"] \in SideType BY NowRight DEF Sides
<1>2. \/ wire["in"].parser \in {"pe1", "pe3", "pe3enc", "stuck", "messages"}
      \/ wire["in"].parser = "handshake" /\ wire["in"].method
  BY <1>1, Past
<1> QED BY <1>2, InStep

(* The generators of an end: its parser goes on if one waits.              *)
LEMMA SetGenerators ==
    ASSUME NEW x \in Shape, NEW e \in Sides, NEW s \in Ciphers, NEW y, y = Generators(x, e, s)
    PROVE  /\ Touches(x, y, e) /\ y \in Shape /\ y.tasks = x.tasks
           /\ SameTold(y.wire[e], x.wire[e]) /\ y.wire[e].open = x.wire[e].open
           /\ y.wire[e].method = x.wire[e].method /\ y.wire[e].pe = x.wire[e].pe
           /\ y.wire[e].handled = x.wire[e].handled
           /\ \/ y.wire[e].parser = x.wire[e].parser
              \/ y.wire[e].parser = IF e = "out" THEN "pe4" ELSE "pe3enc"
<1> DEFINE q == x.wire[e]
           next == IF q.waiters = 0 THEN q.parser ELSE IF e = "out" THEN "pe4" ELSE "pe3enc"
           sync == IF e = "in" \/ q.waiters = 0 THEN q.sync
                   ELSE IF q.waiters = 1 /\ s = "good" THEN "good" ELSE "junk"
<1>1. q \in SideType BY DEF Shape
<1>2. y = WithGens(x, e, s, next, sync) BY DEF Generators, WithGens
<1>3. next \in Parsers /\ sync \in Ciphers
      /\ (next = q.parser \/ next = IF e = "out" THEN "pe4" ELSE "pe3enc")
  <2> HIDE DEF q
  <2> QED BY <1>1 DEF SideType, Parsers, Ciphers
<1> HIDE DEF next, sync
<1> QED BY <1>2, <1>3, SetGens

LEMMA SendPe3Right ==
    ASSUME HandshakeInv, NEW e \in Sides, SendPe3(e), UNCHANGED <<setup, retries>>
    PROVE  HandshakeInv'
<1> DEFINE e3 == [k |-> "encrypt3", s |-> "good"]
<1>1. CASE e3 \in tasks[e] /\ Becomes(Await(Generators(Done(e, "encrypt3", "good"), e, "good"), e,
                                            "hashes3", wire[e].secret))
  <2> DEFINE z1 == Done("out", "encrypt3", "good")
             z2 == Generators(z1, "out", "good")
             c == wire["out"].secret
             y == Await(z2, "out", "hashes3", c)
             h3 == [k |-> "hashes3", s |-> c]
  <2>1. Enc /\ e = "out" /\ wire["out"].pe /\ OutEncrypted(wire["out"], tasks["out"])
    BY <1>1, Awaiting
  <2>2. Becomes(y) /\ e3 \in tasks["out"] BY <1>1, <2>1
  <2>3. Touches(Now, z1, "out") /\ z1 \in Shape /\ z1.wire = wire
        /\ z1.tasks["out"] = tasks["out"] \ {e3}
    BY DoneTouches DEF Sides
  <2> HIDE DEF z1
  <2>4. "good" \in Ciphers /\ "out" \in Sides /\ c \in Ciphers
    BY NowRight DEF Ciphers, Sides, SideType
  <2>5. Touches(z1, z2, "out") /\ z2 \in Shape /\ z2.tasks = z1.tasks
        /\ SameTold(z2.wire["out"], wire["out"]) /\ z2.wire["out"].open = wire["out"].open
        /\ z2.wire["out"].method = wire["out"].method /\ z2.wire["out"].pe = wire["out"].pe
        /\ z2.wire["out"].handled = wire["out"].handled
        /\ (z2.wire["out"].parser = wire["out"].parser \/ z2.wire["out"].parser = "pe4")
    BY <2>3, <2>4, SetGenerators
  <2> HIDE DEF z2, c
  <2>6. h3 \in Task BY <2>4 DEF Task
  <2>7. Touches(z2, y, "out") /\ y.wire = z2.wire /\ y.tasks["out"] = z2.tasks["out"] \cup {h3}
    BY <2>4, <2>5, <2>6, AwaitTouches
  <2>8. h3.k = "hashes3" /\ e3.k = "encrypt3" OBVIOUS
  <2> HIDE DEF y, h3
  <2>9. Touches(Now, y, "out") BY <2>3, <2>4, <2>5, <2>7, TouchesTwice
  <2>10. wire["out"].parser = "pe2" BY <2>1, <2>2, <2>8 DEF OutEncrypted
  <2>11. \A task \in y.tasks["out"] : task.k = "hashes3"
    <3>1. SUFFICES ASSUME NEW task \in tasks["out"], task # e3 PROVE task.k = "hashes3"
      BY <2>3, <2>5, <2>7, <2>8
    <3>2. task.k \in {"encrypt3", "hashes3"} /\ (task.k = "encrypt3" => task.s = "good")
      BY <2>1 DEF OutEncrypted
    <3>3. task \in Task BY <2>4, NowRight
    <3>4. task.k = "encrypt3" => task = e3 BY <3>2, <3>3 DEF Task
    <3> QED BY <3>1, <3>2, <3>4
  <2>12. OutEncrypted(y.wire["out"], y.tasks["out"])
    BY <2>1, <2>5, <2>7, <2>10, <2>11 DEF OutEncrypted, SameTold
  <2>13. Sends(y) BY <2>1, <2>5, <2>7, <2>9, <2>12, OutStep
  <2> QED BY <2>2, <2>13, BecomesRight DEF Sends
<1>2. ASSUME NEW s \in {"good", "junk"}, [k |-> "hashes3", s |-> s] \in tasks[e],
       NEW part \in Parts,
             Becomes(Push(Done(e, "hashes3", s), e,
                          <<Tok("req1", s), Tok("xor", s), Tok(part, wire[e].gens)>>))
      PROVE  HandshakeInv'
  <2> DEFINE y == Done("out", "hashes3", s)
             c == wire["out"].gens
             toks == <<Tok("req1", s), Tok("xor", s), Tok(part, c)>>
             h3 == [k |-> "hashes3", s |-> s]
  <2>1. Enc /\ e = "out" /\ wire["out"].pe /\ OutEncrypted(wire["out"], tasks["out"])
    BY <1>2, Awaiting
  <2>2. Becomes(Push(y, "out", toks)) BY <1>2, <2>1
  <2>3. toks \in Seq(Token) /\ toks # << >>
    <3>1. c \in Ciphers BY NowRight DEF Sides, SideType
    <3> HIDE DEF c
    <3>2. Tok("req1", s) \in Token /\ Tok("xor", s) \in Token /\ Tok(part, c) \in Token
      BY <3>1 DEF Tok, Token, TokenKinds, Ciphers, Parts
    <3> QED BY <3>2
  <2>4. Touches(Now, y, "out") /\ y.wire = wire /\ y.tasks["out"] = tasks["out"] \ {h3}
    BY DoneTouches DEF Sides
  <2> HIDE DEF y, toks, h3
  <2>5. OutEncrypted(y.wire["out"], y.tasks["out"]) BY <2>1, <2>4 DEF OutEncrypted
  <2>6. Sends(y) BY <2>1, <2>4, <2>5, OutStep DEF SameTold
  <2>7. HandshakeRight(Push(y, "out", toks)) BY <2>1, <2>3, <2>6, ThenPush DEF Sides, Sends
  <2> QED BY <2>2, <2>7, BecomesRight
<1> QED BY <1>1, <1>2 DEF SendPe3

LEMMA SynchroniseRight ==
    ASSUME HandshakeInv, NEW e \in Sides, Synchronise(e), UNCHANGED <<setup, retries>>
    PROVE  HandshakeInv'
<1>1. PICK s \in {"good", "junk"} :
         /\ [k |-> "hash1", s |-> s] \in tasks[e]
         /\ Becomes([Done(e, "hash1", s) EXCEPT !.wire[e].sync = s, !.wire[e].parser = "pe3"])
  BY DEF Synchronise
<1> DEFINE z == Done("in", "hash1", s)
           y == WithSync(z, "in", s)
<1>2. Enc /\ e = "in" /\ wire["out"].pe /\ InEncrypted(wire["in"], tasks["in"])
  BY <1>1, Awaiting
<1>3. Becomes(y) BY <1>1, <1>2 DEF WithSync
<1>4. Touches(Now, z, "in") /\ z \in Shape /\ z.wire = wire /\ z.tasks["in"] \subseteq tasks["in"]
  BY DoneTouches DEF Sides
<1> HIDE DEF z
<1>5. s \in Ciphers /\ "in" \in Sides BY DEF Ciphers, Sides
<1>6. Touches(z, y, "in") /\ y.tasks = z.tasks /\ SameTold(y.wire["in"], wire["in"])
      /\ y.wire["in"].method = wire["in"].method /\ y.wire["in"].handled = wire["in"].handled
      /\ y.wire["in"].parser = "pe3"
  BY <1>4, <1>5, SetSync
<1> HIDE DEF y
<1>7. Touches(Now, y, "in") BY <1>4, <1>5, <1>6, TouchesTwice
<1>8. /\ GetTask \in y.tasks["in"] => GetTask \in tasks["in"]
      /\ \A task \in y.tasks["in"] : task.k \notin {"encrypt3", "hashes3"}
  BY <1>2, <1>4, <1>6 DEF InEncrypted
<1>9. Sends(y) BY <1>2, <1>6, <1>7, <1>8, InStep
<1> QED BY <1>3, <1>9, BecomesRight DEF Sends

LEMMA EmitPe3Right ==
    ASSUME HandshakeInv, NEW e \in Sides, EmitPe3(e), UNCHANGED <<setup, retries>>
    PROVE  HandshakeInv'
<1>1. PICK s \in {"good", "junk"} :
         /\ [k |-> "hash3", s |-> s] \in tasks[e]
         /\ Becomes(IF wire[e].pe THEN Done(e, "hash3", s)
                    ELSE Await([Done(e, "hash3", s) EXCEPT !.wire[e].pe = TRUE], e, "get3", s))
  BY DEF EmitPe3
<1> DEFINE z == Done("in", "hash3", s)
           half == WithPe(z, "in")
           v == Await(half, "in", "get3", s)
<1>2. Enc /\ e = "in" /\ wire["out"].pe /\ InEncrypted(wire["in"], tasks["in"])
      /\ ~Untouched(wire["in"])
  BY <1>1, Awaiting
<1>3. Becomes(z) \/ Becomes(v)
  <2>1. CASE wire["in"].pe BY <1>1, <1>2, <2>1
  <2>2. CASE ~wire["in"].pe
    <3>1. half = [Done("in", "hash3", s) EXCEPT !.wire["in"].pe = TRUE] BY DEF WithPe
    <3> HIDE DEF half
    <3> QED BY <1>1, <1>2, <2>2, <3>1
  <2> QED BY <2>1, <2>2
<1>4. Touches(Now, z, "in") /\ z \in Shape /\ z.wire = wire /\ z.tasks["in"] \subseteq tasks["in"]
  BY DoneTouches DEF Sides
<1> HIDE DEF z
<1>5. \A task \in tasks["in"] : task.k \notin {"encrypt3", "hashes3"} BY <1>2 DEF InEncrypted
<1>6. HandshakeRight(z)
  <2>1. Sends(z) BY <1>2, <1>4, <1>5, InSteady DEF SameTold
  <2> QED BY <2>1 DEF Sends
<1>7. HandshakeRight(v)
  <2>1. s \in Ciphers /\ "in" \in Sides BY DEF Ciphers, Sides
  <2>2. Touches(z, half, "in") /\ half \in Shape /\ half.tasks = z.tasks
        /\ SameTold(half.wire["in"], wire["in"]) /\ half.wire["in"].method = wire["in"].method
        /\ half.wire["in"].handled = wire["in"].handled
        /\ half.wire["in"].parser = wire["in"].parser
    BY <1>4, <2>1, SetPe
  <2> HIDE DEF half
  <2>3. [k |-> "get3", s |-> s] \in Task BY <2>1 DEF Task
  <2>4. Touches(half, v, "in") /\ v.wire = half.wire
        /\ v.tasks["in"] = half.tasks["in"] \cup {[k |-> "get3", s |-> s]}
    BY <2>1, <2>2, <2>3, AwaitTouches
  <2> HIDE DEF v
  <2>5. Touches(Now, v, "in") BY <1>4, <2>1, <2>2, <2>4, TouchesTwice
  <2>6. v.tasks["in"] \subseteq tasks["in"] \cup {[k |-> "get3", s |-> s]} BY <1>4, <2>2, <2>4
  <2>7. /\ GetTask \in v.tasks["in"] => GetTask \in tasks["in"]
        /\ \A task \in v.tasks["in"] : task.k \notin {"encrypt3", "hashes3"}
    BY <1>5, <2>6, InTask
  <2>8. Sends(v) BY <1>2, <2>2, <2>4, <2>5, <2>7, InSteady
  <2> QED BY <2>8 DEF Sends
<1> HIDE DEF v
<1>8. CASE Becomes(z) BY <1>6, <1>8, BecomesRight
<1>9. CASE Becomes(v) BY <1>7, <1>9, BecomesRight
<1> QED BY <1>3, <1>8, <1>9

LEMMA PoolOnPe3Right ==
    ASSUME HandshakeInv, NEW e \in Sides, PoolOnPe3(e), UNCHANGED <<setup, retries>>
    PROVE  HandshakeInv'
<1> DEFINE Crash(x) == [x EXCEPT !.crashed = TRUE]
<1>1. PICK s \in {"good", "junk"} :
         /\ [k |-> "get3", s |-> s] \in tasks[e]
         /\ \/ Becomes(DestroyPeer(Done(e, "get3", s), e))
            \/ Becomes(Crash(Done(e, "get3", s)))
            \/ Becomes(Await(WithSwarm(Done(e, "get3", s), e), e, "encrypt4", wire[e].secret))
  BY DEF PoolOnPe3, WithSwarm
<1> DEFINE z == Done("in", "get3", s)
           c == wire["in"].secret
           t == Crash(z)
           half == WithSwarm(z, "in")
           v == Await(half, "in", "encrypt4", c)
<1>2. Enc /\ e = "in" /\ wire["out"].pe /\ InEncrypted(wire["in"], tasks["in"])
      /\ ~Untouched(wire["in"])
  BY <1>1, Awaiting
<1>3. Becomes(DestroyPeer(z, "in")) \/ Becomes(t) \/ Becomes(v) BY <1>1, <1>2
<1>4. Touches(Now, z, "in") /\ z \in Shape /\ z.wire = wire /\ z.tasks["in"] \subseteq tasks["in"]
  BY DoneTouches DEF Sides
<1> HIDE DEF z
<1>5. \A task \in tasks["in"] : task.k \notin {"encrypt3", "hashes3"} BY <1>2 DEF InEncrypted
<1>6. HandshakeRight(DestroyPeer(z, "in"))
  <2>1. Sends(z) BY <1>2, <1>4, <1>5, InSteady DEF SameTold
  <2> QED BY <2>1, Closing DEF Sends, Sides
<1>7. HandshakeRight(t)
  <2>1. t \in Shape /\ t.wire = z.wire /\ t.tasks = z.tasks /\ t.stream = z.stream
        /\ t.misread = z.misread
    BY <1>4 DEF Shape
  <2> HIDE DEF t
  <2>2. Touches(Now, t, "in") BY <1>4, <2>1 DEF Touches, Local
  <2>3. Sends(t) BY <1>2, <1>4, <1>5, <2>1, <2>2, InSteady DEF SameTold
  <2> QED BY <2>3 DEF Sends
<1>8. HandshakeRight(v)
  <2>1. c \in Ciphers /\ "in" \in Sides BY NowRight DEF SideType, Sides
  <2> HIDE DEF c
  <2>2. Touches(z, half, "in") /\ half \in Shape /\ half.tasks = z.tasks
        /\ SameTold(half.wire["in"], wire["in"]) /\ half.wire["in"].method = wire["in"].method
        /\ half.wire["in"].handled = wire["in"].handled
        /\ half.wire["in"].parser = wire["in"].parser
    BY <1>4, <2>1, SetSwarm
  <2> HIDE DEF half
  <2>3. [k |-> "encrypt4", s |-> c] \in Task BY <2>1 DEF Task
  <2>4. Touches(half, v, "in") /\ v.wire = half.wire
        /\ v.tasks["in"] = half.tasks["in"] \cup {[k |-> "encrypt4", s |-> c]}
    BY <2>1, <2>2, <2>3, AwaitTouches
  <2> HIDE DEF v
  <2>5. Touches(Now, v, "in") BY <1>4, <2>1, <2>2, <2>4, TouchesTwice
  <2>6. v.tasks["in"] \subseteq tasks["in"] \cup {[k |-> "encrypt4", s |-> c]}
    BY <1>4, <2>2, <2>4
  <2>7. /\ GetTask \in v.tasks["in"] => GetTask \in tasks["in"]
        /\ \A task \in v.tasks["in"] : task.k \notin {"encrypt3", "hashes3"}
    BY <1>5, <2>6, InTask
  <2>8. Sends(v) BY <1>2, <2>2, <2>4, <2>5, <2>7, InSteady
  <2> QED BY <2>8 DEF Sends
<1> HIDE DEF t, v
<1>9. CASE Becomes(DestroyPeer(z, "in")) BY <1>6, <1>9, BecomesRight
<1>10. CASE Becomes(t) BY <1>7, <1>10, BecomesRight
<1>11. CASE Becomes(v) BY <1>8, <1>11, BecomesRight
<1> QED BY <1>3, <1>9, <1>10, <1>11

LEMMA SendPe4Right ==
    ASSUME HandshakeInv, NEW e \in Sides, SendPe4(e), UNCHANGED <<setup, retries>>
    PROVE  HandshakeInv'
<1>1. PICK s \in {"good", "junk"} :
         /\ [k |-> "encrypt4", s |-> s] \in tasks[e]
         /\ Becomes([Push(Generators(Done(e, "encrypt4", s), e, s), e,
                          <<Tok("vc", s), Tok("select", s)>>) EXCEPT !.wire[e].done = TRUE])
  BY DEF SendPe4
<1> DEFINE z == Done("in", "encrypt4", s)
           half == Generators(z, "in", s)
           toks == <<Tok("vc", s), Tok("select", s)>>
           v == Push(half, "in", toks)
           y == WithEnd(v, "in")
<1>2. Enc /\ e = "in" /\ wire["out"].pe /\ InEncrypted(wire["in"], tasks["in"])
      /\ ~Untouched(wire["in"])
  BY <1>1, Awaiting
<1>3. Becomes(y) BY <1>1, <1>2 DEF WithEnd
<1>4. Touches(Now, z, "in") /\ z \in Shape /\ z.wire = wire /\ z.tasks["in"] \subseteq tasks["in"]
  BY DoneTouches DEF Sides
<1> HIDE DEF z
<1>5. s \in Ciphers /\ "in" \in Sides BY DEF Ciphers, Sides
<1>6. toks \in Seq(Token) /\ toks # << >>
  <2>1. Tok("vc", s) \in Token /\ Tok("select", s) \in Token
    BY DEF Tok, Token, TokenKinds, Ciphers
  <2> QED BY <2>1
<1> HIDE DEF toks
<1>7. Touches(z, half, "in") /\ half \in Shape /\ half.tasks = z.tasks
      /\ SameTold(half.wire["in"], wire["in"]) /\ half.wire["in"].method = wire["in"].method
      /\ half.wire["in"].handled = wire["in"].handled
      /\ (half.wire["in"].parser = wire["in"].parser \/ half.wire["in"].parser = "pe3enc")
  BY <1>4, <1>5, SetGenerators
<1> HIDE DEF half
<1>8. Touches(Now, half, "in") BY <1>4, <1>5, <1>7, TouchesTwice
<1>9. /\ GetTask \in half.tasks["in"] => GetTask \in tasks["in"]
      /\ \A task \in half.tasks["in"] : task.k \notin {"encrypt3", "hashes3"}
  BY <1>2, <1>4, <1>7 DEF InEncrypted
<1>10. Sends(half)
  <2>1. CASE half.wire["in"].parser = wire["in"].parser BY <1>2, <1>7, <1>8, <1>9, <2>1, InSteady
  <2>2. CASE half.wire["in"].parser = "pe3enc" BY <1>2, <1>7, <1>8, <1>9, <2>2, InStep
  <2> QED BY <1>7, <2>1, <2>2
<1>11. Sends(v) BY <1>2, <1>5, <1>6, <1>10, ThenPush
<1> HIDE DEF v
<1>12. v \in Shape /\ HandshakeRight(v) /\ v.wire["out"].pe BY <1>2, <1>11 DEF Sends, HandshakeRight
<1>13. /\ Touches(v, y, "in") /\ y.tasks = v.tasks /\ Keeps(y.wire["in"], v.wire["in"])
       /\ y.wire["in"].buffer = v.wire["in"].buffer
  BY <1>5, <1>12, SetEndDone DEF Keeps
<1> HIDE DEF y
<1>14. EncryptedRight(v) /\ TermsRight(v.wire["in"], "in") BY <1>2, <1>5, <1>12 DEF HandshakeRight
<1>15. /\ TermsRight(y.wire["in"], "in") /\ InEncrypted(y.wire["in"], y.tasks["in"])
       /\ Untouched(y.wire["in"]) /\ y.wire["in"].open =>
             /\ Untouched(v.wire["in"]) /\ v.wire["in"].open
             /\ y.wire["in"].buffer = v.wire["in"].buffer
  BY <1>13, <1>14 DEF TermsRight, EncryptedRight, InEncrypted, Untouched, Keeps, SameTold
<1>16. HandshakeRight(y) BY <1>2, <1>5, <1>12, <1>13, <1>15, EncryptedLocal DEF Touches
<1> QED BY <1>3, <1>16, BecomesRight

LEMMA PoolOnHandshakeRight ==
    ASSUME HandshakeInv, NEW e \in Sides, PoolOnHandshake(e), UNCHANGED <<setup, retries>>
    PROVE  HandshakeInv'
<1> DEFINE z == Done("in", "get", "none")
           y == WithSwarm(z, "in")
<1>0. GetTask = [k |-> "get", s |-> "none"] BY DEF GetTask
<1>1. /\ e = "in" /\ Sends(Now) /\ GetTask \in tasks["in"]
      /\ Enc => wire["out"].pe /\ InEncrypted(wire["in"], tasks["in"]) /\ ~Untouched(wire["in"])
  BY <1>0, Awaiting DEF PoolOnHandshake
<1>2. Becomes(PeerOnHandshake(y, "in")) BY <1>1 DEF PoolOnHandshake, WithSwarm
<1>3. Touches(Now, z, "in") /\ z \in Shape /\ z.wire = wire
      /\ z.tasks["in"] = tasks["in"] \ {GetTask}
  BY <1>0, DoneTouches DEF Sides
<1> HIDE DEF z
<1>4. Touches(z, y, "in") /\ y.tasks = z.tasks /\ SameTold(y.wire["in"], wire["in"])
      /\ y.wire["in"].open = wire["in"].open /\ y.wire["in"].sync = wire["in"].sync
      /\ y.wire["in"].parser = wire["in"].parser /\ y.wire["in"].method = wire["in"].method
      /\ y.wire["in"].handled = wire["in"].handled /\ y.wire["in"].buffer = wire["in"].buffer
  BY <1>3, SetSwarm DEF Sides
<1> HIDE DEF y
<1>5. Touches(Now, y, "in") BY <1>3, <1>4, TouchesTwice DEF Sides
<1>6. Sends(y) /\ MayJoin(y, "in")
  <2>1. CASE Enc
    <3>1. \A task \in y.tasks["in"] : task.k \notin {"encrypt3", "hashes3"}
      BY <1>1, <1>3, <1>4, <2>1 DEF InEncrypted
    <3>2. Sends(y) BY <1>1, <1>3, <1>4, <1>5, <2>1, <3>1, InSteady
    <3>3. y.wire["in"].got BY <1>1, <1>4, <2>1 DEF InEncrypted, SameTold
    <3>4. ~Untouched(y.wire["in"]) BY <1>1, <1>4, <2>1 DEF Untouched
    <3> QED BY <2>1, <3>2, <3>3, <3>4 DEF MayJoin
  <2>2. CASE ~Enc
    <3>1. PlainRight(Now) /\ Now.wire = wire /\ Now.tasks = tasks BY <2>2, NowRight
    <3>2. InPlain(wire["in"], tasks["in"]) BY <3>1 DEF PlainRight
    <3>3. y.tasks["in"] = {} BY <1>3, <1>4, <3>2 DEF InPlain
    <3>4. wire["in"].parser = "messages" /\ wire["in"].handled = 0 BY <1>1, <3>2 DEF InPlain
    <3>5. InPlain(y.wire["in"], y.tasks["in"]) BY <1>4, <3>2, <3>3, <3>4 DEF InPlain
    <3>6. TermsRight(y.wire["in"], "in")
      BY <1>1, <1>4, <3>1 DEF TermsRight, SameTold, Sends, HandshakeRight, Sides
    <3>7. y.wire["in"].sent = wire["in"].sent BY <1>4 DEF SameTold
    <3>8. HandshakeRight(y)
      BY <1>1, <1>4, <1>5, <2>2, <3>1, <3>4, <3>5, <3>6, <3>7, PlainLocal DEF Touches, Sends, Sides
    <3> QED BY <1>4, <2>2, <3>3, <3>4, <3>8 DEF MayJoin, Sends
  <2> QED BY <2>1, <2>2
<1>7. HandshakeRight(PeerOnHandshake(y, "in")) BY <1>6, PeerOnHandshakeRight DEF Sends, Sides
<1> QED BY <1>2, <1>7, BecomesRight

LEMMA AwaitedRight ==
    ASSUME HandshakeInv, NEW e \in Sides, Awaited(e)
    PROVE  HandshakeInv'
<1>1. UNCHANGED <<setup, retries>> BY DEF Awaited
<1>2. CASE SendPe3(e) BY <1>1, <1>2, SendPe3Right
<1>3. CASE Synchronise(e) BY <1>1, <1>3, SynchroniseRight
<1>4. CASE EmitPe3(e) BY <1>1, <1>4, EmitPe3Right
<1>5. CASE PoolOnPe3(e) BY <1>1, <1>5, PoolOnPe3Right
<1>6. CASE SendPe4(e) BY <1>1, <1>6, SendPe4Right
<1>7. CASE PoolOnHandshake(e) BY <1>1, <1>7, PoolOnHandshakeRight
<1> QED BY <1>2, <1>3, <1>4, <1>5, <1>6, <1>7 DEF Awaited

-----------------------------------------------------------------------------
(* A new attempt.                                                          *)
LEMMA FreshRight ==
    ASSUME setup \in Setup, NEW n \in Nat, NEW c \in BOOLEAN, NEW x,
           x = [wire |-> [e \in Sides |-> NewWire(e, n)], stream |-> [e \in Sides |-> << >>],
                tasks |-> [e \in Sides |-> {}], misread |-> FALSE, crashed |-> c]
    PROVE  /\ x \in Shape /\ \A e \in Sides : TermsRight(x.wire[e], e)
           /\ IF Encrypts("out", n) THEN EncryptedRight(x) ELSE PlainRight(x)
<1>1. ASSUME NEW e \in Sides PROVE NewWire(e, n) \in SideType
  <2>1. << >> \in Seq(Token) BY EmptySeq
  <2>2. (e = "out") \in BOOLEAN OBVIOUS
  <2> QED BY <2>1, <2>2 DEF NewWire, SideType, Ciphers, Parsers
<1>2. x \in Shape
  <2>1. [e \in Sides |-> NewWire(e, n)] \in [Sides -> SideType] BY <1>1
  <2>2. [e \in Sides |-> << >>] \in [Sides -> Seq(Token)] BY EmptySeq
  <2>3. [e \in Sides |-> {}] \in [Sides -> SUBSET Task] OBVIOUS
  <2> QED BY <2>1, <2>2, <2>3 DEF Shape
<1>3. \A e \in Sides : x.wire[e] = NewWire(e, n) /\ x.stream[e] = << >> /\ x.tasks[e] = {}
  OBVIOUS
<1>4. \A e \in Sides :
         /\ NewWire(e, n).buffer = << >> /\ NewWire(e, n).sync = "none"
         /\ ~NewWire(e, n).method /\ ~NewWire(e, n).pe /\ ~NewWire(e, n).sent
         /\ ~NewWire(e, n).got /\ NewWire(e, n).sentExt = 0 /\ NewWire(e, n).handled = 0
         /\ (e = "in" => ~NewWire(e, n).swarm)
         /\ NewWire(e, n).parser = IF ~Encrypts(e, n) THEN "handshake"
                                   ELSE IF e = "in" THEN "type" ELSE "pe2"
  BY DEF NewWire
<1>5. ~x.misread OBVIOUS
<1>6. \A e \in Sides : ~Unread(x, e) BY <1>3, <1>4 DEF Unread
<1>7. \A e \in Sides : TermsRight(x.wire[e], e) BY <1>3, <1>4 DEF TermsRight
<1>8. "out" \in Sides /\ "in" \in Sides BY DEF Sides
<1>9. ASSUME Encrypts("out", n) PROVE EncryptedRight(x)
  <2>1. OutEncrypted(x.wire["out"], x.tasks["out"]) BY <1>3, <1>4, <1>8, <1>9 DEF OutEncrypted
  <2>2. InEncrypted(x.wire["in"], x.tasks["in"]) BY <1>3, <1>4, <1>8 DEF InEncrypted, GetTask
  <2>3. KeyFirst(x) BY <1>3, <1>4, <1>6, <1>8 DEF KeyFirst
  <2>4. Begun(x) BY <1>3, <1>6 DEF Begun
  <2> QED BY <2>1, <2>2, <2>3, <2>4 DEF EncryptedRight
<1>10. ASSUME ~Encrypts("out", n) PROVE PlainRight(x)
  <2>1. OutPlain(x.wire["out"], x.tasks["out"]) BY <1>3, <1>4, <1>8, <1>10 DEF OutPlain
  <2>2. InPlain(x.wire["in"], x.tasks["in"]) BY <1>3, <1>4, <1>8 DEF InPlain
  <2>3. \A e \in Sides : HelloFirst(x, e)
    BY <1>3, <1>4, <1>6, TwoSides DEF HelloFirst
  <2> QED BY <1>5, <2>1, <2>2, <2>3 DEF PlainRight
<1> QED BY <1>2, <1>7, <1>9, <1>10

LEMMA HandshakeStart ==
    ASSUME HandshakeInit
    PROVE  HandshakeInv
<1>1. setup \in Setup /\ retries \in Nat /\ retries = 0
  BY HandshakeAssumption DEF HandshakeInit
<1>2. Now = [wire |-> [e \in Sides |-> NewWire(e, 0)], stream |-> [e \in Sides |-> << >>],
             tasks |-> [e \in Sides |-> {}], misread |-> FALSE, crashed |-> FALSE]
  BY DEF HandshakeInit, Now
<1>3. /\ Now \in Shape /\ \A e \in Sides : TermsRight(Now.wire[e], e)
      /\ IF Encrypts("out", 0) THEN EncryptedRight(Now) ELSE PlainRight(Now)
  BY <1>1, <1>2, FreshRight
<1> QED BY <1>1, <1>3 DEF HandshakeInv, HandshakeRight, Enc

LEMMA RedialRight ==
    ASSUME HandshakeInv, Redial
    PROVE  HandshakeInv'
<1> DEFINE n == NextRetry
           x == [wire |-> [e \in Sides |-> NewWire(e, n)], stream |-> [e \in Sides |-> << >>],
                 tasks |-> [e \in Sides |-> {}], misread |-> FALSE, crashed |-> crashed]
<1>1. n \in Nat /\ n # 0 /\ setup \in Setup BY DEF NextRetry, HandshakeInv
<1>2. retries' = n /\ setup' = setup BY DEF Redial
<1>3. Now' = x
  <2>1. stream = [e \in Sides |-> << >>] /\ tasks = [e \in Sides |-> {}]
    <3>1. stream \in [Sides -> Seq(Token)] /\ tasks \in [Sides -> SUBSET Task]
      BY NowRight DEF Shape
    <3> QED BY <3>1 DEF Redial, Quiet
  <2>2. stream' = stream /\ tasks' = tasks /\ wire' = [e \in Sides |-> NewWire(e, n)]
        /\ misread' = FALSE /\ crashed' = crashed
    BY DEF Redial
  <2> HIDE DEF n
  <2> QED BY <2>1, <2>2 DEF Now
<1>4. crashed \in BOOLEAN BY NowRight DEF Shape, Now
<1> HIDE DEF n
<1>5. /\ x \in Shape /\ \A e \in Sides : TermsRight(x.wire[e], e)
      /\ IF Encrypts("out", n) THEN EncryptedRight(x) ELSE PlainRight(x)
  BY <1>1, <1>4, FreshRight
<1>6. ~Encrypts("out", n) BY <1>1 DEF Encrypts
<1>7. ~Enc' BY <1>1, <1>2 DEF Enc, Encrypts
<1>8. PlainRight(x) BY <1>5, <1>6
<1> HIDE DEF x
<1>9. (Now \in Shape)' /\ PlainRight(Now)' BY <1>3, <1>5, <1>8
<1>10. (\A e \in Sides : TermsRight(Now.wire[e], e))'
  BY <1>2, <1>3, <1>5 DEF TermsRight, FastBoth
<1>11. HandshakeRight(Now)' BY <1>7, <1>9, <1>10 DEF HandshakeRight
<1> QED BY <1>1, <1>2, <1>11 DEF HandshakeInv

LEMMA OnConnectRight ==
    ASSUME HandshakeInv, OnConnect
    PROVE  HandshakeInv'
<1>1. UNCHANGED <<setup, retries>> /\ wire["out"].open /\ ~wire["out"].pe BY DEF OnConnect
<1>2. HandshakeRight(Now) /\ Now \in Shape /\ Now.wire = wire /\ Now.tasks = tasks BY NowRight
<1>3. CASE ~Enc
  <2>1. Becomes(SendHandshake(Now, "out")) BY <1>3 DEF OnConnect, Enc
  <2>2. Sends(Now) BY <1>2, <1>3 DEF Sends
  <2>3. HandshakeRight(SendHandshake(Now, "out")) BY <2>2, SendHandshakeRight DEF Sends, Sides
  <2> QED BY <1>1, <2>1, <2>3, BecomesRight
<1>4. CASE Enc
  <2> DEFINE z == WithPe(Now, "out")
  <2>1. PICK pad \in Pads, key \in Keys : Becomes(Push(z, "out", <<Tok(key, "plain")>> \o pad))
    BY <1>4 DEF OnConnect, Enc, WithPe
  <2> DEFINE tok == Tok(key, "plain")
             toks == <<tok>> \o pad
             y == Push(z, "out", toks)
  <2>2. toks \in Seq(Token) /\ toks # << >> /\ toks[1] = tok /\ tok \in Token
        /\ tok.t \in {"key", "key19"}
    BY HandshakeAssumption, KeyTokens DEF Tok
  <2> HIDE DEF tok, toks
  <2>3. /\ Touches(Now, z, "out") /\ z \in Shape /\ z.tasks = tasks
        /\ SameTold(z.wire["out"], wire["out"]) /\ z.wire["out"].open
        /\ z.wire["out"].parser = wire["out"].parser /\ z.wire["out"].method = wire["out"].method
        /\ z.wire["out"].handled = wire["out"].handled /\ z.wire["out"].pe
        /\ z.wire["out"].buffer = wire["out"].buffer
    BY <1>1, <1>2, SetPe DEF Sides
  <2> HIDE DEF z
  <2>4. z.wire["in"] = wire["in"] /\ z.stream = Now.stream BY <1>2, <2>3 DEF Touches, Local, Other
  <2>5. Pushed(z, y, "out", tok) BY <2>2, <2>3, PushDoes DEF Sides
  <2>6. y \in Shape /\ y.wire = z.wire /\ y.tasks = tasks BY <2>3, <2>5 DEF Pushed
  <2> HIDE DEF y
  <2>7. EncryptedRight(Now) BY <1>4, NowRight
  <2>8. ~Unread(z, "in")
    <3>1. ~Unread(Now, "in") BY <1>1, <1>2, <2>7 DEF EncryptedRight, Begun, Sides
    <3> QED BY <1>2, <2>4, <3>1 DEF Unread
  <2>9. z.wire["out"] \in SideType BY <2>3 DEF Shape, Sides
  <2>10. Unread(y, "in") /\ NextToken(y, "in").t = tok.t
    <3>1. Other("out") = "in" BY DEF Other
    <3>2. Unread(y, "in") /\ NextToken(y, "in") = Encrypt(z.wire["out"], tok)
      BY <2>3, <2>5, <2>8, <3>1 DEF Pushed
    <3> QED BY <2>2, <2>9, <3>2, Encrypting
  <2>11. KeyFirst(y) BY <2>2, <2>10 DEF KeyFirst
  <2>12. OutEncrypted(y.wire["out"], y.tasks["out"])
    BY <1>2, <2>3, <2>6, <2>7 DEF EncryptedRight, OutEncrypted, SameTold
  <2>13. InEncrypted(y.wire["in"], y.tasks["in"])
    BY <1>2, <2>4, <2>6, <2>7 DEF EncryptedRight
  <2>14. Begun(y) BY <2>3, <2>6 DEF Begun
  <2>15. EncryptedRight(y) BY <2>11, <2>12, <2>13, <2>14 DEF EncryptedRight
  <2>16. \A e \in Sides : TermsRight(y.wire[e], e)
    BY <1>2, <2>3, <2>4, <2>6 DEF HandshakeRight, TermsRight, SameTold, Sides
  <2>17. HandshakeRight(y) BY <1>4, <2>6, <2>15, <2>16 DEF HandshakeRight
  <2>18. Becomes(y) BY <2>1 DEF y, toks, tok
  <2> QED BY <1>1, <2>17, <2>18, BecomesRight
<1> QED BY <1>3, <1>4

-----------------------------------------------------------------------------
(* Data that arrives.                                                      *)

(* The first token of what an end has read and of what it reads now.       *)
LEMMA ReadRight ==
    ASSUME HandshakeInv, NEW e \in Sides, stream[e] # << >>, NEW y \in Shape,
           y.wire[Other(e)] = wire[Other(e)], y.stream[Other(e)] = stream[Other(e)],
           y.tasks = tasks, y.misread = misread,
           SameTold(y.wire[e], wire[e]), y.wire[e].open = wire[e].open,
           y.wire[e].swarm = wire[e].swarm, y.wire[e].parser = wire[e].parser,
           y.wire[e].method = wire[e].method, y.wire[e].pe = wire[e].pe,
           y.wire[e].handled = wire[e].handled, y.wire[e].sync \in {wire[e].sync, "none"},
           \/ Enc /\ wire[e].sync # "none"
           \/ /\ Unread(y, e) /\ NextToken(y, e).t = NextToken(Now, e).t
              /\ ~wire[e].method => NextToken(y, e) = NextToken(Now, e)
    PROVE  HandshakeRight(y)
<1> DEFINE f == Other(e)
<1>0. f \in Sides /\ f # e /\ Other(f) = e /\ Sides = {e, f} /\ Other(e) = f BY TwoSides
<1>1. Sends(Now) /\ Now.wire = wire /\ Now.tasks = tasks /\ Now.stream = stream
      /\ Now.misread = misread
  BY NowRight, HasBegun
<1>2. y.wire[f] = wire[f] /\ y.stream[f] = stream[f] OBVIOUS
<1> HIDE DEF f
<1>3. \A g \in Sides : TermsRight(y.wire[g], g)
  <2>1. \A g \in Sides : TermsRight(wire[g], g) BY <1>1 DEF Sends, HandshakeRight
  <2>2. TermsRight(y.wire[e], e) BY <2>1 DEF TermsRight, SameTold
  <2> QED BY <1>0, <1>2, <2>1, <2>2
<1>4. Unread(Now, e) BY <1>1 DEF Unread
<1>5. Unread(y, f) = Unread(Now, f) /\ NextToken(y, f) = NextToken(Now, f)
  BY <1>1, <1>2 DEF Unread, NextToken
<1>6. ASSUME Enc PROVE EncryptedRight(y)
  <2>1. EncryptedRight(Now) /\ wire["out"].pe BY <1>1, <1>6, NowRight DEF Sends
  <2>2. y.wire["out"].pe BY <1>0, <1>2, <2>1 DEF Sides
  <2>3. OutEncrypted(y.wire["out"], y.tasks["out"])
    <3>1. CASE e = "out" BY <1>1, <2>1, <3>1 DEF EncryptedRight, OutEncrypted, SameTold
    <3>2. CASE e # "out"
      <4>1. f = "out" BY <1>0, <3>2 DEF Sides
      <4> QED BY <1>1, <1>2, <2>1, <4>1 DEF EncryptedRight
    <3> QED BY <3>1, <3>2
  <2>4. InEncrypted(y.wire["in"], y.tasks["in"])
    <3>1. CASE e = "in" BY <1>1, <2>1, <3>1 DEF EncryptedRight, InEncrypted, SameTold, Untouched
    <3>2. CASE e # "in"
      <4>1. f = "in" BY <1>0, <3>2 DEF Sides
      <4> QED BY <1>1, <1>2, <2>1, <4>1 DEF EncryptedRight
    <3> QED BY <3>1, <3>2
  <2>5. KeyFirst(y)
    <3>0. KeyFirst(Now) BY <2>1 DEF EncryptedRight
    <3>1. CASE e = "in"
      <4>1. ASSUME Untouched(y.wire["in"]), y.wire["in"].open
            PROVE  Unread(y, "in") /\ NextToken(y, "in").t \in {"key", "key19"}
        <5>1. Untouched(wire["in"]) /\ wire["in"].open BY <3>1, <4>1 DEF Untouched
        <5>2. wire["in"].sync = "none" BY <1>1, <2>1, <5>1 DEF EncryptedRight, InEncrypted
        <5>3. Unread(y, "in") /\ NextToken(y, "in").t = NextToken(Now, "in").t BY <3>1, <5>2
        <5>4. NextToken(Now, "in").t \in {"key", "key19"}
          BY <1>1, <1>4, <3>0, <3>1, <5>1 DEF KeyFirst
        <5> QED BY <5>3, <5>4
      <4> QED BY <4>1 DEF KeyFirst
    <3>2. CASE e = "out"
      <4>1. f = "in" BY <1>0, <3>2 DEF Sides
      <4>2. Unread(y, "in") = Unread(Now, "in") /\ NextToken(y, "in") = NextToken(Now, "in")
            /\ y.wire["in"] = wire["in"]
        BY <1>2, <1>5, <4>1
      <4>3. y.wire["out"].open = wire["out"].open /\ y.wire["out"].pe = wire["out"].pe BY <3>2
      <4> QED BY <1>1, <3>0, <4>2, <4>3 DEF KeyFirst
    <3> QED BY <3>1, <3>2 DEF Sides
  <2> QED BY <2>2, <2>3, <2>4, <2>5 DEF EncryptedRight, Begun
<1>7. ASSUME ~Enc PROVE PlainRight(y)
  <2>1. PlainRight(Now) BY <1>7, NowRight
  <2>2. ~wire[e].method BY <1>1, <2>1 DEF PlainRight, OutPlain, InPlain, Sides
  <2>3. HelloFirst(y, e)
    <3>1. HelloFirst(Now, e) BY <2>1 DEF PlainRight
    <3>2. Unread(y, e) /\ NextToken(y, e) = NextToken(Now, e) BY <1>7, <2>2
    <3> QED BY <1>1, <1>4, <3>1, <3>2 DEF HelloFirst
  <2>4. HelloFirst(y, f)
    <3>1. HelloFirst(Now, f) BY <1>0, <2>1 DEF PlainRight
    <3>2. y.wire[Other(f)].sent = wire[Other(f)].sent /\ y.wire[Other(f)].open = wire[Other(f)].open
      BY <1>0 DEF SameTold
    <3> QED BY <1>1, <1>2, <1>5, <3>1, <3>2 DEF HelloFirst
  <2>5. OutPlain(y.wire["out"], y.tasks["out"])
    <3>1. CASE e = "out" BY <1>1, <2>1, <3>1 DEF PlainRight, OutPlain
    <3>2. CASE e # "out"
      <4>1. f = "out" BY <1>0, <3>2 DEF Sides
      <4> QED BY <1>1, <1>2, <2>1, <4>1 DEF PlainRight
    <3> QED BY <3>1, <3>2
  <2>6. InPlain(y.wire["in"], y.tasks["in"])
    <3>1. CASE e = "in" BY <1>1, <2>1, <3>1 DEF PlainRight, InPlain
    <3>2. CASE e # "in"
      <4>1. f = "in" BY <1>0, <3>2 DEF Sides
      <4> QED BY <1>1, <1>2, <2>1, <4>1 DEF PlainRight
    <3> QED BY <3>1, <3>2
  <2>7. \A g \in Sides : HelloFirst(y, g) BY <1>0, <2>3, <2>4
  <2> QED BY <1>1, <2>1, <2>5, <2>6, <2>7 DEF PlainRight
<1> QED BY <1>3, <1>6, <1>7 DEF HandshakeRight

LEMMA Decrypting ==
    ASSUME NEW p \in SideType, NEW tok \in Token
    PROVE  /\ Decrypt(p, tok) \in Token /\ Decrypt(p, tok).t = tok.t
           /\ ~p.method => Decrypt(p, tok) = tok
BY DEF SideType, Token, Decrypt, Tok, Ciphers

LEMMA DecryptAll ==
    ASSUME NEW p \in SideType, NEW q \in Seq(Token), NEW n \in 1 .. Len(q),
           NEW toks, toks = [i \in 1 .. n |-> Decrypt(p, q[i])]
    PROVE  toks \in Seq(Token) /\ toks # << >> /\ toks[1] = Decrypt(p, q[1])
           /\ q[1] \in Token
<1>1. Len(q) \in Nat /\ n \in Nat /\ n >= 1 /\ n <= Len(q) /\ \A i \in 1 .. Len(q) : q[i] \in Token
  BY LenProperties, ElementOfSeq
<1>2. \A i \in 1 .. n : Decrypt(p, q[i]) \in Token BY <1>1, Decrypting
<1>3. toks \in [1 .. n -> Token] BY <1>1, <1>2
<1>4. toks \in Seq(Token) /\ Len(toks) = n BY <1>1, <1>3, SeqDef, LenProperties
<1>5. toks # << >> BY <1>1, <1>4, EmptySeq
<1>6. 1 \in 1 .. n /\ 1 \in 1 .. Len(q) BY <1>1
<1> QED BY <1>1, <1>4, <1>5, <1>6

(* What a write leaves of the buffer.                                      *)
WithFound(x, e, b) == [x EXCEPT !.wire[e].buffer = b, !.wire[e].sync = "none"]
WithRead(x, e, r, b) == [x EXCEPT !.stream[e] = r, !.wire[e].buffer = b]

LEMMA SetFound ==
    ASSUME NEW x \in Shape, NEW e \in Sides, NEW b \in Seq(Token),
           NEW y, y = WithFound(x, e, b)
    PROVE  /\ Touches(x, y, e) /\ y \in Shape /\ y.tasks = x.tasks
           /\ SameTold(y.wire[e], x.wire[e]) /\ y.wire[e].open = x.wire[e].open
           /\ y.wire[e].swarm = x.wire[e].swarm /\ y.wire[e].parser = x.wire[e].parser
           /\ y.wire[e].method = x.wire[e].method /\ y.wire[e].pe = x.wire[e].pe
           /\ y.wire[e].handled = x.wire[e].handled /\ y.wire[e].buffer = b
           /\ y.wire[e].sync = "none"
<1> DEFINE q == x.wire[e]
           p == [q EXCEPT !.buffer = b, !.sync = "none"]
<1>1. q \in SideType BY DEF Shape
<1>2. p = [q EXCEPT !.buffer = b, !.sync = "none"] OBVIOUS
<1>3. y = SetEnd(x, e, p) BY DEF Shape, SetEnd, WithFound
<1> HIDE DEF p
<1>4. p \in SideType
  <2> HIDE DEF q
  <2> QED BY <1>1, <1>2 DEF SideType, Ciphers
<1>5. /\ SameTold(p, q) /\ p.open = q.open /\ p.swarm = q.swarm
      /\ p.parser = q.parser /\ p.method = q.method /\ p.pe = q.pe
      /\ p.handled = q.handled /\ p.buffer = b /\ p.sync = "none"
  <2> HIDE DEF q
  <2> QED BY <1>1, <1>2, <1>4 DEF SideType, SameTold
<1>6. Touches(x, y, e) /\ y \in Shape /\ y.wire[e] = p /\ y.tasks = x.tasks
  <2> HIDE DEF q
  <2> QED BY <1>3, <1>4, SetTouches
<1> QED BY <1>5, <1>6, Zenon

LEMMA SetRead ==
    ASSUME NEW x \in Shape, NEW e \in Sides, NEW r \in Seq(Token), NEW b \in Seq(Token),
           NEW y, y = WithRead(x, e, r, b)
    PROVE  /\ y \in Shape /\ y.tasks = x.tasks /\ y.misread = x.misread
           /\ y.wire[Other(e)] = x.wire[Other(e)] /\ y.stream[Other(e)] = x.stream[Other(e)]
           /\ y.stream[e] = r /\ y.wire[e].buffer = b /\ Keeps(y.wire[e], x.wire[e])
<1> DEFINE v == [x EXCEPT !.stream[e] = r]
<1>1. v = [x EXCEPT !.stream[e] = r] OBVIOUS
<1>2. y = WithBuffer(v, e, b) BY DEF WithRead, WithBuffer
<1> HIDE DEF v
<1>3. v.wire = x.wire /\ v.tasks = x.tasks /\ v.misread = x.misread
      /\ v.stream = [x.stream EXCEPT ![e] = r] /\ v \in Shape
  BY <1>1 DEF Shape
<1>4. v.stream[e] = r /\ v.stream[Other(e)] = x.stream[Other(e)]
  BY <1>3, TwoSides DEF Shape
<1>5. /\ Touches(v, y, e) /\ y \in Shape /\ y.tasks = v.tasks
      /\ Keeps(y.wire[e], v.wire[e]) /\ y.wire[e].buffer = b
  BY <1>2, <1>3, SetBuffer
<1> QED BY <1>3, <1>4, <1>5 DEF Touches, Local

LEMMA WriteRight ==
    ASSUME HandshakeInv, NEW e \in Sides, Write(e)
    PROVE  HandshakeInv'
<1>1. UNCHANGED <<setup, retries>> /\ stream[e] # << >> BY DEF Write
<1>2. Now \in Shape /\ Now.wire = wire /\ Now.tasks = tasks /\ Now.stream = stream
      /\ Now.misread = misread /\ wire[e] \in SideType /\ stream[e] \in Seq(Token)
  BY NowRight
<1> DEFINE New(n) == [i \in 1 .. n |-> Decrypt(wire[e], stream[e][i])]
           All(n) == wire[e].buffer \o New(n)
           Rest(n) == SubSeq(stream[e], n + 1, Len(stream[e]))
           Read(n) == [Now EXCEPT !.stream[e] = SubSeq(@, n + 1, Len(@)),
                                  !.wire[e].buffer = All(n)]
           Left(n, i) == SubSeq(All(n), i + 1, Len(All(n)))
<1>3. PICK n \in 1 .. Len(stream[e]) :
         \/ Becomes(Read(n))
         \/ /\ wire[e].sync = "good"
            /\ \E i \in DOMAIN All(n) : Becomes(WithFound(Read(n), e, Left(n, i)))
         \/ Becomes(DestroyPeer(Read(n), e))
  <2> DEFINE mark == Tok(IF e = "out" THEN "vc" ELSE "req1", "good")
             At(n) == {i \in DOMAIN All(n) : All(n)[i] = mark}
             found(n) == wire[e].sync = "good" /\ At(n) # {}
  <2>1. PICK n \in 1 .. Len(stream[e]) :
           \/ /\ wire[e].sync = "none"
              /\ Becomes(Read(n))
              /\ looping' = e
           \/ /\ found(n)
              /\ \E i \in At(n) :
                    Becomes([Read(n) EXCEPT !.wire[e].buffer = SubSeq(All(n), i + 1, Len(All(n))),
                                            !.wire[e].sync = "none"])
              /\ looping' = e
           \/ /\ wire[e].sync # "none" /\ ~found(n)
              /\ \/ Becomes(Read(n))
                 \/ (\E i \in DOMAIN All(n) : All(n)[i].t \in Lengthy)
                    /\ Becomes(DestroyPeer(Read(n), e))
              /\ UNCHANGED looping
    BY Zenon DEF Write
  <2> HIDE DEF mark
  <2>2. ASSUME NEW i \in At(n)
        PROVE  /\ i \in DOMAIN All(n)
               /\ WithFound(Read(n), e, Left(n, i)) =
                     [Read(n) EXCEPT !.wire[e].buffer = SubSeq(All(n), i + 1, Len(All(n))),
                                     !.wire[e].sync = "none"]
    BY Zenon DEF WithFound
  <2> HIDE DEF Read, All, Left
  <2> QED BY <2>1, <2>2
<1>a. Read(n) = WithRead(Now, e, Rest(n), All(n)) BY <1>2 DEF WithRead
<1> DEFINE new == New(n)
           all == All(n)
           rest == Rest(n)
           x == Read(n)
<1>4. new \in Seq(Token) /\ new # << >> /\ new[1] = Decrypt(wire[e], stream[e][1])
      /\ stream[e][1] \in Token
  BY <1>2, DecryptAll
<1>5. wire[e].buffer \in Seq(Token) BY <1>2 DEF SideType
<1>6. rest \in Seq(Token)
  <2>1. Len(stream[e]) \in Nat /\ n \in Nat BY <1>2, LenProperties
  <2>2. \A i \in n + 1 .. Len(stream[e]) : stream[e][i] \in Token
    BY <1>2, <2>1, ElementOfSeq
  <2> QED BY <2>1, <2>2, SubSeqProperties
<1> HIDE DEF New
<1>7. /\ all \in Seq(Token) /\ all # << >>
      /\ wire[e].buffer # << >> => all[1] = wire[e].buffer[1]
      /\ wire[e].buffer = << >> => all[1] = new[1]
  BY <1>4, <1>5, Joining
<1> HIDE DEF All, Rest
<1>8. /\ x \in Shape /\ x.tasks = tasks /\ x.misread = misread
      /\ x.wire[Other(e)] = wire[Other(e)] /\ x.stream[Other(e)] = stream[Other(e)]
      /\ x.stream[e] = rest /\ x.wire[e].buffer = all /\ Keeps(x.wire[e], wire[e])
  <2>1. x = WithRead(Now, e, rest, all) BY <1>a
  <2>2. rest \in Seq(Token) /\ all \in Seq(Token) /\ Now \in Shape BY <1>2, <1>6, <1>7
  <2> HIDE DEF x, rest, all
  <2>3. /\ x \in Shape /\ x.tasks = Now.tasks /\ x.misread = Now.misread
        /\ x.wire[Other(e)] = Now.wire[Other(e)] /\ x.stream[Other(e)] = Now.stream[Other(e)]
        /\ x.stream[e] = rest /\ x.wire[e].buffer = all /\ Keeps(x.wire[e], Now.wire[e])
    BY <2>1, <2>2, SetRead
  <2> QED BY <1>2, <2>3
<1> HIDE DEF Read
<1>9. HandshakeRight(x)
  <2>1. Unread(x, e) /\ NextToken(x, e) = all[1] BY <1>7, <1>8 DEF Unread, NextToken
  <2>2. NextToken(Now, e) = IF wire[e].buffer # << >> THEN wire[e].buffer[1] ELSE stream[e][1]
    BY <1>2 DEF NextToken
  <2>3. /\ Decrypt(wire[e], stream[e][1]).t = stream[e][1].t
        /\ ~wire[e].method => Decrypt(wire[e], stream[e][1]) = stream[e][1]
    BY <1>2, <1>4, Decrypting
  <2>4. NextToken(x, e).t = NextToken(Now, e).t
        /\ (~wire[e].method => NextToken(x, e) = NextToken(Now, e))
    BY <1>4, <1>7, <2>1, <2>2, <2>3
  <2> QED BY <1>1, <1>8, <2>1, <2>4, ReadRight DEF Keeps
<1>10. CASE Becomes(x) BY <1>1, <1>9, <1>10, BecomesRight
<1>11. CASE Becomes(DestroyPeer(x, e))
  <2>1. HandshakeRight(DestroyPeer(x, e)) BY <1>9, Closing
  <2> QED BY <1>1, <1>11, <2>1, BecomesRight
<1>12. ASSUME wire[e].sync = "good", NEW i \in DOMAIN all, Becomes(WithFound(x, e, Left(n, i)))
       PROVE  HandshakeInv'
  <2> DEFINE b == Left(n, i)
             y == WithFound(x, e, b)
  <2>1. b \in Seq(Token)
    <3>1. Len(all) \in Nat /\ i \in 1 .. Len(all) BY <1>7, LenProperties
    <3>2. \A j \in i + 1 .. Len(all) : all[j] \in Token BY <1>7, <3>1, ElementOfSeq
    <3> QED BY <3>1, <3>2, SubSeqProperties
  <2> HIDE DEF Left
  <2>2. /\ Touches(x, y, e) /\ y \in Shape /\ y.tasks = tasks
        /\ SameTold(y.wire[e], x.wire[e]) /\ y.wire[e].open = x.wire[e].open
        /\ y.wire[e].swarm = x.wire[e].swarm /\ y.wire[e].parser = x.wire[e].parser
        /\ y.wire[e].method = x.wire[e].method /\ y.wire[e].pe = x.wire[e].pe
        /\ y.wire[e].handled = x.wire[e].handled /\ y.wire[e].sync = "none"
    BY <1>8, <2>1, SetFound
  <2> HIDE DEF y
  <2>3. Enc
    <3>1. wire[e].sync # "none" BY <1>12
    <3> QED BY <1>2, <3>1, NowRight DEF PlainRight, OutPlain, InPlain, Sides
  <2>4. /\ y.wire[Other(e)] = wire[Other(e)] /\ y.stream[Other(e)] = stream[Other(e)]
        /\ y.misread = misread
    BY <1>8, <2>2 DEF Touches, Local
  <2>5. wire[e].sync # "none" BY <1>12
  <2>6. HandshakeRight(y)
    BY <1>1, <1>8, <2>2, <2>3, <2>4, <2>5, ReadRight DEF Keeps, SameTold
  <2>7. Becomes(y) BY <1>12 DEF y
  <2> QED BY <1>1, <2>6, <2>7, BecomesRight
<1> QED BY <1>3, <1>10, <1>11, <1>12

LEMMA StillRight ==
    ASSUME HandshakeInv, UNCHANGED handshakeVars
    PROVE  HandshakeInv'
<1>1. Becomes(Now) BY DEF Becomes, Now, handshakeVars
<1> QED BY <1>1, NowRight, BecomesRight DEF handshakeVars

LEMMA ClosesRight ==
    ASSUME HandshakeInv, NEW e \in Sides, Becomes(DestroyPeer(Now, e)),
           UNCHANGED <<setup, retries>>
    PROVE  HandshakeInv'
<1>1. HandshakeRight(DestroyPeer(Now, e)) BY NowRight, Closing
<1> QED BY <1>1, BecomesRight

LEMMA HandshakeGoesOn ==
    ASSUME HandshakeInv, [HandshakeNext]_handshakeVars
    PROVE  HandshakeInv'
<1>1. CASE OnConnect BY <1>1, OnConnectRight
<1>2. CASE Redial BY <1>2, RedialRight
<1>3. ASSUME NEW e \in Sides, Write(e) PROVE HandshakeInv' BY <1>3, WriteRight
<1>4. ASSUME NEW e \in Sides, ParseStep(e) PROVE HandshakeInv' BY <1>4, ParseStepRight
<1>5. ASSUME NEW e \in Sides, WriteEnds(e) PROVE HandshakeInv'
  <2>1. Becomes(Now) /\ UNCHANGED <<setup, retries>> BY <1>5 DEF WriteEnds, Becomes, Now
  <2> QED BY <2>1, NowRight, BecomesRight
<1>6. ASSUME NEW e \in Sides, Awaited(e) PROVE HandshakeInv' BY <1>6, AwaitedRight
<1>7. ASSUME NEW e \in Sides, OnPeerClose(e) PROVE HandshakeInv'
  BY <1>7, ClosesRight DEF OnPeerClose
<1>8. ASSUME NEW e \in Sides, OnHandshakeTimeout(e) PROVE HandshakeInv'
  BY <1>8, ClosesRight DEF OnHandshakeTimeout
<1>9. CASE Break BY <1>9, ClosesRight DEF Break, Sides
<1>10. CASE UNCHANGED handshakeVars BY <1>10, StillRight
<1> QED BY <1>1, <1>2, <1>3, <1>4, <1>5, <1>6, <1>7, <1>8, <1>9, <1>10
        DEF HandshakeNext, HandshakeStep

(* What the invariant says of the ends.                                    *)
LEMMA RightAgrees ==
    ASSUME HandshakeInv
    PROVE  Agreed
<1>1. /\ Now.wire = wire /\ Now.tasks = tasks /\ Now.misread = misread /\ retries \in Nat
      /\ setup \in Setup
  BY NowRight DEF HandshakeInv
<1>2. \A e \in Sides : TermsRight(wire[e], e)
  BY <1>1, NowRight DEF HandshakeRight
<1>3. "out" \in Sides /\ "in" \in Sides /\ Other("out") = "in" /\ Other("in") = "out"
  BY DEF Sides, Other
<1>4. FastBoth("in") = FastBoth("out") BY <1>1, <1>3 DEF FastBoth, Setup
<1>5. wire["out"] \in SideType /\ wire["in"] \in SideType BY <1>3, NowRight
<1>6. CASE Enc
  <2>1. EncryptedRight(Now) BY <1>6, NowRight
  <2>2. OutEncrypted(wire["out"], tasks["out"]) /\ InEncrypted(wire["in"], tasks["in"])
    BY <1>1, <2>1 DEF EncryptedRight
  <2>3. \A e \in Sides : wire[e].got => wire[e].method
    BY <2>2 DEF OutEncrypted, InEncrypted, Sides
  <2>4. retries = 0 BY <1>6 DEF Enc, Encrypts
  <2>5. SameTerms
    <3>1. ASSUME \A e \in Sides : wire[e].open /\ wire[e].got
          PROVE  /\ wire["in"].method = wire["out"].method
                 /\ (\A e \in Sides : wire[e].sent) => wire["in"].hasFast = wire["out"].hasFast
      <4>1. wire["in"].method = TRUE /\ wire["out"].method = TRUE
        BY <1>3, <1>5, <2>3, <3>1 DEF SideType
      <4>2. (\A e \in Sides : wire[e].sent) => wire["in"].hasFast = wire["out"].hasFast
        BY <1>2, <1>3, <1>4, <3>1 DEF TermsRight
      <4> QED BY <4>1, <4>2
    <3> QED BY <1>2, <3>1 DEF SameTerms, TermsRight
  <2>6. HandledOnce
    <3>1. wire["out"].handled <= 1 BY <2>2 DEF OutEncrypted
    <3>2. wire["in"].handled > 0 => wire["in"].method
      BY <1>3, <2>2, <2>3 DEF InEncrypted
    <3>3. wire["in"].handled \in Nat /\ wire["out"].handled \in Nat BY <1>5 DEF SideType
    <3> QED BY <3>1, <3>2, <3>3 DEF HandledOnce, Sides
  <2> QED BY <2>4, <2>5, <2>6 DEF Agreed, PlainIsUnderstood
<1>7. CASE ~Enc
  <2>1. PlainRight(Now) BY <1>7, NowRight
  <2>2. OutPlain(wire["out"], tasks["out"]) /\ InPlain(wire["in"], tasks["in"]) /\ ~misread
    BY <1>1, <2>1 DEF PlainRight
  <2>3. wire["in"].method = FALSE /\ wire["out"].method = FALSE
    BY <1>5, <2>2 DEF OutPlain, InPlain, SideType
  <2>4. SameTerms
    <3>1. ASSUME \A e \in Sides : wire[e].open /\ wire[e].got, \A e \in Sides : wire[e].sent
          PROVE  wire["in"].hasFast = wire["out"].hasFast
      BY <1>2, <1>3, <1>4, <3>1 DEF TermsRight
    <3> QED BY <1>2, <2>3, <3>1 DEF SameTerms, TermsRight
  <2>5. HandledOnce
    <3>1. wire["out"].handled <= 1 /\ wire["in"].handled <= 1
      BY <2>2 DEF OutPlain, InPlain
    <3>2. wire["in"].handled \in Nat /\ wire["out"].handled \in Nat BY <1>5 DEF SideType
    <3> QED BY <3>1, <3>2 DEF HandledOnce, Sides
  <2> QED BY <2>2, <2>4, <2>5 DEF Agreed, PlainIsUnderstood
<1> QED BY <1>6, <1>7

(* However two peers of this program come to know each other's handshakes, *)
(* encrypted or not, after breaks and retries: they agree on the cipher    *)
(* and on the Fast Extension, nobody who speaks plainly is misread, and a  *)
(* torrent gets a wire once, but for the known case.                       *)
THEOREM AlwaysAgreed == HandshakeSpec => []Agreed
<1>1. HandshakeInit => HandshakeInv BY HandshakeStart
<1>2. HandshakeInv /\ [HandshakeNext]_handshakeVars => HandshakeInv' BY HandshakeGoesOn
<1>3. HandshakeInv => Agreed BY RightAgrees
<1> QED BY <1>1, <1>2, <1>3, PTL DEF HandshakeSpec
=============================================================================
