-------------------------------- MODULE Peers --------------------------------
(***************************************************************************)
(* The peers of one torrent: the peers map, the queue, the connection      *)
(* count and the reconnect timers of torrent.ts, the life of a Peer        *)
(* (peer.ts), and the incoming connections of the pool (conn-pool.ts).     *)
(*                                                                         *)
(* A Peer object is a record; an object nothing refers to any more is      *)
(* free to be used again.  Peer.destroy and Torrent.removePeer call each   *)
(* other, and every removal lets #drain take peers from the queue: what a  *)
(* chain of these calls does before the thread returns is one step.        *)
(***************************************************************************)
EXTENDS Integers, Sequences, FiniteSets

CONSTANTS
    Objects,     \* bound: Peer objects that exist at a time
    Known,       \* addresses told by trackers, DHT, exchange or the user
    Remote,      \* addresses incoming connections come from
    MaxConns,    \* client.maxConns
    MaxRetries,  \* RECONNECT_WAIT.length
    MaxLength,   \* bound: _peersLength when an incoming peer is registered
    Utp,         \* client.utp
    NoPeer

Addresses == Known \cup Remote

ASSUME PeersAssumption ==
    /\ MaxConns \in Nat \ {0} /\ MaxRetries \in Nat /\ MaxLength \in Nat
    /\ Utp \in BOOLEAN
    /\ IsFiniteSet(Objects) /\ IsFiniteSet(Addresses)
    /\ NoPeer \notin Objects

VARIABLES
    peer,         \* the Peer objects
    registered,   \* this._peers: address -> object
    peersLength,  \* this._peersLength
    numConns,     \* this.#numConns
    wires,        \* the peers whose wire is in this.wires
    queue,        \* this._queue
    timers,       \* the peers whose reconnect timer runs
    paused, destroyed

flags == <<paused, destroyed>>
counts == <<registered, peersLength, numConns>>
vars == <<peer, counts, wires, queue, timers, flags>>

-----------------------------------------------------------------------------
(* A Peer: how it came, whether it was destroyed, whether onConnect ran,   *)
(* whether peer.swarm is set, its socket.  A socket that was opened ends   *)
(* with a 'close' event, whoever closed it.  "new" is an incoming peer of  *)
(* which the torrent does not know yet.  The last field is a history: the  *)
(* peer was destroyed while it was queued, or an incoming peer took its    *)
(* place in the map, or it was registered after its end.                   *)

Unused == [kind |-> "free", addr |-> NoPeer, live |-> FALSE, connected |-> FALSE,
           swarm |-> FALSE, socket |-> "none", retries |-> 0, lost |-> "no"]

Outgoing(a, n) == [Unused EXCEPT !.kind = "out", !.addr = a, !.live = TRUE,
                                 !.swarm = TRUE, !.retries = n]

Accepted(a) == [Unused EXCEPT !.kind = "new", !.addr = a, !.live = TRUE,
                              !.connected = TRUE, !.socket = "open"]

Members(s) == {s[i] : i \in DOMAIN s}

(* What the garbage collector leaves of the objects f.                     *)
Reachable(f, o) ==
    \/ f[o].live
    \/ f[o].socket # "none"
    \/ o \in Members(queue') \cup timers'
    \/ \E a \in Addresses : registered'[a] = o

Swept(f) == [o \in Objects |-> IF Reachable(f, o) THEN f[o] ELSE Unused]

Free == {o \in Objects : peer[o] = Unused}

Stopped(conns) == paused' \/ destroyed \/ conns >= MaxConns

(* #drain called n times: each call takes one peer from the queue and      *)
(* connects it, destroyed or not.                                          *)
Drain(f, q, n, conns) ==
    LET k      == IF Stopped(conns) THEN 0 ELSE IF n < Len(q) THEN n ELSE Len(q)
        dialed == {q[i] : i \in 1 .. k}
    IN  /\ queue' = SubSeq(q, k + 1, Len(q))
        /\ peer'  = Swept([o \in Objects |->
                       IF o \in dialed THEN [f[o] EXCEPT !.socket = "dialing"] ELSE f[o]])

(* The early returns of #addPeer.                                          *)
Ignored(a) == destroyed \/ paused \/ registered[a] # NoPeer

(* #addPeer: a new object, registered and queued; one drain.               *)
Join(f, a, n) ==
    \E o \in Free :
        /\ registered'  = [registered EXCEPT ![a] = o]
        /\ peersLength' = peersLength + 1
        /\ UNCHANGED numConns
        /\ Drain([f EXCEPT ![o] = Outgoing(a, n)], Append(queue, o), 1, numConns)

(* Destroying o removes whatever object has its address, and destroys that *)
(* one too: removePeer is called with the address.                         *)
Gone(f, o) ==
    {o} \cup IF f[o].swarm THEN {registered[f[o].addr]} \ {NoPeer} ELSE {}

Ended(f, gone) ==
    [o \in Objects |->
        IF o \in gone
        THEN [f[o] EXCEPT !.live = FALSE, !.connected = FALSE, !.swarm = FALSE,
                          !.socket = IF @ = "none" THEN "none" ELSE "closing",
                          !.lost = IF o \in Members(queue) THEN "queued" ELSE @]
        ELSE f[o]]

(* Mutant: every peer that ends is taken off the count.                    *)
Counted_All(f, gone) == {o \in gone : f[o].swarm}

(* The peers whose 'disconnect' #registerPeer counts.                      *)
Counted(f, gone) == {o \in gone : f[o].connected /\ f[o].swarm}

(* A registered peer that was destroyed before: to remove it ends nothing. *)
Ghost(f, o) == f[o].swarm /\ ~f[o].live

(* Peer.destroy with everything it calls; more is the number of drains the *)
(* caller adds.                                                            *)
End(f, o, more) ==
    LET a      == f[o].addr
        gone   == Gone(f, o)
        listed == f[o].swarm /\ registered[a] # NoPeer /\ ~destroyed
        drains == IF ~listed THEN 0
                  ELSE IF registered[a] = o \/ Ghost(f, registered[a]) THEN 1 ELSE 2
    IN  /\ numConns' = numConns - Cardinality(Counted(f, gone))
        /\ wires' = wires \ gone
        /\ registered' = IF listed THEN [registered EXCEPT ![a] = NoPeer] ELSE registered
        /\ peersLength' = IF listed THEN peersLength - 1 ELSE peersLength
        /\ Drain(Ended(f, gone), queue, drains + more, numConns')

-----------------------------------------------------------------------------
Init ==
    /\ peer = [o \in Objects |-> Unused]
    /\ registered = [a \in Addresses |-> NoPeer]
    /\ peersLength = 0
    /\ numConns = 0
    /\ wires = {}
    /\ queue = << >>
    /\ timers = {}
    /\ paused = FALSE
    /\ destroyed = FALSE

(* addPeer with an address that is not blocked.                            *)
AddPeer(a) ==
    /\ ~Ignored(a)
    /\ UNCHANGED <<wires, timers, flags>>
    /\ Join(peer, a, 0)

(* removePeer with an address (the API, or 'dropped' of ut_pex).           *)
RemovePeer(a) ==
    /\ ~destroyed
    /\ registered[a] # NoPeer
    /\ UNCHANGED <<timers, flags>>
    /\ End(peer, registered[a], IF Ghost(peer, registered[a]) THEN 0 ELSE 1)

(* 'connect' of a socket #drain opened.  A destroyed peer ignores it, and  *)
(* the socket stays.                                                       *)
Connect(o) ==
    /\ peer[o].socket = "dialing"
    /\ LET joins == peer[o].live /\ ~destroyed
       IN  /\ numConns' = numConns + IF joins THEN 1 ELSE 0
           /\ peer' = [peer EXCEPT ![o].socket = "open", ![o].connected = joins]
    /\ UNCHANGED <<registered, peersLength, wires, queue, timers, flags>>

(* Mutant: the handshake of a destroyed peer is handled.                   *)
Handshake_Late(o) ==
    /\ peer[o].kind = "out" /\ peer[o].socket \in {"open", "closing"}
    /\ o \notin wires
    /\ ~destroyed
    /\ wires' = wires \cup {o}
    /\ peer' = [peer EXCEPT ![o].retries = 0]
    /\ UNCHANGED <<counts, queue, timers, flags>>

(* The handshake of an outgoing peer arrives.                              *)
Handshake(o) ==
    /\ peer[o].kind = "out" /\ peer[o].connected
    /\ o \notin wires
    /\ ~destroyed
    /\ wires' = wires \cup {o}
    /\ peer' = [peer EXCEPT ![o].retries = 0]
    /\ UNCHANGED <<counts, queue, timers, flags>>

(* A peer ends by itself: connect or handshake timeout, an error, the      *)
(* remote end, a wire the torrent destroyed.                               *)
Fail(o) ==
    /\ peer[o].live
    /\ peer[o].socket \in {"dialing", "open"}
    /\ UNCHANGED <<timers, flags>>
    /\ End(peer, o, 0)

Spent(o) == peer[o].retries >= MaxRetries

(* 'close' of a socket #drain opened: a timer to connect again, unless all *)
(* attempts are used up; with uTP the address is then tried over TCP.  The *)
(* socket of a destroyed peer may also be closed by the remote end.        *)
Close(o) ==
    /\ ~peer[o].live /\ peer[o].socket # "none"
    /\ UNCHANGED <<wires, flags>>
    /\ LET f     == [peer EXCEPT ![o].socket = "none"]
           again == peer[o].kind = "out" /\ ~destroyed
           tcp   == Utp /\ ~Ignored(peer[o].addr)
       IN  \/ /\ again /\ ~Spent(o)
              /\ timers' = timers \cup {o}
              /\ UNCHANGED <<counts, queue>>
              /\ peer' = f
           \/ /\ again /\ Spent(o) /\ tcp
              /\ UNCHANGED timers
              /\ Join(f, peer[o].addr, 0)
           \/ /\ ~again \/ (Spent(o) /\ ~tcp)
              /\ UNCHANGED <<counts, queue, timers>>
              /\ peer' = Swept(f)

(* A reconnect timer fires.                                                *)
Reconnect(o) ==
    /\ o \in timers
    /\ timers' = timers \ {o}
    /\ UNCHANGED <<wires, flags>>
    /\ \/ /\ ~Ignored(peer[o].addr)
          /\ Join(peer, peer[o].addr, peer[o].retries + 1)
       \/ /\ Ignored(peer[o].addr)
          /\ UNCHANGED <<counts, queue>>
          /\ peer' = Swept(peer)

-----------------------------------------------------------------------------
(* A connection comes in; the pool keeps it until its handshake.           *)
Incoming(a) ==
    /\ \E o \in Free : peer' = [peer EXCEPT ![o] = Accepted(a)]
    /\ UNCHANGED <<counts, wires, queue, timers, flags>>

(* Its address now leads to o, whoever had it before.                      *)
Register(f, o) ==
    /\ peersLength < MaxLength
    /\ registered' = [registered EXCEPT ![f[o].addr] = o]
    /\ peersLength' = peersLength + 1
    /\ UNCHANGED queue
    /\ peer' = Swept([p \in Objects |->
                  IF p = o THEN [f[o] EXCEPT !.swarm = TRUE]
                  ELSE IF p = registered[f[o].addr] THEN [f[p] EXCEPT !.lost = "replaced"]
                  ELSE f[p]])

(* Its handshake has come and the client was asked for the torrent.  There *)
(* is none any more; or it is paused and destroys the peer, of which it is *)
(* the swarm already, though not counted; or it registers the peer,        *)
(* without looking for another one of the same address.                    *)
Accept(o) ==
    /\ peer[o].kind = "new" /\ peer[o].live
    /\ UNCHANGED <<timers, flags>>
    /\ LET f == [peer EXCEPT ![o].kind = "in"]
       IN  \/ /\ destroyed
              /\ End(f, o, 0)
           \/ /\ ~destroyed /\ paused
              /\ End([f EXCEPT ![o].swarm = TRUE, ![o].connected = FALSE], o, 0)
           \/ /\ ~destroyed /\ ~paused
              /\ Register(f, o)
              /\ numConns' = numConns + 1
              /\ wires' = wires \cup {o}

(* The connection ended while the client was asked: nothing looks at that, *)
(* and the peer is registered, not counted and without a wire.             *)
AcceptLate(o) ==
    /\ peer[o].kind = "new" /\ ~peer[o].live
    /\ ~destroyed /\ ~paused
    /\ UNCHANGED <<numConns, wires, timers, flags>>
    /\ Register([peer EXCEPT ![o].kind = "in", ![o].lost = "ghost"], o)

-----------------------------------------------------------------------------
Pause ==
    /\ ~destroyed /\ ~paused
    /\ paused' = TRUE
    /\ UNCHANGED <<peer, counts, wires, queue, timers, destroyed>>

(* resume() drains once.                                                   *)
Resume ==
    /\ ~destroyed /\ paused
    /\ paused' = FALSE
    /\ UNCHANGED <<counts, wires, timers, destroyed>>
    /\ Drain(peer, queue, 1, numConns)

DestroyPeers(gone) ==
    /\ ~destroyed
    /\ destroyed' = TRUE
    /\ numConns' = numConns - Cardinality(Counted(peer, gone))
    /\ wires' = wires \ gone
    /\ peer' = Ended(peer, gone)
    /\ UNCHANGED <<registered, peersLength, queue, timers, paused>>

(* Mutant: a peer that is still connecting is not destroyed.               *)
Destroy_Connected ==
    DestroyPeers({o \in Objects : peer[o].connected /\ \E a \in Addresses : registered[a] = o})

(* #destroyTorrent destroys the peers in the map.                          *)
Destroy == DestroyPeers({registered[a] : a \in Addresses} \ {NoPeer})

Next ==
    \/ \E a \in Known : AddPeer(a)
    \/ \E a \in Addresses : RemovePeer(a)
    \/ \E o \in Objects : Connect(o) \/ Handshake(o) \/ Fail(o) \/ Close(o) \/ Reconnect(o)
    \/ \E a \in Remote : Incoming(a)
    \/ \E o \in Objects : Accept(o) \/ AcceptLate(o)
    \/ Pause \/ Resume \/ Destroy

Spec == Init /\ [][Next]_vars

-----------------------------------------------------------------------------
(* #numConns, which limits the connections, is the number of members that  *)
(* are connected, whatever replaced, removed or destroyed them.            *)
ConnsCounted ==
    numConns = Cardinality({o \in Objects : peer[o].swarm /\ peer[o].connected})

(* torrent.wires holds no wire of a destroyed peer (Peer.onHandshake and   *)
(* Peer.destroy).                                                          *)
WiresAreLive ==
    \A o \in wires : peer[o].live /\ peer[o].connected /\ peer[o].swarm

(* The peers map of a living torrent holds its members under their own     *)
(* address, all of them save those an incoming peer replaced, and all of   *)
(* them alive save those registered late; _peersLength counts the map and  *)
(* the replacements.                                                       *)
RegistryAgrees ==
    ~destroyed =>
        /\ \A a \in Addresses : registered[a] # NoPeer =>
              /\ peer[registered[a]].swarm /\ peer[registered[a]].addr = a
              /\ peer[registered[a]].live \/ peer[registered[a]].lost = "ghost"
        /\ \A o \in Objects : peer[o].swarm /\ peer[o].lost # "replaced" =>
              registered[peer[o].addr] = o
        /\ peersLength >= Cardinality({a \in Addresses : registered[a] # NoPeer})

(* An outgoing peer that was never connected waits in the queue, once:     *)
(* #drain never drops one (the queue and the limit in #drain).             *)
QueueIsWaiting ==
    /\ \A i, j \in DOMAIN queue : queue[i] = queue[j] => i = j
    /\ \A o \in Objects : peer[o].live /\ peer[o].socket = "none" => o \in Members(queue)
    /\ \A o \in Members(queue) : peer[o].kind = "out" /\ peer[o].socket = "none"

(* A member, present or former, whose socket is open.                      *)
HasSocket(o) ==
    /\ peer[o].socket \in {"dialing", "open"}
    /\ peer[o].kind # "new"

(* A socket outlives the torrent for two reasons only: its peer was        *)
(* removed while it was queued, or an incoming peer took its entry.        *)
LeakIsExplained == \A o \in Objects : destroyed /\ HasSocket(o) => peer[o].lost # "no"

(* All three: the map, the wires and the queue agree with the peers.       *)
PeersAgree == RegistryAgrees /\ WiresAreLive /\ QueueIsWaiting
=============================================================================
