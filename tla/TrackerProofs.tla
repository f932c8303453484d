--------------------------- MODULE TrackerProofs ---------------------------
(* The counters the tracker server answers with and the sockets its peers  *)
(* are bound to, for every number of peers, sockets and torrents and every *)
(* size of the peer cache.                                                 *)
EXTENDS TrackerServer, FiniteSetTheorems, SequenceTheorems, TLAPS

Swarm ==
    [hash : InfoHashes, complete : Int, incomplete : Int,
     peers : UNION {[ids -> PeerData] : ids \in SUBSET Ids}]

Leechers(w) == Members(w) \ Seeders(w)

(* A Swarm object whose counters are right.                                *)
Counted(w) ==
    /\ w \in Swarm
    /\ w.complete = Cardinality(Seeders(w)) /\ w.incomplete = Cardinality(Leechers(w))

Connection ==
    [open : BOOLEAN, id : WsIds \cup {None}, hashes : SUBSET InfoHashes, shared : BOOLEAN]

Job == [req : Request, step : {"get", "create", "relay"}]

(* A relay is queued only for a torrent that has its swarm.                *)
Relayable(js, ts) ==
    \A i \in 1 .. Len(js) : js[i].step = "relay" => ts[js[i].req.hash] # None

(* The inductive invariant: what server.torrents holds are Swarm objects   *)
(* of their info hash, their counters are right, and a relay is queued     *)
(* only after its swarm was made.                                          *)
TInv ==
    /\ sock \in [Sockets -> Connection]
    /\ waiting \subseteq Request
    /\ jobs \in Seq(Job)
    /\ Relayable(jobs, torrents)
    /\ swarm = [n \in DOMAIN swarm |-> swarm[n]]
    /\ \E k \in Nat : DOMAIN swarm = 1 .. k
    /\ \A n \in DOMAIN swarm : n # None /\ Counted(swarm[n])
    /\ torrents = [h \in InfoHashes |-> torrents[h]]
    /\ \A h \in InfoHashes : torrents[h] # None =>
           torrents[h] \in DOMAIN swarm /\ swarm[torrents[h]].hash = h

-----------------------------------------------------------------------------
(* What the methods of Swarm do to its counters.                           *)

LEMMA SwarmSets ==
    ASSUME NEW w \in Swarm
    PROVE  /\ w.peers \in [Members(w) -> PeerData] /\ Members(w) \subseteq Ids
           /\ IsFiniteSet(Members(w)) /\ IsFiniteSet(Seeders(w)) /\ IsFiniteSet(Leechers(w))
           /\ Cardinality(Seeders(w)) \in Nat /\ Cardinality(Leechers(w)) \in Nat
<1>1. w.peers \in [Members(w) -> PeerData] /\ Members(w) \in SUBSET Ids
  BY DEF Swarm, Members
<1>2. IsFiniteSet(Ids)
  BY ServerAssumption, FS_Union DEF Ids
<1>3. IsFiniteSet(Members(w))
  BY <1>1, <1>2, FS_Subset
<1>4. Seeders(w) \in SUBSET Members(w) /\ Leechers(w) \in SUBSET Members(w)
  BY DEF Seeders, Leechers
<1>5. IsFiniteSet(Seeders(w)) /\ IsFiniteSet(Leechers(w))
  BY <1>3, <1>4, FS_Subset
<1>. QED
  BY <1>1, <1>3, <1>5, FS_CardinalityType

LEMMA NewSwarmCounted ==
    ASSUME NEW h \in InfoHashes
    PROVE  Counted(NewSwarm(h)) /\ NewSwarm(h).hash = h
<1>. DEFINE w == NewSwarm(h)
<1>1. w.hash = h /\ w.complete = 0 /\ w.incomplete = 0 /\ w.peers = << >>
  BY DEF NewSwarm
<1>2. w \in Swarm
  <2>1. << >> \in [{} -> PeerData]
    OBVIOUS
  <2>2. << >> \in UNION {[ids -> PeerData] : ids \in SUBSET Ids}
    BY <2>1
  <2>. QED
    BY <2>2 DEF NewSwarm, Swarm
<1>. HIDE DEF w
<1>3. Members(w) = {}
  BY <1>1 DEF Members
<1>4. Seeders(w) = {} /\ Leechers(w) = {}
  BY <1>3 DEF Seeders, Leechers
<1>5. Counted(w)
  BY <1>1, <1>2, <1>4, FS_EmptySet DEF Counted
<1>. QED
  BY <1>1, <1>5 DEF w

(* A member that leaves is taken off the counter it was on.                *)
LEMMA DropCounted ==
    ASSUME NEW w, Counted(w), NEW id \in Members(w)
    PROVE  Counted(Drop(w, id)) /\ Drop(w, id).hash = w.hash
<1>. DEFINE v == Drop(w, id)
            ps == [i \in Members(w) \ {id} |-> w.peers[i]]
<1>1. /\ w \in Swarm /\ w.peers[id].complete \in BOOLEAN
      /\ w.peers \in [Members(w) -> PeerData] /\ Members(w) \subseteq Ids
      /\ w.complete \in Int /\ w.incomplete \in Int
      /\ w.complete = Cardinality(Seeders(w)) /\ w.incomplete = Cardinality(Leechers(w))
  BY SwarmSets DEF Counted, PeerData, Swarm
<1>2. /\ v.hash = w.hash /\ v.peers = ps
      /\ v.complete = w.complete - One(w.peers[id].complete)
      /\ v.incomplete = w.incomplete - One(~w.peers[id].complete)
  BY <1>1 DEF Drop, Swarm
<1>3. v \in Swarm
  <2>1. ps \in [Members(w) \ {id} -> PeerData] /\ Members(w) \ {id} \in SUBSET Ids
    BY <1>1
  <2>2. ps \in UNION {[ids -> PeerData] : ids \in SUBSET Ids}
    BY <2>1
  <2>3. w.complete - One(w.peers[id].complete) \in Int
        /\ w.incomplete - One(~w.peers[id].complete) \in Int
    BY <1>1 DEF One
  <2>. HIDE DEF ps
  <2>. QED
    BY <1>1, <1>2, <2>2, <2>3 DEF Drop, Swarm, ps
<1>. HIDE DEF v
<1>4. Seeders(v) = Seeders(w) \ {id} /\ Leechers(v) = Leechers(w) \ {id}
  BY <1>1, <1>2 DEF Seeders, Leechers, Members
<1>. HIDE DEF ps
<1>5. /\ id \in Seeders(w) <=> w.peers[id].complete
      /\ id \in Leechers(w) <=> ~w.peers[id].complete
  BY DEF Seeders, Leechers
<1>6. /\ Cardinality(Seeders(v)) = Cardinality(Seeders(w)) - One(w.peers[id].complete)
      /\ Cardinality(Leechers(v)) = Cardinality(Leechers(w)) - One(~w.peers[id].complete)
  <2>1. IsFiniteSet(Seeders(w)) /\ IsFiniteSet(Leechers(w))
        /\ Cardinality(Seeders(w)) \in Nat /\ Cardinality(Leechers(w)) \in Nat
    BY <1>1, SwarmSets
  <2>2. /\ Cardinality(Seeders(w) \ {id}) = IF id \in Seeders(w) THEN Cardinality(Seeders(w)) - 1
                                            ELSE Cardinality(Seeders(w))
        /\ Cardinality(Leechers(w) \ {id}) = IF id \in Leechers(w) THEN Cardinality(Leechers(w)) - 1
                                             ELSE Cardinality(Leechers(w))
    BY <2>1, FS_RemoveElement
  <2>. QED
    BY <1>1, <1>4, <1>5, <2>1, <2>2 DEF One
<1>7. Counted(v)
  BY <1>1, <1>2, <1>3, <1>6 DEF Counted
<1>. QED
  BY <1>2, <1>7 DEF v

(* peers.get and 'stopped'.                                                *)
LEMMA GetCounted ==
    ASSUME NEW w, Counted(w), NEW id
    PROVE  /\ Counted(Get(w, id)) /\ Get(w, id).hash = w.hash
           /\ Counted(Stops(w, id)) /\ Stops(w, id).hash = w.hash
  BY DropCounted DEF Get, Stops

(* A newcomer is counted once.                                             *)
Join(w, id, p) == [Put(w, id, p) EXCEPT !.complete   = @ + One(p.complete),
                                        !.incomplete = @ + One(~p.complete)]

LEMMA JoinCounted ==
    ASSUME NEW w, Counted(w), NEW id \in Ids \ Members(w), NEW p \in PeerData
    PROVE  LET v == Join(w, id, p)
           IN  Counted(v) /\ v.hash = w.hash /\ Members(v) = Members(w) \cup {id}
<1>. DEFINE v == Join(w, id, p)
            ps == [i \in Members(w) \cup {id} |-> IF i = id THEN p ELSE w.peers[i]]
<1>1. /\ w \in Swarm /\ p.complete \in BOOLEAN
      /\ w.peers \in [Members(w) -> PeerData] /\ Members(w) \subseteq Ids
      /\ w.complete \in Int /\ w.incomplete \in Int
      /\ w.complete = Cardinality(Seeders(w)) /\ w.incomplete = Cardinality(Leechers(w))
  BY SwarmSets DEF Counted, PeerData, Swarm
<1>2. /\ v.hash = w.hash /\ v.peers = ps
      /\ v.complete = w.complete + One(p.complete)
      /\ v.incomplete = w.incomplete + One(~p.complete)
  BY <1>1 DEF Join, Put, Swarm
<1>3. v \in Swarm
  <2>1. ps \in [Members(w) \cup {id} -> PeerData] /\ Members(w) \cup {id} \in SUBSET Ids
    BY <1>1
  <2>2. ps \in UNION {[ids -> PeerData] : ids \in SUBSET Ids}
    BY <2>1
  <2>3. w.complete + One(p.complete) \in Int /\ w.incomplete + One(~p.complete) \in Int
    BY <1>1 DEF One
  <2>. HIDE DEF ps
  <2>. QED
    BY <1>1, <1>2, <2>2, <2>3 DEF Join, Put, Swarm, ps
<1>. HIDE DEF v
<1>4. Seeders(v) = IF p.complete THEN Seeders(w) \cup {id} ELSE Seeders(w)
  BY <1>1, <1>2 DEF Seeders, Members
<1>5. Leechers(v) = IF p.complete THEN Leechers(w) ELSE Leechers(w) \cup {id}
  BY <1>1, <1>2, <1>4 DEF Seeders, Leechers, Members
<1>6. id \notin Seeders(w) /\ id \notin Leechers(w)
  BY DEF Seeders, Leechers
<1>7. /\ Cardinality(Seeders(v)) = Cardinality(Seeders(w)) + One(p.complete)
      /\ Cardinality(Leechers(v)) = Cardinality(Leechers(w)) + One(~p.complete)
  <2>1. IsFiniteSet(Seeders(w)) /\ IsFiniteSet(Leechers(w))
        /\ Cardinality(Seeders(w)) \in Nat /\ Cardinality(Leechers(w)) \in Nat
    BY <1>1, SwarmSets
  <2>2. /\ Cardinality(Seeders(w) \cup {id}) = Cardinality(Seeders(w)) + 1
        /\ Cardinality(Leechers(w) \cup {id}) = Cardinality(Leechers(w)) + 1
    BY <1>6, <2>1, FS_AddElement
  <2>. QED
    BY <1>1, <1>4, <1>5, <2>1, <2>2 DEF One
<1>8. Members(v) = Members(w) \cup {id}
  BY <1>2 DEF Members
<1>. QED
  BY <1>1, <1>2, <1>3, <1>7, <1>8 DEF Counted, v

(* Whom the full cache evicts for the newcomer is taken off.               *)
LEMMA StartCounted ==
    ASSUME NEW w, Counted(w), NEW r \in Request, r.id \notin Members(w), NEW v \in Start(w, r),
           r.id \in Ids, r.done \in BOOLEAN, r.on \in Sockets \cup {None}
    PROVE  Counted(v) /\ v.hash = w.hash
<1>. DEFINE p == [complete |-> r.done, on |-> r.on, stale |-> FALSE]
            u == [Put(w, r.id, p) EXCEPT !.complete   = @ + One(r.done),
                                         !.incomplete = @ + One(~r.done)]
<1>1. p \in PeerData /\ p.complete = r.done
  BY DEF PeerData
<1>2. Counted(u) /\ u.hash = w.hash /\ Members(u) = Members(w) \cup {r.id}
  <2>1. u = Join(w, r.id, p)
    BY DEF Join
  <2>2. r.id \in Ids \ Members(w)
    OBVIOUS
  <2>. HIDE DEF p, u
  <2>. QED
    BY <1>1, <2>1, <2>2, JoinCounted
<1>3. v = u \/ \E id \in Members(w) : v = Drop(u, id)
  BY DEF Start
<1>. HIDE DEF u
<1>. QED
  BY <1>2, <1>3, DropCounted

(* A member that becomes complete moves from one counter to the other,     *)
(* once.                                                                   *)
LEMMA RefreshCounted ==
    ASSUME NEW w, Counted(w), NEW r, r.id \in Members(w), NEW done \in BOOLEAN
    PROVE  Counted(Refresh(w, r, done)) /\ Refresh(w, r, done).hash = w.hash
<1>. DEFINE id == r.id
            p == w.peers[id]
            q == [p EXCEPT !.complete = @ \/ done, !.stale = FALSE]
            turns == done /\ ~p.complete
            ps == [i \in Members(w) \cup {id} |-> IF i = id THEN q ELSE w.peers[i]]
            v == Refresh(w, r, done)
<1>1. /\ w \in Swarm /\ p \in PeerData /\ p.complete \in BOOLEAN
      /\ w.peers \in [Members(w) -> PeerData] /\ Members(w) \subseteq Ids
      /\ w.complete \in Int /\ w.incomplete \in Int
      /\ w.complete = Cardinality(Seeders(w)) /\ w.incomplete = Cardinality(Leechers(w))
  BY SwarmSets DEF Counted, PeerData, Swarm
<1>2. q \in PeerData /\ q.complete = (p.complete \/ done)
  BY <1>1 DEF PeerData
<1>3. /\ v.hash = w.hash /\ v.peers = ps
      /\ v.complete = w.complete + One(turns) /\ v.incomplete = w.incomplete - One(turns)
  BY <1>1 DEF Refresh, Put, Swarm
<1>4. v \in Swarm
  <2>1. ps \in [Members(w) \cup {id} -> PeerData] /\ Members(w) \cup {id} \in SUBSET Ids
    BY <1>1, <1>2
  <2>2. ps \in UNION {[ids -> PeerData] : ids \in SUBSET Ids}
    BY <2>1
  <2>3. w.complete + One(turns) \in Int /\ w.incomplete - One(turns) \in Int
    BY <1>1 DEF One
  <2>. HIDE DEF ps
  <2>. QED
    BY <1>1, <1>3, <2>2, <2>3 DEF Refresh, Put, Swarm, ps
<1>. HIDE DEF v, q
<1>5. Seeders(v) = IF turns THEN Seeders(w) \cup {id} ELSE Seeders(w)
  BY <1>1, <1>2, <1>3 DEF Seeders, Members
<1>6. Leechers(v) = IF turns THEN Leechers(w) \ {id} ELSE Leechers(w)
  BY <1>1, <1>2, <1>3, <1>5 DEF Seeders, Leechers, Members
<1>7. turns => id \notin Seeders(w) /\ id \in Leechers(w)
  BY DEF Seeders, Leechers
<1>8. /\ Cardinality(Seeders(v)) = Cardinality(Seeders(w)) + One(turns)
      /\ Cardinality(Leechers(v)) = Cardinality(Leechers(w)) - One(turns)
  <2>1. IsFiniteSet(Seeders(w)) /\ IsFiniteSet(Leechers(w))
        /\ Cardinality(Seeders(w)) \in Nat /\ Cardinality(Leechers(w)) \in Nat
    BY <1>1, SwarmSets
  <2>2. turns => /\ Cardinality(Seeders(w) \cup {id}) = Cardinality(Seeders(w)) + 1
                 /\ Cardinality(Leechers(w) \ {id}) = Cardinality(Leechers(w)) - 1
    BY <1>7, <2>1, FS_AddElement, FS_RemoveElement
  <2>. QED
    BY <1>1, <1>5, <1>6, <2>1, <2>2 DEF One
<1>9. Counted(v)
  BY <1>1, <1>3, <1>4, <1>8 DEF Counted
<1>. QED
  BY <1>3, <1>9 DEF v

LEMMA RequestFields ==
    ASSUME NEW r \in Request
    PROVE  /\ r.id \in Ids /\ r.on \in Sockets \cup {None} /\ r.hash \in InfoHashes
           /\ r.done \in BOOLEAN
           /\ r.event \in {"started", "completed", "update", "stopped", "other"}
<1>1. \A a \in Announces : /\ a.done \in BOOLEAN
                           /\ a.event \in {"started", "completed", "update", "stopped", "other"}
  BY AnnouncesAssumption DEF AllAnnounces
<1>2. CASE \E id \in WsIds, s \in Sockets, h \in InfoHashes, a \in Announces :
              r = Requested(id, s, h, None, a)
  BY <1>1, <1>2 DEF Requested, Ids
<1>3. CASE \E id \in WsIds, s \in Sockets, h \in InfoHashes, to \in Receivers :
              r = Requested(id, s, h, to, [event |-> "update", done |-> FALSE])
  BY <1>3 DEF Requested, Ids
<1>4. CASE \E id \in Addrs, h \in InfoHashes, a \in Announces :
              r = Requested(id, None, h, None, a)
  BY <1>1, <1>4 DEF Requested, Ids
<1>. QED
  BY <1>2, <1>3, <1>4 DEF Request

(* Swarm.announce keeps the counters right, whatever is announced by whom. *)
LEMMA AnnouncedCounted ==
    ASSUME NEW w, Counted(w), NEW r \in Request, NEW v \in Announced(w, r)
    PROVE  Counted(v) /\ v.hash = w.hash
<1>1. /\ r.id \in Ids /\ r.on \in Sockets \cup {None} /\ r.done \in BOOLEAN
      /\ (r.event = "completed" \/ r.done) \in BOOLEAN
  BY RequestFields
<1>2. CASE r.event = "other"
  BY <1>2 DEF Announced
<1>3. CASE r.event = "stopped"
  BY <1>3, DropCounted DEF Announced
<1>4. CASE r.event \notin {"other", "stopped"} /\ r.id \notin Members(w)
  <2>1. v \in Start(w, r)
    BY <1>4 DEF Announced
  <2>. QED
    BY <1>1, <1>4, <2>1, StartCounted
<1>5. CASE r.event \notin {"other", "stopped"} /\ r.id \in Members(w)
  <2>1. v = Refresh(w, r, r.event = "completed" \/ r.done)
    BY <1>5 DEF Announced
  <2>. QED
    BY <1>1, <1>5, <2>1, RefreshCounted
<1>. QED
  BY <1>2, <1>3, <1>4, <1>5

-----------------------------------------------------------------------------
(* The queue of microtasks.                                                *)
LEMMA TailJobs ==
    ASSUME NEW js \in Seq(Job), js # << >>, NEW ts, Relayable(js, ts)
    PROVE  /\ Head(js) \in Job /\ Tail(js) \in Seq(Job) /\ Relayable(Tail(js), ts)
           /\ Head(js).step = "relay" => ts[Head(js).req.hash] # None
<1>1. Len(js) \in Nat \ {0} /\ Head(js) = js[1] /\ js[1] \in Job
  BY HeadTailProperties, EmptySeq, LenProperties, ElementOfSeq
<1>2. /\ Tail(js) \in Seq(Job) /\ Len(Tail(js)) = Len(js) - 1
      /\ \A i \in 1 .. Len(Tail(js)) : Tail(js)[i] = js[i + 1]
  BY HeadTailProperties
<1>. QED
  BY <1>1, <1>2 DEF Relayable

LEMMA AppendJob ==
    ASSUME NEW js \in Seq(Job), NEW j \in Job, NEW ts, Relayable(js, ts),
           j.step = "relay" => ts[j.req.hash] # None
    PROVE  Append(js, j) \in Seq(Job) /\ Relayable(Append(js, j), ts)
<1>1. /\ Append(js, j) \in Seq(Job) /\ Len(js) \in Nat /\ Len(Append(js, j)) = Len(js) + 1
      /\ \A i \in 1 .. Len(js) : Append(js, j)[i] = js[i]
      /\ Append(js, j)[Len(js) + 1] = j
  BY AppendProperties, LenProperties
<1>2. \A i \in 1 .. Len(js) + 1 : i \in 1 .. Len(js) \/ i = Len(js) + 1
  BY <1>1
<1>. QED
  BY <1>1, <1>2 DEF Relayable

LEMMA UnlistType ==
    ASSUME NEW f \in [Sockets -> Connection], NEW lost, NEW h
    PROVE  Unlist(f, lost, h) \in [Sockets -> Connection]
<1>. SUFFICES ASSUME NEW s \in Sockets PROVE [f[s] EXCEPT !.hashes = @ \ {h}] \in Connection
  BY DEF Unlist
<1>1. f[s] \in Connection
  OBVIOUS
<1>. QED
  BY <1>1 DEF Connection

(* What an announce leaves: the swarm with the right counters, the sockets *)
(* and the queue, with a relay or without.                                 *)
Listed(f, lost, r) == [Unlist(f, lost, r.hash) EXCEPT ![r.on].hashes = @ \cup {r.hash}]

LEMMA FinishedSwarm ==
    ASSUME NEW w0, Counted(w0), NEW r \in Request, NEW w \in Announced(Get(w0, r.id), r)
    PROVE  Counted(w) /\ w.hash = w0.hash
<1>1. Counted(Get(w0, r.id)) /\ Get(w0, r.id).hash = w0.hash
  BY GetCounted
<1>. QED
  BY <1>1, AnnouncedCounted

LEMMA FinishedSocket ==
    ASSUME NEW f \in [Sockets -> Connection], NEW lost, NEW r \in Request, r.on # None
    PROVE  Listed(f, lost, r) \in [Sockets -> Connection]
<1>1. r.on \in Sockets /\ r.hash \in InfoHashes
  BY RequestFields
<1>2. Unlist(f, lost, r.hash) \in [Sockets -> Connection]
  BY UnlistType
<1>. QED
  BY <1>1, <1>2 DEF Connection, Listed

LEMMA FinishedJobs ==
    ASSUME NEW later \in Seq(Job), NEW ts, Relayable(later, ts), NEW r \in Request,
           ts[r.hash] # None,
           NEW js \in {later, Append(later, [req |-> r, step |-> "relay"])}
    PROVE  js \in Seq(Job) /\ Relayable(js, ts)
<1>. DEFINE j == [req |-> r, step |-> "relay"]
<1>1. j \in Job /\ j.req.hash = r.hash /\ js \in {later, Append(later, j)}
  BY DEF Job
<1>. HIDE DEF j
<1>. QED
  BY <1>1, AppendJob

-----------------------------------------------------------------------------
LEMMA InitTInv == Init => TInv
<1>. SUFFICES ASSUME Init PROVE TInv
  OBVIOUS
<1>1. DOMAIN swarm = 1 .. 0
  BY DEF Init
<1>2. jobs \in Seq(Job) /\ Relayable(jobs, torrents)
  BY DEF Init, Relayable
<1>3. sock \in [Sockets -> Connection]
  BY DEF Init, Connection
<1>. QED
  BY <1>1, <1>2, <1>3 DEF Init, TInv

(* The parts of the invariant in the next state, as facts about values.    *)
LEMMA Assembled ==
    ASSUME sock' \in [Sockets -> Connection], waiting' \subseteq Request,
           jobs' \in Seq(Job), Relayable(jobs', torrents'),
           swarm' = [n \in DOMAIN swarm' |-> swarm'[n]],
           \E k \in Nat : DOMAIN swarm' = 1 .. k,
           \A n \in DOMAIN swarm' : n # None /\ Counted(swarm'[n]),
           torrents' = [h \in InfoHashes |-> torrents'[h]],
           \A h \in InfoHashes : torrents'[h] # None =>
               torrents'[h] \in DOMAIN swarm' /\ swarm'[torrents'[h]].hash = h
    PROVE  TInv'
<1>1. (\A n \in DOMAIN swarm : n # None /\ Counted(swarm[n]))'
  BY DEF Counted, Swarm, Seeders, Leechers, Members
<1>2. Relayable(jobs, torrents)'
  BY DEF Relayable
<1>. QED
  BY <1>1, <1>2 DEF TInv

(* The tables as they are, whatever happens to sockets and queues.         *)
LEMMA SameTables ==
    ASSUME TInv, torrents' = torrents, swarm' = swarm,
           sock' \in [Sockets -> Connection], waiting' \subseteq Request,
           jobs' \in Seq(Job), Relayable(jobs', torrents)
    PROVE  TInv'
<1>1. Relayable(jobs', torrents')
  BY DEF Relayable
<1>. QED
  BY <1>1, Assembled DEF TInv

(* One swarm is replaced by one with the right counters, for the same      *)
(* torrent.                                                                *)
LEMMA OneSwarm ==
    ASSUME TInv, torrents' = torrents, waiting' = waiting, NEW n \in DOMAIN swarm, NEW w,
           Counted(w), w.hash = swarm[n].hash,
           swarm' = [m \in DOMAIN swarm |-> IF m = n THEN w ELSE swarm[m]],
           sock' \in [Sockets -> Connection], jobs' \in Seq(Job), Relayable(jobs', torrents)
    PROVE  TInv'
<1>1. DOMAIN swarm' = DOMAIN swarm /\ swarm' = [m \in DOMAIN swarm' |-> swarm'[m]]
  OBVIOUS
<1>2. \A m \in DOMAIN swarm' : m # None /\ Counted(swarm'[m])
  BY DEF TInv
<1>3. \A h \in InfoHashes : torrents[h] # None =>
        torrents[h] \in DOMAIN swarm' /\ swarm'[torrents[h]].hash = h
  BY DEF TInv
<1>4. \E k \in Nat : DOMAIN swarm' = 1 .. k
  BY DEF TInv
<1>5. Relayable(jobs', torrents') /\ torrents' = [h \in InfoHashes |-> torrents'[h]]
      /\ waiting' \subseteq Request
  BY DEF TInv
<1>6. \A h \in InfoHashes : torrents'[h] # None =>
        torrents'[h] \in DOMAIN swarm' /\ swarm'[torrents'[h]].hash = h
  BY <1>3
<1>. QED
  BY <1>1, <1>2, <1>4, <1>5, <1>6, Assembled

LEMMA HeadJob ==
    ASSUME TInv, jobs # << >>
    PROVE  /\ Head(jobs).req \in Request /\ Head(jobs).req.hash \in InfoHashes
           /\ Tail(jobs) \in Seq(Job) /\ Relayable(Tail(jobs), torrents)
<1>1. jobs \in Seq(Job) /\ Relayable(jobs, torrents)
  BY DEF TInv
<1>2. Head(jobs) \in Job /\ Tail(jobs) \in Seq(Job) /\ Relayable(Tail(jobs), torrents)
  BY <1>1, TailJobs
<1>. QED
  BY <1>2, RequestFields DEF Job

LEMMA ArriveInv ==
    ASSUME TInv, NEW r \in Request, Arrive(r)
    PROVE  TInv'
<1>1. r.on \in Sockets \cup {None} /\ r.id \in Ids /\ r.hash \in InfoHashes
  BY RequestFields
<1>2. r.on # None => r.id \in WsIds
  BY ServerAssumption DEF Request, Requested
<1>3. sock' \in [Sockets -> Connection]
  <2>1. ASSUME r.on \in Sockets
        PROVE  [sock EXCEPT ![r.on].id = IF @ = None THEN r.id ELSE @,
                            ![r.on].shared = @ \/ sock[r.on].id \notin {None, r.id}]
               \in [Sockets -> Connection]
    <3>1. r.id \in WsIds
      BY <1>2, <2>1, ServerAssumption
    <3>2. sock \in [Sockets -> Connection]
      BY DEF TInv
    <3>3. sock[r.on] \in Connection
      BY <2>1, <3>2
    <3>4. [sock[r.on] EXCEPT !.id = IF @ = None THEN r.id ELSE @,
                             !.shared = @ \/ sock[r.on].id \notin {None, r.id}] \in Connection
      BY <3>1, <3>3 DEF Connection
    <3>. QED
      BY <2>1, <3>2, <3>4
  <2>. QED
    BY <1>1, <2>1 DEF Arrive, TInv
<1>4. jobs' \in Seq(Job) /\ Relayable(jobs', torrents)
  <2>. DEFINE j == [req |-> r, step |-> "get"]
  <2>1. j \in Job /\ j.step # "relay"
    BY DEF Job
  <2>2. jobs' = Append(jobs, j) \/ jobs' = jobs
    BY DEF Arrive
  <2>3. jobs \in Seq(Job) /\ Relayable(jobs, torrents)
    BY DEF TInv
  <2>. HIDE DEF j
  <2>. QED
    BY <2>1, <2>2, <2>3, AppendJob
<1>5. waiting' \subseteq Request /\ torrents' = torrents /\ swarm' = swarm
  BY DEF Arrive, TInv
<1>. QED
  BY <1>3, <1>4, <1>5, SameTables

LEMMA FilterAnswersInv ==
    ASSUME TInv, NEW r \in waiting, NEW passes \in BOOLEAN, FilterAnswers(r, passes)
    PROVE  TInv'
<1>1. r \in Request /\ sock' \in [Sockets -> Connection] /\ waiting' \subseteq Request
      /\ torrents' = torrents /\ swarm' = swarm
  BY DEF TInv, FilterAnswers
<1>2. jobs' \in Seq(Job) /\ Relayable(jobs', torrents)
  <2>. DEFINE j == [req |-> r, step |-> "get"]
  <2>1. j \in Job /\ j.step # "relay"
    BY <1>1 DEF Job
  <2>2. jobs' = Append(jobs, j) \/ jobs' = jobs
    BY DEF FilterAnswers
  <2>3. jobs \in Seq(Job) /\ Relayable(jobs, torrents)
    BY DEF TInv
  <2>. HIDE DEF j
  <2>. QED
    BY <2>1, <2>2, <2>3, AppendJob
<1>. QED
  BY <1>1, <1>2, SameTables

LEMMA GetSwarmInv ==
    ASSUME TInv, GetSwarm
    PROVE  TInv'
<1>. DEFINE r == Head(jobs).req
            n == torrents[r.hash]
<1>1. /\ r \in Request /\ r.hash \in InfoHashes
      /\ Tail(jobs) \in Seq(Job) /\ Relayable(Tail(jobs), torrents)
  BY HeadJob DEF GetSwarm
<1>2. torrents' = torrents /\ waiting' = waiting /\ waiting \subseteq Request
      /\ sock \in [Sockets -> Connection]
  BY DEF GetSwarm, TInv
<1>3. CASE n # None
  <2>1. n \in DOMAIN swarm /\ Counted(swarm[n])
    BY <1>1, <1>3 DEF TInv
  <2>2. PICK w \in Announced(Get(swarm[n], r.id), r) :
          /\ swarm' = [m \in DOMAIN swarm \cup {n} |-> IF m = n THEN w ELSE swarm[m]]
          /\ \E lost : \/ sock' = Unlist(sock, lost, r.hash)
                        \/ (r.on # None /\ sock' = Listed(sock, lost, r))
          /\ jobs' \in {Tail(jobs), Append(Tail(jobs), [req |-> r, step |-> "relay"])}
    BY <1>3 DEF GetSwarm, Finish, Listed
  <2>3. DOMAIN swarm \cup {n} = DOMAIN swarm
    BY <2>1
  <2>. HIDE DEF r
  <2>4. Counted(w) /\ w.hash = swarm[n].hash
    BY <1>1, <2>1, <2>2, FinishedSwarm
  <2>5. sock' \in [Sockets -> Connection]
    BY <1>1, <1>2, <2>2, FinishedSocket, UnlistType
  <2>6. jobs' \in Seq(Job) /\ Relayable(jobs', torrents)
    BY <1>1, <1>3, <2>2, FinishedJobs
  <2>. HIDE DEF n
  <2>. QED
    BY <1>2, <2>1, <2>2, <2>3, <2>4, <2>5, <2>6, OneSwarm
<1>4. CASE n = None
  <2>. DEFINE j == [req |-> r, step |-> "create"]
  <2>1. j \in Job /\ j.step # "relay"
    BY <1>1 DEF Job
  <2>2. jobs' = Append(Tail(jobs), j) /\ sock' = sock /\ swarm' = swarm
    BY <1>4 DEF GetSwarm
  <2>. HIDE DEF j
  <2>3. jobs' \in Seq(Job) /\ Relayable(jobs', torrents)
    BY <1>1, <2>1, <2>2, AppendJob
  <2>. QED
    BY <1>2, <2>2, <2>3, SameTables
<1>. QED
  BY <1>3, <1>4

LEMMA CreateSwarmInv ==
    ASSUME TInv, CreateSwarm
    PROVE  TInv'
<1>. DEFINE r == Head(jobs).req
            n == Cardinality(DOMAIN swarm) + 1
<1>1. /\ r \in Request /\ r.hash \in InfoHashes
      /\ Tail(jobs) \in Seq(Job) /\ Relayable(Tail(jobs), torrents)
  BY HeadJob DEF CreateSwarm
<1>2. PICK k \in Nat : DOMAIN swarm = 1 .. k
  BY DEF TInv
<1>3. n = k + 1
  BY <1>2, FS_Interval, Cardinality(1 .. k) = k
<1>4. n # None
  BY ServerAssumption DEF CreateSwarm, SwarmIds
<1>5. n \notin DOMAIN swarm /\ DOMAIN swarm \cup {n} = 1 .. k + 1
  BY <1>2, <1>3
<1>6. torrents' = [torrents EXCEPT ![r.hash] = n]
      /\ waiting' \subseteq Request /\ sock \in [Sockets -> Connection]
      /\ torrents = [h \in InfoHashes |-> torrents[h]]
  BY DEF CreateSwarm, TInv
<1>7. PICK w \in Announced(Get(NewSwarm(r.hash), r.id), r) :
          /\ swarm' = [m \in DOMAIN swarm \cup {n} |-> IF m = n THEN w ELSE swarm[m]]
          /\ \E lost : \/ sock' = Unlist(sock, lost, r.hash)
                        \/ (r.on # None /\ sock' = Listed(sock, lost, r))
          /\ jobs' \in {Tail(jobs), Append(Tail(jobs), [req |-> r, step |-> "relay"])}
  BY DEF CreateSwarm, Finish, Listed
<1>. HIDE DEF n, r
<1>8. /\ torrents' = [h \in InfoHashes |-> torrents'[h]]
      /\ \A h \in InfoHashes : torrents'[h] = IF h = r.hash THEN n ELSE torrents[h]
  BY <1>1, <1>6
<1>9. Relayable(Tail(jobs), torrents') /\ torrents'[r.hash] # None
  <2>1. \A i \in 1 .. Len(Tail(jobs)) : Tail(jobs)[i] \in Job
    BY <1>1
  <2>2. \A i \in 1 .. Len(Tail(jobs)) : Tail(jobs)[i].req.hash \in InfoHashes
    BY <2>1, RequestFields DEF Job
  <2>. QED
    BY <1>1, <1>4, <1>8, <2>2 DEF Relayable
<1>10. Counted(NewSwarm(r.hash)) /\ NewSwarm(r.hash).hash = r.hash
  BY <1>1, NewSwarmCounted
<1>11. Counted(w) /\ w.hash = r.hash
  BY <1>1, <1>10, <1>7, FinishedSwarm
<1>12. sock' \in [Sockets -> Connection]
  BY <1>1, <1>6, <1>7, FinishedSocket, UnlistType
<1>13. jobs' \in Seq(Job) /\ Relayable(jobs', torrents')
  BY <1>1, <1>9, <1>7, FinishedJobs
<1>14. /\ swarm' = [m \in DOMAIN swarm' |-> swarm'[m]]
       /\ \E i \in Nat : DOMAIN swarm' = 1 .. i
  BY <1>5, <1>7
<1>15. \A m \in DOMAIN swarm' : m # None /\ Counted(swarm'[m])
  BY <1>4, <1>7, <1>11 DEF TInv
<1>16. \A h \in InfoHashes : torrents'[h] # None =>
          torrents'[h] \in DOMAIN swarm' /\ swarm'[torrents'[h]].hash = h
  <2>. SUFFICES ASSUME NEW h \in InfoHashes, torrents'[h] # None
                PROVE  torrents'[h] \in DOMAIN swarm' /\ swarm'[torrents'[h]].hash = h
    OBVIOUS
  <2>1. CASE h = r.hash
    BY <1>8, <1>7, <1>11, <2>1
  <2>2. CASE h # r.hash
    <3>1. torrents'[h] = torrents[h] /\ torrents[h] \in DOMAIN swarm
          /\ swarm[torrents[h]].hash = h
      BY <1>8, <2>2 DEF TInv
    <3>. QED
      BY <1>5, <1>7, <3>1
  <2>. QED
    BY <2>1, <2>2
<1>. QED
  BY <1>6, <1>8, <1>14, <1>15, <1>16, <1>12, <1>13, Assembled

LEMMA RelayInv ==
    ASSUME TInv, Relay
    PROVE  TInv'
<1>. DEFINE r == Head(jobs).req
            n == torrents[r.hash]
            w == IF destroyed THEN swarm[n] ELSE Get(swarm[n], r.to)
<1>1. /\ r \in Request /\ r.hash \in InfoHashes
      /\ Tail(jobs) \in Seq(Job) /\ Relayable(Tail(jobs), torrents)
  BY HeadJob DEF Relay
<1>2. n # None
  <2>1. jobs \in Seq(Job) /\ jobs # << >> /\ Relayable(jobs, torrents)
        /\ Head(jobs).step = "relay"
    BY DEF TInv, Relay
  <2>2. 1 \in 1 .. Len(jobs) /\ Head(jobs) = jobs[1]
    BY <2>1
  <2>. QED
    BY <2>1, <2>2 DEF Relayable
<1>3. n \in DOMAIN swarm /\ Counted(swarm[n])
  BY <1>1, <1>2 DEF TInv
<1>4. Counted(w) /\ w.hash = swarm[n].hash
  BY <1>3, GetCounted
<1>5. sock \in [Sockets -> Connection] /\ swarm = [m \in DOMAIN swarm |-> swarm[m]]
  BY DEF TInv
<1>6. /\ swarm' = [swarm EXCEPT ![n] = w] /\ jobs' = Tail(jobs)
      /\ sock' = Unlist(sock, Lost(swarm[n], w), r.hash)
      /\ torrents' = torrents /\ waiting' = waiting
  BY DEF Relay
<1>7. sock' \in [Sockets -> Connection]
  BY <1>5, <1>6, UnlistType
<1>. HIDE DEF w, n, r
<1>8. swarm' = [m \in DOMAIN swarm |-> IF m = n THEN w ELSE swarm[m]]
  BY <1>5, <1>6
<1>. QED
  BY <1>1, <1>3, <1>4, <1>6, <1>7, <1>8, OneSwarm

(* Expiry alone changes no counter.                                        *)
LEMMA ExpireCounted ==
    ASSUME NEW w, Counted(w), NEW id \in Members(w)
    PROVE  LET v == [w EXCEPT !.peers[id].stale = TRUE] IN Counted(v) /\ v.hash = w.hash
<1>. DEFINE v == [w EXCEPT !.peers[id].stale = TRUE]
            ps == [w.peers EXCEPT ![id].stale = TRUE]
<1>1. /\ w \in Swarm /\ w.peers[id] \in PeerData
      /\ w.peers \in [Members(w) -> PeerData] /\ Members(w) \subseteq Ids
      /\ w.complete = Cardinality(Seeders(w)) /\ w.incomplete = Cardinality(Leechers(w))
  BY SwarmSets DEF Counted, Swarm
<1>2. /\ v.hash = w.hash /\ v.peers = ps
      /\ v.complete = w.complete /\ v.incomplete = w.incomplete
  BY <1>1 DEF Swarm
<1>3. ps \in [Members(w) -> PeerData]
      /\ \A i \in Members(w) : ps[i].complete = w.peers[i].complete
  BY <1>1 DEF PeerData
<1>4. v \in Swarm
  <2>1. ps \in UNION {[ids -> PeerData] : ids \in SUBSET Ids}
    BY <1>1, <1>3
  <2>. HIDE DEF ps
  <2>2. v = [w EXCEPT !.peers = ps]
    BY DEF ps
  <2>. QED
    BY <1>1, <2>1, <2>2 DEF Swarm
<1>. HIDE DEF v, ps
<1>5. Members(v) = Members(w)
  BY <1>2, <1>3 DEF Members
<1>6. Seeders(v) = Seeders(w) /\ Leechers(v) = Leechers(w)
  BY <1>2, <1>3, <1>5 DEF Seeders, Leechers
<1>7. Counted(v)
  BY <1>1, <1>2, <1>4, <1>6 DEF Counted
<1>. QED
  BY <1>2, <1>7 DEF v

LEMMA ExpireInv ==
    ASSUME TInv, NEW n \in DOMAIN swarm, NEW id \in Members(swarm[n]), Expire(n, id)
    PROVE  TInv'
<1>. DEFINE w == [swarm[n] EXCEPT !.peers[id].stale = TRUE]
<1>1. Counted(w) /\ w.hash = swarm[n].hash
  BY ExpireCounted DEF TInv
<1>2. /\ swarm' = [swarm EXCEPT ![n].peers[id].stale = TRUE]
      /\ UNCHANGED <<torrents, sock, waiting, jobs>>
      /\ swarm = [m \in DOMAIN swarm |-> swarm[m]]
      /\ sock \in [Sockets -> Connection] /\ jobs \in Seq(Job) /\ Relayable(jobs, torrents)
  BY DEF Expire, TInv
<1>3. swarm' = [m \in DOMAIN swarm |-> IF m = n THEN w ELSE swarm[m]]
  BY <1>2
<1>4. Relayable(jobs', torrents) /\ jobs' \in Seq(Job) /\ sock' \in [Sockets -> Connection]
      /\ torrents' = torrents /\ waiting' = waiting
  BY <1>2
<1>. HIDE DEF w
<1>. QED
  BY <1>1, <1>3, <1>4, OneSwarm

(* A socket that closes stops its peer in several swarms.                  *)
LEMMA OnCloseInv ==
    ASSUME TInv, NEW s \in Sockets, OnClose(s)
    PROVE  TInv'
<1>. DEFINE told == {h \in sock[s].hashes : torrents[h] # None}
            stopped(h) == Stops(swarm[torrents[h]], sock[s].id)
            gone(t) == {h \in told : t \in Lost(swarm[torrents[h]], stopped(h))}
            hit(n) == \E h \in told : torrents[h] = n
<1>1. /\ swarm' = [n \in DOMAIN swarm |-> IF hit(n) THEN stopped(swarm[n].hash) ELSE swarm[n]]
      /\ sock' = [t \in Sockets |->
            IF t = s THEN [sock[s] EXCEPT !.open = FALSE, !.id = None, !.hashes = {}]
            ELSE [sock[t] EXCEPT !.hashes = @ \ gone(t)]]
      /\ torrents' = torrents /\ waiting' = waiting /\ jobs' = jobs
  BY DEF OnClose
<1>2. told \subseteq InfoHashes
  BY DEF TInv, Connection
<1>3. \A n \in DOMAIN swarm : Counted(swarm'[n]) /\ swarm'[n].hash = swarm[n].hash
  <2>. SUFFICES ASSUME NEW n \in DOMAIN swarm
                PROVE  Counted(swarm'[n]) /\ swarm'[n].hash = swarm[n].hash
    OBVIOUS
  <2>1. Counted(swarm[n])
    BY DEF TInv
  <2>2. CASE hit(n)
    <3>1. PICK h \in told : torrents[h] = n
      BY <2>2
    <3>2. swarm[n].hash = h
      BY <1>2, <3>1 DEF TInv
    <3>3. swarm'[n] = Stops(swarm[n], sock[s].id)
      BY <1>1, <2>2, <3>1, <3>2
    <3>. QED
      BY <2>1, <3>3, GetCounted
  <2>3. CASE ~hit(n)
    BY <1>1, <2>1, <2>3
  <2>. QED
    BY <2>2, <2>3
<1>4. sock' \in [Sockets -> Connection]
  <2>1. \A t \in Sockets :
          /\ [sock[t] EXCEPT !.open = FALSE, !.id = None, !.hashes = {}] \in Connection
          /\ \A g : [sock[t] EXCEPT !.hashes = @ \ g] \in Connection
    <3>1. \A t \in Sockets : sock[t] \in Connection
      BY DEF TInv
    <3>. QED
      BY <3>1 DEF Connection
  <2>. HIDE DEF gone
  <2>. QED
    BY <1>1, <2>1
<1>5. DOMAIN swarm' = DOMAIN swarm /\ swarm' = [n \in DOMAIN swarm' |-> swarm'[n]]
  BY <1>1
<1>. HIDE DEF told, stopped, gone, hit
<1>6. jobs' \in Seq(Job) /\ Relayable(jobs', torrents') /\ waiting' \subseteq Request
      /\ torrents' = [h \in InfoHashes |-> torrents'[h]]
      /\ \E k \in Nat : DOMAIN swarm' = 1 .. k
  BY <1>1, <1>5 DEF TInv
<1>7. \A n \in DOMAIN swarm' : n # None /\ Counted(swarm'[n])
  BY <1>3, <1>5 DEF TInv
<1>8. \A h \in InfoHashes : torrents'[h] # None =>
        torrents'[h] \in DOMAIN swarm' /\ swarm'[torrents'[h]].hash = h
  BY <1>1, <1>3, <1>5 DEF TInv
<1>. QED
  BY <1>4, <1>5, <1>6, <1>7, <1>8, Assembled

LEMMA NextTInv == TInv /\ [Next]_vars => TInv'
<1>. SUFFICES ASSUME TInv, [Next]_vars PROVE TInv'
  OBVIOUS
<1>1. ASSUME NEW r \in Request, Arrive(r) PROVE TInv'
  BY <1>1, ArriveInv
<1>2. ASSUME NEW r \in waiting, NEW passes \in BOOLEAN, FilterAnswers(r, passes) PROVE TInv'
  BY <1>2, FilterAnswersInv
<1>3. CASE GetSwarm
  BY <1>3, GetSwarmInv
<1>4. CASE CreateSwarm
  BY <1>4, CreateSwarmInv
<1>5. CASE Relay
  BY <1>5, RelayInv
<1>6. ASSUME NEW n \in DOMAIN swarm, NEW id \in Members(swarm[n]), Expire(n, id) PROVE TInv'
  BY <1>6, ExpireInv
<1>7. ASSUME NEW s \in Sockets, OnClose(s) PROVE TInv'
  BY <1>7, OnCloseInv
<1>8. CASE Close \/ UNCHANGED vars
  <2>1. UNCHANGED <<torrents, swarm, sock, waiting, jobs>>
    BY <1>8 DEF Close, vars
  <2>2. /\ sock' \in [Sockets -> Connection] /\ waiting' \subseteq Request
        /\ jobs' \in Seq(Job) /\ Relayable(jobs', torrents)
    BY <2>1 DEF TInv
  <2>. QED
    BY <2>1, <2>2, SameTables
<1>. QED
  BY <1>1, <1>2, <1>3, <1>4, <1>5, <1>6, <1>7, <1>8 DEF Next

(* The counters of every Swarm object, also of one that createSwarm has    *)
(* replaced, are the numbers of its seeders and of its leechers in every   *)
(* state, whatever peers announce, in whatever order and with whatever     *)
(* evictions, expiries, closing sockets and racing lookups.                *)
THEOREM CountsRight == Spec => []CountsAgree
<1>1. TInv => CountsAgree
  <2>. SUFFICES ASSUME TInv, NEW n \in DOMAIN swarm
                PROVE  Scrape(swarm[n]) =
                         [complete   |-> Cardinality(Seeders(swarm[n])),
                          incomplete |-> Cardinality(Members(swarm[n]) \ Seeders(swarm[n]))]
    BY DEF CountsAgree
  <2>1. Counted(swarm[n])
    BY DEF TInv
  <2>. QED
    BY <2>1 DEF Counted, Scrape, Leechers
<1>. QED
  BY <1>1, InitTInv, NextTInv, PTL DEF Spec

-----------------------------------------------------------------------------
(* A socket that one peer has announced on is that peer's.                 *)
Owned(sk, id, s) == s \in Sockets /\ (sk[s].shared \/ ~sk[s].open \/ sk[s].id = id)

(* The members of a swarm are bound to their own sockets, and those the    *)
(* server hands out leave with them.                                       *)
Held(sk, w) ==
    \A id \in Members(w) : IF id \in WsIds THEN Owned(sk, id, w.peers[id].on)
                           ELSE w.peers[id].on = None

Leaves(sk, s, h, flt) ==
    (sk[s].open /\ h \in sk[s].hashes) \/ (flt /\ ~sk[s].open) \/ sk[s].shared

Live(sk, w, h, flt) == \A id \in Handed(w) : Leaves(sk, w.peers[id].on, h, flt)

(* Those who ask, too.                                                     *)
Asks(sk, r) == r.on # None => Owned(sk, r.id, r.on)

Asking(sk, js) == \A i \in 1 .. Len(js) : Asks(sk, js[i].req)

(* Without a filter, what is done in one tick was asked on one connection, *)
(* which is open, and a swarm that was made in this tick has peers of this *)
(* connection only.                                                        *)
Ticked(sk, r, creates, ts, sw) ==
    /\ r.on # None => sk[r.on].open
    /\ creates /\ ts[r.hash] # None =>
          \A id \in Members(sw[ts[r.hash]]) : sw[ts[r.hash]].peers[id].on = r.on

OneTick(sk, js, ts, sw) ==
    /\ \A i, j \in 1 .. Len(js) : js[i].req.on = js[j].req.on
    /\ \A i \in 1 .. Len(js) : Ticked(sk, js[i].req, js[i].step = "create", ts, sw)

(* The inductive invariant of PeersKept.                                   *)
BInv ==
    /\ TInv
    /\ filtered \in BOOLEAN
    /\ ~filtered => waiting = {} /\ OneTick(sock, jobs, torrents, swarm)
    /\ \A r \in waiting : Asks(sock, r)
    /\ Asking(sock, jobs)
    /\ \A h \in InfoHashes : torrents[h] # None =>
          /\ Held(sock, swarm[torrents[h]])
          /\ ~destroyed => Live(sock, swarm[torrents[h]], h, filtered)

LEMMA RequestSocket ==
    ASSUME NEW r \in Request
    PROVE  IF r.on = None THEN r.id \in Ids \ WsIds ELSE r.on \in Sockets /\ r.id \in WsIds
  BY ServerAssumption DEF Request, Requested, Ids

LEMMA DropPeers ==
    ASSUME NEW w \in Swarm, NEW id
    PROVE  /\ Members(Drop(w, id)) = Members(w) \ {id}
           /\ \A i \in Members(w) \ {id} : Drop(w, id).peers[i] = w.peers[i]
<1>. DEFINE ps == [i \in Members(w) \ {id} |-> w.peers[i]]
<1>1. Drop(w, id).peers = ps
  BY DEF Drop, Swarm
<1>2. DOMAIN ps = Members(w) \ {id} /\ \A i \in Members(w) \ {id} : ps[i] = w.peers[i]
  OBVIOUS
<1>. HIDE DEF ps
<1>3. Members(Drop(w, id)) = DOMAIN ps
  BY <1>1 DEF Members
<1>. QED
  BY <1>1, <1>2, <1>3

(* peers.get and 'stopped' leave the other members as they are.            *)
LEMMA GetPeers ==
    ASSUME NEW w \in Swarm, NEW x
    PROVE  /\ Members(Get(w, x)) \subseteq Members(w)
           /\ \A id \in Members(Get(w, x)) : Get(w, x).peers[id] = w.peers[id]
           /\ x \in Members(Get(w, x)) => ~w.peers[x].stale
           /\ Members(Stops(w, x)) = Members(w) \ {x}
           /\ \A id \in Members(Stops(w, x)) : Stops(w, x).peers[id] = w.peers[id]
  BY DropPeers DEF Get, Stops

(* Who is a member after an announce: the announcing peer, if it came      *)
(* anew, and members from before.                                          *)
LEMMA AnnouncedPeers ==
    ASSUME NEW w0, Counted(w0), NEW r \in Request, NEW w1, w1 = Get(w0, r.id),
           NEW w \in Announced(w1, r), NEW id \in Members(w)
    PROVE  \/ /\ id \in Members(w0) \cap Members(w1) /\ w.peers[id].on = w0.peers[id].on
              /\ ~w.peers[id].stale => ~w0.peers[id].stale
           \/ id = r.id /\ r.event # "other" /\ w.peers[id].on = r.on
<1>1. w0 \in Swarm /\ w1 \in Swarm
  BY GetCounted DEF Counted
<1>2. /\ Members(w1) \subseteq Members(w0)
      /\ \A i \in Members(w1) : w1.peers[i] = w0.peers[i]
      /\ r.id \in Members(w1) => ~w0.peers[r.id].stale
  BY <1>1, GetPeers
<1>3. CASE r.event = "other"
  BY <1>2, <1>3 DEF Announced
<1>4. CASE r.event = "stopped"
  <2>1. w = Stops(w1, r.id)
    BY <1>4 DEF Announced, Stops
  <2>. QED
    BY <1>1, <1>2, <2>1, GetPeers
<1>5. CASE r.event \notin {"other", "stopped"} /\ r.id \notin Members(w1)
  <2>. DEFINE p == [complete |-> r.done, on |-> r.on, stale |-> FALSE]
              u == [Put(w1, r.id, p) EXCEPT !.complete   = @ + One(r.done),
                                            !.incomplete = @ + One(~r.done)]
  <2>1. u \in Swarm /\ u.peers = [i \in Members(w1) \cup {r.id} |-> IF i = r.id THEN p ELSE w1.peers[i]]
    <3>1. Counted(w1) /\ r.id \in Ids \ Members(w1) /\ p \in PeerData /\ r.done = p.complete
      BY <1>5, GetCounted, RequestFields DEF PeerData
    <3>2. Counted(Join(w1, r.id, p)) /\ u = Join(w1, r.id, p)
      BY <3>1, JoinCounted DEF Join
    <3>3. u.peers = [i \in Members(w1) \cup {r.id} |-> IF i = r.id THEN p ELSE w1.peers[i]]
      BY <1>1 DEF Put, Swarm
    <3>. QED
      BY <3>2, <3>3 DEF Counted
  <2>2. w = u \/ \E x \in Members(w1) : w = Drop(u, x)
    BY <1>5 DEF Announced, Start
  <2>. HIDE DEF u
  <2>3. id \in Members(u) /\ w.peers[id] = u.peers[id]
    <3>1. CASE w = u
      BY <3>1
    <3>2. ASSUME NEW x \in Members(w1), w = Drop(u, x)
          PROVE  id \in Members(u) /\ w.peers[id] = u.peers[id]
      <4>1. Members(w) = Members(u) \ {x} /\ \A i \in Members(u) \ {x} : w.peers[i] = u.peers[i]
        <5>1. u \in Swarm
          BY <2>1
        <5>2. /\ Members(Drop(u, x)) = Members(u) \ {x}
              /\ \A i \in Members(u) \ {x} : Drop(u, x).peers[i] = u.peers[i]
          BY <5>1, DropPeers
        <5>. QED
          BY <3>2, <5>2
      <4>. QED
        BY <4>1
    <3>. QED
      BY <2>2, <3>1, <3>2
  <2>4. Members(u) = Members(w1) \cup {r.id} /\ u.peers[r.id].on = r.on
        /\ \A i \in Members(w1) : u.peers[i] = w1.peers[i]
    BY <1>5, <2>1 DEF Members
  <2>. QED
    BY <1>2, <1>5, <2>3, <2>4
<1>6. CASE r.event \notin {"other", "stopped"} /\ r.id \in Members(w1)
  <2>. DEFINE p == w1.peers[r.id]
              done == r.event = "completed" \/ r.done
              q == [p EXCEPT !.complete = @ \/ done, !.stale = FALSE]
  <2>1. w = Refresh(w1, r, done)
    BY <1>6 DEF Announced
  <2>2. w.peers = [i \in Members(w1) \cup {r.id} |-> IF i = r.id THEN q ELSE w1.peers[i]]
    BY <1>1, <2>1 DEF Refresh, Put, Swarm
  <2>3. q.on = p.on
    <3>1. p \in PeerData
      BY <1>1, <1>6, SwarmSets
    <3>. QED
      BY <3>1 DEF PeerData
  <2>4. id \in Members(w1) /\ w.peers[id] = IF id = r.id THEN q ELSE w1.peers[id]
    BY <1>6, <2>2 DEF Members
  <2>. HIDE DEF q
  <2>. QED
    BY <1>2, <2>3, <2>4
<1>. QED
  BY <1>3, <1>4, <1>5, <1>6

(* A socket forgets the info hash with its own peer only, or is shared.    *)
LEMMA UnlistLeaves ==
    ASSUME NEW sk \in [Sockets -> Connection], NEW w \in Swarm, Held(sk, w),
           NEW gone \in SUBSET Members(w), NEW h, NEW flt,
           NEW id \in Members(w) \ gone, id \in WsIds,
           Leaves(sk, w.peers[id].on, h, flt)
    PROVE  Leaves(Unlist(sk, {w.peers[i].on : i \in gone}, h), w.peers[id].on, h, flt)
<1>. DEFINE s == w.peers[id].on
            lost == {w.peers[i].on : i \in gone}
<1>1. s \in Sockets /\ Owned(sk, id, s)
  BY DEF Held, Owned
<1>2. /\ Unlist(sk, lost, h)[s].open = sk[s].open /\ Unlist(sk, lost, h)[s].shared = sk[s].shared
      /\ s \notin lost => Unlist(sk, lost, h)[s] = sk[s]
  <2>1. sk[s] \in Connection
    BY <1>1
  <2>. QED
    BY <1>1, <2>1 DEF Unlist, Connection
<1>3. sk[s].open /\ ~sk[s].shared => s \notin lost
  <2>. SUFFICES ASSUME sk[s].open, ~sk[s].shared, NEW i \in gone, w.peers[i].on = s
                PROVE  FALSE
    OBVIOUS
  <2>1. i \in WsIds /\ Owned(sk, i, s)
    BY <1>1, ServerAssumption DEF Held
  <2>. QED
    BY <1>1, <2>1 DEF Owned
<1>. HIDE DEF s, lost
<1>. QED
  BY <1>2, <1>3 DEF Leaves, s, lost

(* Only the entries of one info hash differ.                               *)
SameElse(sk, sl, h) ==
    \A s \in Sockets :
        /\ sl[s].open = sk[s].open /\ sl[s].shared = sk[s].shared /\ sl[s].id = sk[s].id
        /\ sl[s].hashes \ {h} = sk[s].hashes \ {h}

LEMMA ElseKept ==
    ASSUME NEW sk, NEW sl, NEW h, SameElse(sk, sl, h)
    PROVE  /\ \A id, s : Owned(sk, id, s) => Owned(sl, id, s)
           /\ \A w : Held(sk, w) => Held(sl, w)
           /\ \A r : Asks(sk, r) => Asks(sl, r)
           /\ \A js : Asking(sk, js) => Asking(sl, js)
<1>1. \A id, s : Owned(sk, id, s) => Owned(sl, id, s)
  BY DEF SameElse, Owned
<1>2. \A w : Held(sk, w) => Held(sl, w)
  BY <1>1 DEF Held
<1>3. \A r : Asks(sk, r) => Asks(sl, r)
  BY <1>1 DEF Asks
<1>. QED
  BY <1>1, <1>2, <1>3 DEF Asking

LEMMA ElseLeaves ==
    ASSUME NEW sk, NEW sl, NEW h, SameElse(sk, sl, h), NEW w, Held(sk, w), NEW flt,
           NEW g, g # h, Live(sk, w, g, flt)
    PROVE  Live(sl, w, g, flt)
<1>. SUFFICES ASSUME NEW id \in Handed(w)
              PROVE  Leaves(sl, w.peers[id].on, g, flt)
  BY DEF Live
<1>1. w.peers[id].on \in Sockets /\ Leaves(sk, w.peers[id].on, g, flt)
  BY DEF Live, Held, Handed, Owned
<1>. QED
  BY <1>1 DEF Leaves, SameElse

LEMMA UnlistElse ==
    ASSUME NEW sk \in [Sockets -> Connection], NEW lost, NEW h
    PROVE  /\ SameElse(sk, Unlist(sk, lost, h), h)
           /\ \A r : r.on \in Sockets /\ r.hash = h => SameElse(sk, Listed(sk, lost, r), h)
<1>1. \A s \in Sockets : sk[s] \in Connection
  OBVIOUS
<1>2. SameElse(sk, Unlist(sk, lost, h), h)
  BY <1>1 DEF SameElse, Unlist, Connection
<1>3. ASSUME NEW r, r.on \in Sockets, r.hash = h
      PROVE  SameElse(sk, Listed(sk, lost, r), h)
  <2>1. Unlist(sk, lost, h) \in [Sockets -> Connection]
    BY UnlistType
  <2>2. SameElse(Unlist(sk, lost, h), Listed(sk, lost, r), h)
    BY <1>3, <2>1 DEF SameElse, Listed, Connection
  <2>. QED
    BY <1>2, <2>2 DEF SameElse
<1>. QED
  BY <1>2, <1>3

(* What an announce leaves is bound to sockets.                            *)
Served(sk, w0, w, r) ==
    LET w1   == Get(w0, r.id)
        lost == Lost(w0, w1) \cup Lost(w1, w)
    IN  IF r.on # None /\ r.event # "other" /\ sk[r.on].open
        THEN Listed(sk, lost, r) ELSE Unlist(sk, lost, r.hash)

LEMMA FinishedBound ==
    ASSUME NEW sk \in [Sockets -> Connection], NEW w0, Counted(w0), NEW r \in Request,
           Held(sk, w0), Asks(sk, r), NEW w \in Announced(Get(w0, r.id), r),
           NEW flt, Live(sk, w0, r.hash, flt), r.on # None => flt \/ sk[r.on].open
    PROVE  Live(Served(sk, w0, w, r), w, r.hash, flt)
<1>. DEFINE h == r.hash
            w1 == Get(w0, r.id)
            lost == Lost(w0, w1) \cup Lost(w1, w)
            sl == Served(sk, w0, w, r)
            gone == (Members(w0) \ Members(w1)) \cup (Members(w1) \ Members(w))
            left == Unlist(sk, lost, h)
<1>0. IF r.on # None /\ r.event # "other" /\ sk[r.on].open
      THEN sl = Listed(sk, lost, r) ELSE sl = Unlist(sk, lost, r.hash)
  BY DEF Served
<1>. HIDE DEF sl
<1>1. w0 \in Swarm /\ Members(w1) \subseteq Members(w0)
      /\ \A i \in Members(w1) : w1.peers[i] = w0.peers[i]
  BY GetPeers DEF Counted
<1>2. lost = {w0.peers[i].on : i \in gone} /\ gone \in SUBSET Members(w0)
  BY <1>1 DEF Lost
<1>3. left \in [Sockets -> Connection]
  BY UnlistType
<1>4. \A s : Leaves(left, s, h, flt) /\ s \in Sockets => Leaves(sl, s, h, flt)
  <2>1. r.on # None => r.on \in Sockets
    BY RequestSocket
  <2>2. \A s \in Sockets : /\ sl[s].open = left[s].open /\ sl[s].shared = left[s].shared
                           /\ h \in left[s].hashes => h \in sl[s].hashes
    <3>1. \A s \in Sockets : left[s] \in Connection
      BY <1>3
    <3>2. CASE r.on # None /\ r.event # "other" /\ sk[r.on].open
      <4>1. sl = [left EXCEPT ![r.on].hashes = @ \cup {h}]
        BY <1>0, <3>2 DEF Listed
      <4>. HIDE DEF left
      <4>. QED
        BY <1>3, <2>1, <3>1, <3>2, <4>1 DEF Connection
    <3>3. CASE ~(r.on # None /\ r.event # "other" /\ sk[r.on].open)
      BY <1>0, <3>3
    <3>. QED
      BY <3>2, <3>3
  <2>. QED
    BY <2>2 DEF Leaves
<1>. SUFFICES ASSUME NEW id \in Handed(w)
              PROVE  Leaves(sl, w.peers[id].on, h, flt)
  BY DEF Live, sl
<1>5. id \in WsIds /\ id \in Members(w) /\ ~w.peers[id].stale
  BY DEF Handed
<1>6. CASE id \in Members(w0) \cap Members(w1) /\ w.peers[id].on = w0.peers[id].on /\ ~w0.peers[id].stale
  <2>1. id \in Members(w0) \ gone
    BY <1>5, <1>6
  <2>2. Leaves(sk, w0.peers[id].on, h, flt)
    BY <1>5, <1>6 DEF Live, Handed
  <2>. HIDE DEF gone
  <2>3. Leaves(Unlist(sk, {w0.peers[i].on : i \in gone}, h), w0.peers[id].on, h, flt)
    BY <1>1, <1>2, <1>5, <2>1, <2>2, UnlistLeaves
  <2>4. w0.peers[id].on \in Sockets
    BY <1>5, <1>6 DEF Held, Owned
  <2>. QED
    BY <1>2, <1>4, <1>6, <2>3, <2>4
<1>7. CASE id = r.id /\ r.event # "other" /\ w.peers[id].on = r.on
  <2>1. r.on \in Sockets /\ r.on # None
    BY <1>5, <1>7, RequestSocket, ServerAssumption
  <2>2. CASE sk[r.on].open
    <3>1. sl = [left EXCEPT ![r.on].hashes = @ \cup {h}]
      BY <1>0, <1>7, <2>1, <2>2 DEF Listed
    <3>2. left[r.on] \in Connection
      BY <1>3, <2>1
    <3>4. left[r.on].open = sk[r.on].open
      BY <2>1, UnlistElse DEF SameElse
    <3>. HIDE DEF left
    <3>3. sl[r.on].open /\ h \in sl[r.on].hashes
      BY <1>3, <2>1, <2>2, <3>1, <3>2, <3>4 DEF Connection
    <3>. QED
      BY <1>7, <3>3 DEF Leaves
  <2>3. CASE ~sk[r.on].open
    <3>1. sl = left /\ left[r.on].open = sk[r.on].open
      BY <1>0, <2>1, <2>3, UnlistElse DEF SameElse
    <3>. HIDE DEF left
    <3>. QED
      BY <1>7, <2>1, <2>3, <3>1 DEF Leaves
  <2>. QED
    BY <2>2, <2>3
<1>. QED
  BY <1>5, <1>6, <1>7, AnnouncedPeers

LEMMA FinishedHeld ==
    ASSUME NEW sk, NEW w0, Counted(w0), NEW r \in Request, Held(sk, w0), Asks(sk, r),
           NEW w \in Announced(Get(w0, r.id), r)
    PROVE  Held(sk, w)
<1>. SUFFICES ASSUME NEW id \in Members(w)
              PROVE  IF id \in WsIds THEN Owned(sk, id, w.peers[id].on)
                     ELSE w.peers[id].on = None
  BY DEF Held
<1>1. CASE id \in Members(w0) /\ w.peers[id].on = w0.peers[id].on
  BY <1>1 DEF Held
<1>2. CASE id = r.id /\ w.peers[id].on = r.on
  BY <1>2, RequestSocket, ServerAssumption DEF Asks
<1>. QED
  BY <1>1, <1>2, AnnouncedPeers

-----------------------------------------------------------------------------
(* The queue, from its head on.                                            *)
LEMMA QueueParts ==
    ASSUME NEW js \in Seq(Job), js # << >>
    PROVE  /\ Len(js) \in Nat \ {0} /\ 1 \in 1 .. Len(js) /\ Head(js) = js[1]
           /\ Tail(js) \in Seq(Job)
           /\ \A i \in 1 .. Len(Tail(js)) : i + 1 \in 1 .. Len(js) /\ Tail(js)[i] = js[i + 1]
<1>1. Len(js) \in Nat \ {0} /\ Head(js) = js[1]
  BY HeadTailProperties, EmptySeq, LenProperties
<1>2. /\ Tail(js) \in Seq(Job) /\ Len(Tail(js)) = Len(js) - 1
      /\ \A i \in 1 .. Len(Tail(js)) : Tail(js)[i] = js[i + 1]
  BY HeadTailProperties
<1>. QED
  BY <1>1, <1>2

LEMMA AppendParts ==
    ASSUME NEW js \in Seq(Job), NEW j
    PROVE  \A i \in 1 .. Len(Append(js, j)) :
              \/ i \in 1 .. Len(js) /\ Append(js, j)[i] = js[i]
              \/ Append(js, j)[i] = j
  BY AppendProperties, LenProperties

LEMMA AskingQueue ==
    ASSUME NEW sk, NEW js \in Seq(Job), Asking(sk, js)
    PROVE  /\ js # << >> => Asks(sk, Head(js).req) /\ Asking(sk, Tail(js))
           /\ \A j : Asks(sk, j.req) => Asking(sk, Append(js, j))
<1>1. ASSUME js # << >> PROVE Asks(sk, Head(js).req) /\ Asking(sk, Tail(js))
  BY <1>1, QueueParts DEF Asking
<1>2. ASSUME NEW j, Asks(sk, j.req) PROVE Asking(sk, Append(js, j))
  BY <1>2, AppendParts DEF Asking
<1>. QED
  BY <1>1, <1>2

(* One more job of the tick.                                               *)
LEMMA TickAppend ==
    ASSUME NEW sk, NEW js \in Seq(Job), NEW ts, NEW sw, OneTick(sk, js, ts, sw),
           NEW j, \A i \in 1 .. Len(js) : js[i].req.on = j.req.on,
           j.req.on # None => sk[j.req.on].open,
           j.step = "create" => ts[j.req.hash] = None
    PROVE  OneTick(sk, Append(js, j), ts, sw)
<1>. DEFINE js2 == Append(js, j)
<1>1. \A i \in 1 .. Len(js2) : (i \in 1 .. Len(js) /\ js2[i] = js[i]) \/ js2[i] = j
  BY AppendParts
<1>. HIDE DEF js2
<1>2. \A i, k \in 1 .. Len(js2) : js2[i].req.on = js2[k].req.on
  BY <1>1
<1>3. Ticked(sk, j.req, j.step = "create", ts, sw)
  BY DEF Ticked
<1>4. \A i \in 1 .. Len(js2) : Ticked(sk, js2[i].req, js2[i].step = "create", ts, sw)
  BY <1>1, <1>3 DEF OneTick
<1>. QED
  BY <1>2, <1>4 DEF OneTick, js2

LEMMA TickTail ==
    ASSUME NEW sk, NEW js \in Seq(Job), js # << >>, NEW ts, NEW sw, OneTick(sk, js, ts, sw)
    PROVE  /\ OneTick(sk, Tail(js), ts, sw)
           /\ \A i \in 1 .. Len(Tail(js)) : Tail(js)[i].req.on = Head(js).req.on
           /\ Head(js).req.on # None => sk[Head(js).req.on].open
<1>. DEFINE js2 == Tail(js)
<1>1. 1 \in 1 .. Len(js) /\ Head(js) = js[1]
      /\ \A i \in 1 .. Len(js2) : i + 1 \in 1 .. Len(js) /\ js2[i] = js[i + 1]
  BY QueueParts
<1>. HIDE DEF js2
<1>2. OneTick(sk, js2, ts, sw)
  <2>1. \A i, k \in 1 .. Len(js2) : js2[i].req.on = js2[k].req.on
    BY <1>1 DEF OneTick
  <2>2. ASSUME NEW i \in 1 .. Len(js2)
        PROVE  Ticked(sk, js2[i].req, js2[i].step = "create", ts, sw)
    <3>1. i + 1 \in 1 .. Len(js) /\ js2[i] = js[i + 1]
      BY <1>1
    <3>2. Ticked(sk, js[i + 1].req, js[i + 1].step = "create", ts, sw)
      BY <3>1 DEF OneTick
    <3>. QED
      BY <3>1, <3>2
  <2>. QED
    BY <2>1, <2>2 DEF OneTick
<1>3. /\ \A i \in 1 .. Len(js2) : js2[i].req.on = Head(js).req.on
      /\ Head(js).req.on # None => sk[Head(js).req.on].open
  BY <1>1 DEF OneTick, Ticked
<1>. QED
  BY <1>2, <1>3 DEF js2

(* The swarms of a tick keep the members they had and take in those of the *)
(* tick's connection.                                                      *)
Taken(ts, sw, tt, sx, on) ==
    \A h \in InfoHashes : tt[h] # None => \A id \in Members(sx[tt[h]]) :
        \/ /\ ts[h] # None /\ id \in Members(sw[ts[h]])
           /\ sx[tt[h]].peers[id].on = sw[ts[h]].peers[id].on
        \/ sx[tt[h]].peers[id].on = on

SameOpen(sk, sl) == \A s \in Sockets : sl[s].open = sk[s].open

LEMMA TickSwarms ==
    ASSUME NEW sk, NEW sl, SameOpen(sk, sl),
           NEW js \in Seq(Job), NEW on, \A i \in 1 .. Len(js) : js[i].req.on = on,
           NEW ts, NEW sw, OneTick(sk, js, ts, sw), NEW tt, NEW sx, Taken(ts, sw, tt, sx, on)
    PROVE  OneTick(sl, js, tt, sx)
<1>1. \A i \in 1 .. Len(js) : js[i].req.hash \in InfoHashes /\ js[i].req.on \in Sockets \cup {None}
  <2>1. \A i \in 1 .. Len(js) : js[i] \in Job
    BY ElementOfSeq
  <2>. QED
    BY <2>1, RequestFields DEF Job
<1>2. ASSUME NEW i \in 1 .. Len(js)
      PROVE  Ticked(sl, js[i].req, js[i].step = "create", tt, sx)
  <2>. DEFINE r == js[i].req
              creates == js[i].step = "create"
  <2>1. Ticked(sk, r, creates, ts, sw) /\ r.hash \in InfoHashes /\ r.on \in Sockets \cup {None}
        /\ r.on = on
    BY <1>1 DEF OneTick
  <2>. HIDE DEF r, creates
  <2>2. ASSUME creates, tt[r.hash] # None, NEW id \in Members(sx[tt[r.hash]])
        PROVE  sx[tt[r.hash]].peers[id].on = r.on
    <3>1. CASE sx[tt[r.hash]].peers[id].on = on
      BY <2>1, <3>1
    <3>2. CASE /\ ts[r.hash] # None /\ id \in Members(sw[ts[r.hash]])
               /\ sx[tt[r.hash]].peers[id].on = sw[ts[r.hash]].peers[id].on
      BY <2>1, <2>2, <3>2 DEF Ticked
    <3>. QED
      BY <2>1, <2>2, <3>1, <3>2 DEF Taken
  <2>3. r.on # None => sl[r.on].open
    BY <2>1 DEF Ticked, SameOpen
  <2>4. Ticked(sl, r, creates, tt, sx)
    BY <2>2, <2>3 DEF Ticked
  <2>. QED
    BY <2>4 DEF r, creates
<1>3. \A i, k \in 1 .. Len(js) : js[i].req.on = js[k].req.on
  OBVIOUS
<1>. QED
  BY <1>2, <1>3 DEF OneTick

LEMMA NoTick == \A sk, ts, sw : OneTick(sk, << >>, ts, sw) /\ Asking(sk, << >>)
  BY DEF OneTick, Asking

-----------------------------------------------------------------------------
(* An announce and its answer, on a swarm that was there or on a new one.  *)
LEMMA ServedBound ==
    ASSUME BInv, jobs # << >>, NEW r, r = Head(jobs).req, NEW n, NEW w0,
           Counted(w0), w0.hash = r.hash, Held(sock, w0),
           ~destroyed => Live(sock, w0, r.hash, filtered),
           Members(w0) = {} \/ (torrents[r.hash] = n /\ n # None /\ w0 = swarm[n]),
           \A h \in InfoHashes : h # r.hash /\ torrents[h] # None => torrents[h] # n,
           Finish(n, w0, r, Tail(jobs)),
           \A h \in InfoHashes : torrents'[h] = IF h = r.hash THEN n ELSE torrents[h],
           UNCHANGED <<filtered, waiting, destroyed>>, TInv'
    PROVE  BInv'
<1>1. /\ r \in Request /\ r.hash \in InfoHashes /\ Tail(jobs) \in Seq(Job)
      /\ sock \in [Sockets -> Connection] /\ jobs \in Seq(Job)
  BY HeadJob DEF BInv, TInv
<1>2. Asks(sock, r) /\ Asking(sock, Tail(jobs))
  BY <1>1, AskingQueue DEF BInv
<1>. DEFINE w1 == Get(w0, r.id)
            later == [req |-> r, step |-> "relay"]
<1>3. PICK w \in Announced(w1, r) :
          LET reply == r.on # None /\ ~destroyed /\ r.event # "other" /\ sock[r.on].open
              lost  == Lost(w0, w1) \cup Lost(w1, w)
          IN  /\ swarm' = [m \in DOMAIN swarm \cup {n} |-> IF m = n THEN w ELSE swarm[m]]
              /\ sock' = IF reply THEN Listed(sock, lost, r) ELSE Unlist(sock, lost, r.hash)
              /\ jobs' \in {Tail(jobs), Append(Tail(jobs), later)}
  BY DEF Finish, Listed
<1>4. SameElse(sock, sock', r.hash)
  BY <1>1, <1>3, RequestSocket, UnlistElse
<1>5. Held(sock, w) /\ Held(sock', w)
  BY <1>1, <1>2, <1>3, <1>4, FinishedHeld, ElseKept
<1>6. ~destroyed => Live(sock', w, r.hash, filtered)
  <2>. SUFFICES ASSUME ~destroyed PROVE Live(sock', w, r.hash, filtered)
    OBVIOUS
  <2>1. Live(sock, w0, r.hash, filtered)
    OBVIOUS
  <2>2. r.on # None => filtered \/ sock[r.on].open
    BY <1>1, TickTail DEF BInv
  <2>3. sock' = Served(sock, w0, w, r)
    BY <1>3 DEF Served
  <2>4. w \in Announced(Get(w0, r.id), r)
    BY <1>3
  <2>5. Live(Served(sock, w0, w, r), w, r.hash, filtered)
    BY <1>1, <1>2, <2>1, <2>2, <2>4, FinishedBound
  <2>. QED
    BY <2>3, <2>5
<1>. HIDE DEF w1
<1>7. ASSUME NEW h \in InfoHashes, torrents'[h] # None
      PROVE  /\ Held(sock', swarm'[torrents'[h]])
             /\ ~destroyed => Live(sock', swarm'[torrents'[h]], h, filtered)
  <2>1. CASE h = r.hash
    BY <1>3, <1>5, <1>6, <2>1
  <2>2. CASE h # r.hash
    <3>1. torrents'[h] = torrents[h] /\ torrents[h] \in DOMAIN swarm /\ torrents[h] # n
      BY <1>7, <2>2 DEF BInv, TInv
    <3>2. swarm'[torrents'[h]] = swarm[torrents[h]]
      BY <1>3, <3>1
    <3>3. Held(sock, swarm[torrents[h]]) /\ (~destroyed => Live(sock, swarm[torrents[h]], h, filtered))
      BY <1>7, <3>1 DEF BInv
    <3>. QED
      BY <1>4, <2>2, <3>2, <3>3, ElseKept, ElseLeaves
  <2>. QED
    BY <2>1, <2>2
<1>8. Asking(sock', jobs') /\ \A q \in waiting : Asks(sock', q)
  <2>1. Asking(sock, Append(Tail(jobs), later))
    BY <1>1, <1>2, AskingQueue
  <2>. HIDE DEF later
  <2>2. Asking(sock, jobs')
    BY <1>2, <1>3, <2>1
  <2>. QED
    BY <1>4, <2>2, ElseKept DEF BInv
<1>9. ASSUME ~filtered PROVE OneTick(sock', jobs', torrents', swarm')
  <2>1. OneTick(sock, jobs, torrents, swarm)
    BY <1>9 DEF BInv
  <2>2. /\ OneTick(sock, Tail(jobs), torrents, swarm)
        /\ \A i \in 1 .. Len(Tail(jobs)) : Tail(jobs)[i].req.on = r.on
        /\ r.on # None => sock[r.on].open
    BY <1>1, <2>1, TickTail
  <2>3. /\ later.req = r /\ later.step = "relay" /\ later \in Job
    BY <1>1 DEF Job
  <2>. HIDE DEF later
  <2>4. OneTick(sock, Append(Tail(jobs), later), torrents, swarm)
    <3>1. /\ \A i \in 1 .. Len(Tail(jobs)) : Tail(jobs)[i].req.on = later.req.on
          /\ later.req.on # None => sock[later.req.on].open
          /\ later.step # "create"
      BY <2>2, <2>3
    <3>. QED
      BY <1>1, <2>2, <3>1, TickAppend
  <2>5. jobs' \in Seq(Job) /\ OneTick(sock, jobs', torrents, swarm)
        /\ \A i \in 1 .. Len(jobs') : jobs'[i].req.on = r.on
    <3>1. \A i \in 1 .. Len(Append(Tail(jobs), later)) : Append(Tail(jobs), later)[i].req.on = r.on
      BY <1>1, <2>2, <2>3, AppendParts
    <3>2. Append(Tail(jobs), later) \in Seq(Job)
      BY <1>1, <2>3
    <3>. QED
      BY <1>1, <1>3, <2>2, <2>4, <3>1, <3>2
  <2>6. Taken(torrents, swarm, torrents', swarm', r.on)
    <3>. SUFFICES ASSUME NEW h \in InfoHashes, torrents'[h] # None,
                         NEW id \in Members(swarm'[torrents'[h]])
                  PROVE  \/ /\ torrents[h] # None /\ id \in Members(swarm[torrents[h]])
                            /\ swarm'[torrents'[h]].peers[id].on = swarm[torrents[h]].peers[id].on
                         \/ swarm'[torrents'[h]].peers[id].on = r.on
      BY DEF Taken
    <3>1. CASE h = r.hash
      <4>1. torrents'[h] = n /\ swarm'[n] = w /\ id \in Members(w)
        BY <1>3, <3>1
      <4>2. \/ id \in Members(w0) /\ w.peers[id].on = w0.peers[id].on
            \/ w.peers[id].on = r.on
        BY <1>1, <1>3, <4>1, AnnouncedPeers DEF w1
      <4>. QED
        BY <3>1, <4>1, <4>2
    <3>2. CASE h # r.hash
      <4>1. torrents'[h] = torrents[h] /\ torrents[h] \in DOMAIN swarm /\ torrents[h] # n
        BY <3>2 DEF BInv, TInv
      <4>. QED
        BY <1>3, <4>1
    <3>. QED
      BY <3>1, <3>2
  <2>7. SameOpen(sock, sock')
    BY <1>4 DEF SameElse, SameOpen
  <2>. QED
    BY <2>5, <2>6, <2>7, TickSwarms
<1>10. ~filtered => waiting = {}
  BY DEF BInv
<1>11. filtered \in BOOLEAN
  BY DEF BInv
<1>. QED
  BY <1>7, <1>8, <1>9, <1>10, <1>11 DEF BInv

LEMMA GetSwarmBound ==
    ASSUME BInv, GetSwarm
    PROVE  BInv'
<1>. DEFINE r == Head(jobs).req
            n == torrents[r.hash]
<1>1. TInv /\ TInv'
  BY NextTInv DEF BInv, Next
<1>2. /\ r \in Request /\ r.hash \in InfoHashes /\ jobs # << >> /\ Tail(jobs) \in Seq(Job)
      /\ jobs \in Seq(Job)
  BY <1>1, HeadJob DEF GetSwarm, TInv
<1>3. UNCHANGED <<torrents, filtered, waiting, destroyed>>
  BY DEF GetSwarm
<1>4. CASE n # None
  <2>1. Finish(n, swarm[n], r, Tail(jobs))
    BY <1>4 DEF GetSwarm
  <2>2. Counted(swarm[n]) /\ swarm[n].hash = r.hash
    BY <1>1, <1>2, <1>4 DEF TInv
  <2>3. Held(sock, swarm[n]) /\ (~destroyed => Live(sock, swarm[n], r.hash, filtered))
    BY <1>2, <1>4 DEF BInv
  <2>4. \A h \in InfoHashes : h # r.hash /\ torrents[h] # None => torrents[h] # n
    BY <1>1, <2>2 DEF TInv
  <2>5. \A h \in InfoHashes : torrents'[h] = IF h = r.hash THEN n ELSE torrents[h]
    BY <1>3
  <2>6. r = Head(jobs).req /\ torrents[r.hash] = n /\ n # None
    BY <1>4
  <2>. HIDE DEF r, n
  <2>. QED
    BY <1>1, <1>2, <1>3, <2>1, <2>2, <2>3, <2>4, <2>5, <2>6, ServedBound
<1>5. CASE n = None
  <2>. DEFINE j == [req |-> r, step |-> "create"]
  <2>1. jobs' = Append(Tail(jobs), j) /\ sock' = sock /\ swarm' = swarm
    BY <1>5 DEF GetSwarm
  <2>2. j.req = r /\ j.step = "create"
    OBVIOUS
  <2>. HIDE DEF j
  <2>3. Asks(sock, r) /\ Asking(sock, Tail(jobs))
    BY <1>2, AskingQueue DEF BInv
  <2>4. Asking(sock, jobs')
    BY <1>2, <2>1, <2>2, <2>3, AskingQueue
  <2>5. ASSUME ~filtered PROVE OneTick(sock, jobs', torrents, swarm)
    <3>1. /\ OneTick(sock, Tail(jobs), torrents, swarm)
          /\ \A i \in 1 .. Len(Tail(jobs)) : Tail(jobs)[i].req.on = r.on
          /\ r.on # None => sock[r.on].open
      BY <1>2, <2>5, TickTail DEF BInv
    <3>2. /\ \A i \in 1 .. Len(Tail(jobs)) : Tail(jobs)[i].req.on = j.req.on
          /\ j.req.on # None => sock[j.req.on].open
          /\ torrents[j.req.hash] = None
      BY <1>5, <2>2, <3>1
    <3>. QED
      BY <1>2, <2>1, <3>1, <3>2, TickAppend
  <2>. HIDE DEF n, r
  <2>. QED
    BY <1>1, <1>3, <2>1, <2>4, <2>5 DEF BInv
<1>. QED
  BY <1>4, <1>5

LEMMA CreateSwarmBound ==
    ASSUME BInv, CreateSwarm
    PROVE  BInv'
<1>. DEFINE r == Head(jobs).req
            n == Cardinality(DOMAIN swarm) + 1
            w0 == NewSwarm(r.hash)
<1>1. TInv /\ TInv'
  BY NextTInv DEF BInv, Next
<1>2. r \in Request /\ r.hash \in InfoHashes /\ jobs # << >>
  BY <1>1, HeadJob DEF CreateSwarm
<1>3. UNCHANGED <<filtered, waiting, destroyed>> /\ Finish(n, w0, r, Tail(jobs))
  BY DEF CreateSwarm
<1>4. PICK k \in Nat : DOMAIN swarm = 1 .. k
  BY <1>1 DEF TInv
<1>5. n = k + 1
  BY <1>4, FS_Interval, Cardinality(1 .. k) = k
<1>6. \A h \in InfoHashes : h # r.hash /\ torrents[h] # None => torrents[h] # n
  BY <1>1, <1>4, <1>5 DEF TInv
<1>. HIDE DEF n
<1>7. \A h \in InfoHashes : torrents'[h] = IF h = r.hash THEN n ELSE torrents[h]
  BY <1>1, <1>2 DEF CreateSwarm, TInv, n
<1>8. Counted(w0) /\ w0.hash = r.hash
  BY <1>2, NewSwarmCounted
<1>9. Members(w0) = {}
  BY DEF NewSwarm, Members
<1>10. Held(sock, w0) /\ Live(sock, w0, r.hash, filtered)
  BY <1>9 DEF Held, Live, Handed
<1>11. r = Head(jobs).req
  OBVIOUS
<1>. HIDE DEF r, w0
<1>. QED
  BY <1>1, <1>2, <1>3, <1>6, <1>7, <1>8, <1>9, <1>10, <1>11, ServedBound

LEMMA RelayBound ==
    ASSUME BInv, Relay
    PROVE  BInv'
<1>. DEFINE r == Head(jobs).req
            n == torrents[r.hash]
            w0 == swarm[n]
            w == IF destroyed THEN w0 ELSE Get(w0, r.to)
            gone == Members(w0) \ Members(w)
<1>1. TInv /\ TInv'
  BY NextTInv DEF BInv, Next
<1>2. /\ r \in Request /\ r.hash \in InfoHashes /\ jobs # << >> /\ Tail(jobs) \in Seq(Job)
      /\ jobs \in Seq(Job) /\ sock \in [Sockets -> Connection]
  BY <1>1, HeadJob DEF Relay, TInv
<1>3. n # None
  <2>1. jobs \in Seq(Job) /\ Relayable(jobs, torrents) /\ Head(jobs).step = "relay"
    BY <1>1 DEF TInv, Relay
  <2>. QED
    BY <1>2, <2>1, QueueParts DEF Relayable
<1>4. n \in DOMAIN swarm /\ Counted(w0) /\ w0.hash = r.hash /\ w0 \in Swarm
  BY <1>1, <1>2, <1>3 DEF TInv, Counted
<1>5. Held(sock, w0) /\ (~destroyed => Live(sock, w0, r.hash, filtered))
  BY <1>2, <1>3 DEF BInv
<1>6. /\ Members(w) \subseteq Members(w0)
      /\ \A id \in Members(w) : w.peers[id] = w0.peers[id]
  BY <1>4, GetPeers
<1>7. /\ sock' = Unlist(sock, {w0.peers[i].on : i \in gone}, r.hash)
      /\ swarm' = [swarm EXCEPT ![n] = w]
      /\ jobs' = Tail(jobs) /\ UNCHANGED <<torrents, filtered, waiting, destroyed>>
      /\ swarm = [m \in DOMAIN swarm |-> swarm[m]]
  BY <1>1 DEF Relay, Lost, TInv
<1>8. \A m \in DOMAIN swarm : swarm'[m] = IF m = n THEN w ELSE swarm[m]
  BY <1>7
<1>. HIDE DEF w, gone
<1>9. SameElse(sock, sock', r.hash)
  BY <1>2, <1>7, UnlistElse
<1>10. Held(sock, w) /\ Held(sock', w)
  <2>1. Held(sock, w)
    BY <1>5, <1>6 DEF Held
  <2>. QED
    BY <1>9, <2>1, ElseKept
<1>11. ASSUME ~destroyed, NEW id \in Handed(w) PROVE Leaves(sock', w.peers[id].on, r.hash, filtered)
  <2>1. id \in Members(w0) \ gone /\ id \in WsIds /\ id \in Handed(w0)
        /\ w.peers[id] = w0.peers[id]
    BY <1>6 DEF Handed, gone
  <2>2. Leaves(sock, w0.peers[id].on, r.hash, filtered)
    BY <1>5, <1>11, <2>1 DEF Live
  <2>3. gone \in SUBSET Members(w0)
    BY DEF gone
  <2>4. Leaves(Unlist(sock, {w0.peers[i].on : i \in gone}, r.hash), w0.peers[id].on, r.hash, filtered)
    BY <1>2, <1>4, <1>5, <2>1, <2>2, <2>3, UnlistLeaves
  <2>. QED
    BY <1>7, <2>1, <2>4
<1>12. ASSUME NEW h \in InfoHashes, torrents'[h] # None
       PROVE  /\ Held(sock', swarm'[torrents'[h]])
              /\ ~destroyed => Live(sock', swarm'[torrents'[h]], h, filtered)
  <2>1. torrents'[h] = torrents[h] /\ torrents[h] \in DOMAIN swarm /\ swarm[torrents[h]].hash = h
    BY <1>1, <1>7, <1>12 DEF TInv
  <2>2. CASE h = r.hash
    BY <1>4, <1>8, <1>10, <1>11, <2>1, <2>2 DEF Live
  <2>3. CASE h # r.hash
    <3>1. swarm'[torrents'[h]] = swarm[torrents[h]]
      BY <1>4, <1>8, <2>1, <2>3
    <3>2. Held(sock, swarm[torrents[h]]) /\ (~destroyed => Live(sock, swarm[torrents[h]], h, filtered))
      BY <1>12, <2>1 DEF BInv
    <3>. QED
      BY <1>9, <2>3, <3>1, <3>2, ElseKept, ElseLeaves
  <2>. QED
    BY <2>2, <2>3
<1>13. Asking(sock', jobs') /\ \A q \in waiting : Asks(sock', q)
  <2>1. Asking(sock, Tail(jobs)) /\ \A q \in waiting : Asks(sock, q)
    BY <1>2, AskingQueue DEF BInv
  <2>2. Asking(sock', Tail(jobs)) /\ \A q \in waiting : Asks(sock', q)
    BY <1>9, <2>1, ElseKept
  <2>3. jobs' = Tail(jobs)
    BY <1>7
  <2>. QED
    BY <2>2, <2>3
<1>14. ASSUME ~filtered PROVE OneTick(sock', jobs', torrents', swarm')
  <2>1. /\ OneTick(sock, Tail(jobs), torrents, swarm)
        /\ \A i \in 1 .. Len(Tail(jobs)) : Tail(jobs)[i].req.on = r.on
    BY <1>2, <1>14, TickTail DEF BInv
  <2>2. SameOpen(sock, sock')
    BY <1>9 DEF SameElse, SameOpen
  <2>3. Taken(torrents, swarm, torrents', swarm', r.on)
    <3>. SUFFICES ASSUME NEW h \in InfoHashes, torrents'[h] # None,
                         NEW id \in Members(swarm'[torrents'[h]])
                  PROVE  /\ torrents[h] # None /\ id \in Members(swarm[torrents[h]])
                         /\ swarm'[torrents'[h]].peers[id].on = swarm[torrents[h]].peers[id].on
      BY DEF Taken
    <3>1. torrents'[h] = torrents[h] /\ torrents[h] \in DOMAIN swarm
      BY <1>1, <1>7 DEF TInv
    <3>. QED
      BY <1>6, <1>8, <3>1
  <2>4. OneTick(sock', Tail(jobs), torrents', swarm')
    BY <1>2, <2>1, <2>2, <2>3, TickSwarms
  <2>5. jobs' = Tail(jobs)
    BY <1>7
  <2>. QED
    BY <2>4, <2>5
<1>. HIDE DEF n, r, w0
<1>. QED
  BY <1>1, <1>7, <1>12, <1>13, <1>14 DEF BInv

(* A first or a further request on a socket takes nothing from the peers   *)
(* that are bound to it.                                                   *)
Grown(sk, sl) ==
    \A s \in Sockets :
        /\ sl[s].open = sk[s].open /\ sl[s].hashes = sk[s].hashes
        /\ sk[s].shared => sl[s].shared
        /\ sk[s].id # None => sl[s].id = sk[s].id

LEMMA GrownKept ==
    ASSUME NEW sk, NEW sl, Grown(sk, sl)
    PROVE  /\ \A w : Held(sk, w) => Held(sl, w)
           /\ \A w, h, flt : Held(sk, w) /\ Live(sk, w, h, flt) => Live(sl, w, h, flt)
           /\ \A r \in Request : Asks(sk, r) => Asks(sl, r)
           /\ \A js \in Seq(Job) : Asking(sk, js) => Asking(sl, js)
<1>1. \A s : \A id \in WsIds : Owned(sk, id, s) => Owned(sl, id, s)
  BY ServerAssumption DEF Grown, Owned
<1>2. \A w : Held(sk, w) => Held(sl, w)
  BY <1>1 DEF Held
<1>3. \A w, h, flt : Held(sk, w) /\ Live(sk, w, h, flt) => Live(sl, w, h, flt)
  <2>. SUFFICES ASSUME NEW w, NEW h, NEW flt, Held(sk, w), Live(sk, w, h, flt),
                       NEW id \in Handed(w)
                PROVE  Leaves(sl, w.peers[id].on, h, flt)
    BY DEF Live
  <2>1. w.peers[id].on \in Sockets /\ Leaves(sk, w.peers[id].on, h, flt)
    BY DEF Live, Held, Handed, Owned
  <2>. QED
    BY <2>1 DEF Leaves, Grown
<1>4. \A r \in Request : Asks(sk, r) => Asks(sl, r)
  BY <1>1, RequestSocket DEF Asks
<1>5. \A js \in Seq(Job) : Asking(sk, js) => Asking(sl, js)
  <2>. SUFFICES ASSUME NEW js \in Seq(Job), Asking(sk, js), NEW i \in 1 .. Len(js)
                PROVE  Asks(sl, js[i].req)
    BY DEF Asking
  <2>1. js[i] \in Job
    BY ElementOfSeq
  <2>. QED
    BY <1>4, <2>1 DEF Asking, Job
<1>. QED
  BY <1>2, <1>3, <1>4, <1>5

(* The swarms stay, the sockets only grow.                                 *)
LEMMA GrownBound ==
    ASSUME BInv, TInv', Grown(sock, sock'), UNCHANGED <<torrents, swarm, filtered, destroyed>>,
           Asking(sock', jobs'), \A q \in waiting' : Asks(sock', q),
           ~filtered => waiting' = {} /\ OneTick(sock', jobs', torrents, swarm)
    PROVE  BInv'
<1>1. \A h \in InfoHashes : torrents[h] # None =>
          /\ Held(sock', swarm[torrents[h]])
          /\ ~destroyed => Live(sock', swarm[torrents[h]], h, filtered)
  BY GrownKept DEF BInv
<1>2. filtered \in BOOLEAN
  BY DEF BInv
<1>. QED
  BY <1>1, <1>2 DEF BInv

LEMMA ArriveBound ==
    ASSUME BInv, NEW r \in Request, Arrive(r)
    PROVE  BInv'
<1>. DEFINE j == [req |-> r, step |-> "get"]
<1>1. TInv /\ TInv' /\ UNCHANGED <<torrents, swarm, filtered, destroyed>>
  BY NextTInv DEF BInv, Next, Arrive
<1>2. jobs \in Seq(Job) /\ sock \in [Sockets -> Connection] /\ waiting \subseteq Request
  BY <1>1 DEF TInv
<1>3. Grown(sock, sock') /\ Asks(sock', r)
  <2>1. CASE r.on = None
    BY <2>1 DEF Arrive, Grown, Asks
  <2>2. CASE r.on # None
    <3>1. r.on \in Sockets /\ sock[r.on] \in Connection /\ \A s \in Sockets : sock[s] \in Connection
      BY <1>2, <2>2, RequestSocket
    <3>. DEFINE c == [sock[r.on] EXCEPT !.id = IF @ = None THEN r.id ELSE @,
                                        !.shared = @ \/ sock[r.on].id \notin {None, r.id}]
    <3>2. sock' = [sock EXCEPT ![r.on] = c]
      BY <2>2 DEF Arrive
    <3>3. /\ c.open = sock[r.on].open /\ c.hashes = sock[r.on].hashes
          /\ c.id = IF sock[r.on].id = None THEN r.id ELSE sock[r.on].id
          /\ c.shared = (sock[r.on].shared \/ sock[r.on].id \notin {None, r.id})
      BY <3>1 DEF Connection
    <3>. HIDE DEF c
    <3>4. \A s \in Sockets : sock'[s] = IF s = r.on THEN c ELSE sock[s]
      BY <1>2, <3>2
    <3>5. Grown(sock, sock')
      BY <3>3, <3>4 DEF Grown
    <3>6. Owned(sock', r.id, r.on)
      BY <3>1, <3>3, <3>4 DEF Owned
    <3>. QED
      BY <3>5, <3>6 DEF Asks
  <2>. QED
    BY <2>1, <2>2
<1>4. j.req = r /\ j.step = "get"
  OBVIOUS
<1>5. /\ jobs' \in {jobs, Append(jobs, j)} /\ waiting' \subseteq waiting \cup {r}
      /\ SameTick(r) /\ (r.on # None => sock[r.on].open)
      /\ ~filtered => waiting' = waiting /\ jobs' = Append(jobs, j)
  BY DEF Arrive
<1>. HIDE DEF j
<1>6. Asking(sock', jobs') /\ \A q \in waiting' : Asks(sock', q)
  <2>1. Asking(sock', jobs) /\ \A q \in waiting : Asks(sock', q)
    BY <1>2, <1>3, GrownKept DEF BInv
  <2>2. Asking(sock', Append(jobs, j))
    BY <1>2, <1>3, <1>4, <2>1, AskingQueue
  <2>. QED
    BY <1>3, <1>5, <2>1, <2>2
<1>7. ASSUME ~filtered PROVE waiting' = {} /\ OneTick(sock', jobs', torrents, swarm)
  <2>1. OneTick(sock, jobs, torrents, swarm) /\ waiting = {}
    BY <1>7 DEF BInv
  <2>2. \A i \in 1 .. Len(jobs) : jobs[i].req.on = r.on
    BY <1>2, <1>5, <1>7 DEF SameTick
  <2>3. /\ SameOpen(sock, sock') /\ SameOpen(sock', sock')
        /\ Taken(torrents, swarm, torrents, swarm, r.on)
    BY <1>3 DEF Grown, SameOpen, Taken
  <2>4. OneTick(sock', jobs, torrents, swarm)
    BY <1>2, <2>1, <2>2, <2>3, TickSwarms
  <2>5. /\ \A i \in 1 .. Len(jobs) : jobs[i].req.on = j.req.on
        /\ j.req.on # None => sock'[j.req.on].open
        /\ j.step # "create"
    BY <1>3, <1>4, <1>5, <2>2, RequestSocket DEF Grown
  <2>6. OneTick(sock', Append(jobs, j), torrents, swarm)
    BY <1>2, <2>4, <2>5, TickAppend
  <2>. QED
    BY <1>5, <1>7, <2>1, <2>6
<1>. QED
  BY <1>1, <1>3, <1>6, <1>7, GrownBound

LEMMA FilterAnswersBound ==
    ASSUME BInv, NEW r \in waiting, NEW passes \in BOOLEAN, FilterAnswers(r, passes)
    PROVE  BInv'
<1>. DEFINE j == [req |-> r, step |-> "get"]
<1>1. TInv /\ TInv' /\ UNCHANGED <<torrents, swarm, filtered, destroyed>> /\ sock' = sock
  BY NextTInv DEF BInv, Next, FilterAnswers
<1>2. jobs \in Seq(Job) /\ filtered /\ Asks(sock, r) /\ Asking(sock, jobs)
      /\ \A q \in waiting : Asks(sock, q)
  BY DEF BInv, TInv
<1>3. j.req = r /\ jobs' \in {jobs, Append(jobs, j)} /\ waiting' \subseteq waiting
  BY DEF FilterAnswers
<1>. HIDE DEF j
<1>4. Asking(sock, Append(jobs, j))
  BY <1>2, <1>3, AskingQueue
<1>5. Asking(sock', jobs') /\ \A q \in waiting' : Asks(sock', q)
  BY <1>1, <1>2, <1>3, <1>4
<1>6. Grown(sock, sock')
  BY <1>1 DEF Grown
<1>. QED
  BY <1>1, <1>2, <1>5, <1>6, GrownBound

LEMMA ExpireBound ==
    ASSUME BInv, NEW n \in DOMAIN swarm, NEW id \in Members(swarm[n]), Expire(n, id)
    PROVE  BInv'
<1>. DEFINE w == [swarm[n] EXCEPT !.peers[id].stale = TRUE]
<1>1. TInv /\ TInv' /\ UNCHANGED <<torrents, sock, filtered, waiting, jobs, destroyed>>
      /\ jobs = << >>
  BY NextTInv DEF BInv, Next, Expire
<1>2. swarm[n] \in Swarm /\ swarm = [m \in DOMAIN swarm |-> swarm[m]]
  BY <1>1 DEF TInv, Counted
<1>3. \A m \in DOMAIN swarm : swarm'[m] = IF m = n THEN w ELSE swarm[m]
  BY <1>2 DEF Expire
<1>4. /\ Members(w) = Members(swarm[n])
      /\ \A i \in Members(w) : /\ w.peers[i].on = swarm[n].peers[i].on
                               /\ ~w.peers[i].stale => ~swarm[n].peers[i].stale
  <2>1. swarm[n].peers \in [Members(swarm[n]) -> PeerData]
    BY <1>2, SwarmSets
  <2>2. w.peers = [swarm[n].peers EXCEPT ![id].stale = TRUE]
    BY <1>2 DEF Swarm
  <2>3. swarm[n].peers[id] \in PeerData
    BY <2>1
  <2>4. LET p == [swarm[n].peers[id] EXCEPT !.stale = TRUE]
        IN  p.on = swarm[n].peers[id].on /\ p.stale
    BY <2>3 DEF PeerData
  <2>. HIDE DEF w
  <2>5. Members(w) = Members(swarm[n])
    BY <2>1, <2>2 DEF Members
  <2>. QED
    BY <2>1, <2>2, <2>4, <2>5
<1>. HIDE DEF w
<1>5. ASSUME NEW h \in InfoHashes, torrents[h] # None
      PROVE  /\ Held(sock, swarm'[torrents[h]])
             /\ ~destroyed => Live(sock, swarm'[torrents[h]], h, filtered)
  <2>1. /\ torrents[h] \in DOMAIN swarm /\ Held(sock, swarm[torrents[h]])
        /\ ~destroyed => Live(sock, swarm[torrents[h]], h, filtered)
    BY <1>5 DEF BInv, TInv
  <2>2. CASE torrents[h] = n
    <3>1. Held(sock, w)
      BY <1>4, <2>1, <2>2 DEF Held
    <3>2. ~destroyed => Live(sock, w, h, filtered)
      BY <1>4, <2>1, <2>2 DEF Live, Handed
    <3>. QED
      BY <1>3, <2>1, <2>2, <3>1, <3>2
  <2>3. CASE torrents[h] # n
    BY <1>3, <2>1, <2>3
  <2>. QED
    BY <2>2, <2>3
<1>6. /\ filtered \in BOOLEAN /\ (~filtered => waiting = {})
      /\ Asking(sock, jobs) /\ \A q \in waiting : Asks(sock, q)
  BY DEF BInv
<1>7. OneTick(sock', jobs', torrents', swarm')
  BY <1>1, NoTick
<1>. QED
  BY <1>1, <1>5, <1>6, <1>7 DEF BInv

(* A socket that closes takes its peer along from every swarm it lists,    *)
(* and only that peer's other socket forgets the info hash.                *)
LEMMA OnCloseBound ==
    ASSUME BInv, NEW s \in Sockets, OnClose(s)
    PROVE  BInv'
<1>. DEFINE x == sock[s].id
            told == {h \in sock[s].hashes : torrents[h] # None}
            stopped(h) == Stops(swarm[torrents[h]], x)
            gone(t) == {h \in told : t \in Lost(swarm[torrents[h]], stopped(h))}
            hit(n) == \E h \in told : torrents[h] = n
<1>1. TInv /\ TInv' /\ UNCHANGED <<torrents, filtered, waiting, jobs, destroyed>>
      /\ jobs = << >> /\ sock[s].open
  BY NextTInv DEF BInv, Next, OnClose
<1>2. /\ swarm' = [n \in DOMAIN swarm |-> IF hit(n) THEN stopped(swarm[n].hash) ELSE swarm[n]]
      /\ sock' = [t \in Sockets |->
            IF t = s THEN [sock[s] EXCEPT !.open = FALSE, !.id = None, !.hashes = {}]
            ELSE [sock[t] EXCEPT !.hashes = @ \ gone(t)]]
  BY DEF OnClose
<1>3. \A t \in Sockets : sock[t] \in Connection
  BY <1>1 DEF TInv
<1>4. x \in WsIds \cup {None}
  BY <1>3 DEF Connection
<1>. HIDE DEF gone
<1>5. /\ ~sock'[s].open /\ sock'[s].shared = sock[s].shared
      /\ \A t \in Sockets \ {s} : /\ sock'[t].open = sock[t].open /\ sock'[t].shared = sock[t].shared
                                  /\ sock'[t].id = sock[t].id
                                  /\ sock'[t].hashes = sock[t].hashes \ gone(t)
  <2>1. sock[s] \in Connection
    BY <1>3
  <2>2. ~sock'[s].open /\ sock'[s].shared = sock[s].shared
    BY <1>2, <2>1 DEF Connection
  <2>3. ASSUME NEW t \in Sockets \ {s}
        PROVE  /\ sock'[t].open = sock[t].open /\ sock'[t].shared = sock[t].shared
               /\ sock'[t].id = sock[t].id /\ sock'[t].hashes = sock[t].hashes \ gone(t)
    <3>1. sock[t] \in Connection /\ sock'[t] = [sock[t] EXCEPT !.hashes = @ \ gone(t)]
      BY <1>2, <1>3
    <3>. QED
      BY <3>1 DEF Connection
  <2>. QED
    BY <2>2, <2>3
<1>. HIDE DEF x
<1>6. \A id, t : Owned(sock, id, t) => Owned(sock', id, t)
  BY <1>5 DEF Owned
<1>7. ASSUME NEW h \in InfoHashes, torrents[h] # None
      PROVE  /\ swarm'[torrents[h]] = IF h \in told THEN Stops(swarm[torrents[h]], x)
                                      ELSE swarm[torrents[h]]
             /\ swarm[torrents[h]] \in Swarm
  <2>1. /\ torrents[h] \in DOMAIN swarm /\ swarm[torrents[h]].hash = h
        /\ swarm[torrents[h]] \in Swarm
    BY <1>1, <1>7 DEF TInv, Counted
  <2>2. \A g \in told : g \in InfoHashes /\ torrents[g] # None
    BY <1>3 DEF Connection
  <2>3. hit(torrents[h]) <=> h \in told
    BY <1>1, <2>1, <2>2 DEF TInv
  <2>. HIDE DEF hit, told
  <2>. QED
    BY <1>2, <2>1, <2>3
<1>8. ASSUME NEW h \in InfoHashes, torrents[h] # None
      PROVE  /\ Held(sock', swarm'[torrents[h]])
             /\ ~destroyed => Live(sock', swarm'[torrents[h]], h, filtered)
  <2>. DEFINE w0 == swarm[torrents[h]]
              w == swarm'[torrents[h]]
  <2>1. /\ w = IF h \in told THEN Stops(w0, x) ELSE w0
        /\ w0 \in Swarm
    BY <1>7, <1>8
  <2>3. Held(sock, w0) /\ (~destroyed => Live(sock, w0, h, filtered))
    BY <1>8 DEF BInv
  <2>4. h \in told <=> h \in sock[s].hashes
    BY <1>8
  <2>5. \A t : h \in gone(t) => h \in told /\ x \in Members(w0) /\ w0.peers[x].on = t
    BY <2>1, GetPeers DEF gone, Lost
  <2>6. Members(w0) \subseteq Ids
    BY <2>1, SwarmSets
  <2>. HIDE DEF w0, w, told
  <2>2. /\ Members(w) = IF h \in told THEN Members(w0) \ {x} ELSE Members(w0)
        /\ \A id \in Members(w) : w.peers[id] = w0.peers[id]
    <3>1. CASE h \in told
      BY <2>1, <3>1, GetPeers
    <3>2. CASE h \notin told
      BY <2>1, <3>2
    <3>. QED
      BY <3>1, <3>2
  <2>7. Held(sock', w)
    BY <1>6, <2>2, <2>3 DEF Held
  <2>8. ASSUME ~destroyed, NEW id \in Handed(w)
        PROVE  Leaves(sock', w.peers[id].on, h, filtered)
    <3>. DEFINE t == w0.peers[id].on
    <3>1. /\ id \in WsIds /\ id \in Members(w) /\ id \in Members(w0) /\ w.peers[id] = w0.peers[id]
          /\ id \in Handed(w0)
      BY <2>2 DEF Handed
    <3>2. Owned(sock, id, t) /\ Leaves(sock, t, h, filtered) /\ t \in Sockets
      BY <2>3, <2>8, <3>1 DEF Held, Live, Owned
    <3>3. h \in told => id # x
      BY <2>2, <3>1
    <3>4. CASE t = s
      <4>1. sock[s].shared \/ filtered
        BY <1>1, <2>4, <3>2, <3>3, <3>4 DEF Owned, Leaves, x
      <4>. QED
        BY <1>5, <3>1, <3>4, <4>1 DEF Leaves
    <3>5. CASE t # s
      <4>1. h \in gone(t) => sock[t].shared \/ ~sock[t].open
        <5>. SUFFICES ASSUME h \in gone(t) PROVE sock[t].shared \/ ~sock[t].open
          OBVIOUS
        <5>1. h \in told /\ x \in Members(w0) /\ w0.peers[x].on = t
          BY <2>5
        <5>2. x \in WsIds
          BY <1>4, <2>6, <5>1, ServerAssumption DEF Ids
        <5>3. Owned(sock, x, t)
          BY <2>3, <5>1, <5>2 DEF Held
        <5>. QED
          BY <3>2, <3>3, <5>1, <5>3 DEF Owned
      <4>. QED
        BY <1>5, <3>1, <3>2, <3>5, <4>1 DEF Leaves
    <3>. QED
      BY <3>4, <3>5
  <2>. QED
    BY <2>7, <2>8 DEF Live, w
<1>9. /\ filtered \in BOOLEAN /\ (~filtered => waiting = {})
      /\ \A q \in waiting : Asks(sock', q)
  BY <1>6 DEF BInv, Asks
<1>10. OneTick(sock', jobs', torrents', swarm') /\ Asking(sock', jobs')
  BY <1>1, NoTick
<1>. QED
  BY <1>1, <1>8, <1>9, <1>10 DEF BInv

LEMMA InitBInv == Init => BInv
  BY InitTInv, NoTick DEF Init, BInv

LEMMA NextBInv == BInv /\ [Next]_vars => BInv'
<1>. SUFFICES ASSUME BInv, [Next]_vars PROVE BInv'
  OBVIOUS
<1>1. ASSUME NEW r \in Request, Arrive(r) PROVE BInv'
  BY <1>1, ArriveBound
<1>2. ASSUME NEW r \in waiting, NEW passes \in BOOLEAN, FilterAnswers(r, passes) PROVE BInv'
  BY <1>2, FilterAnswersBound
<1>3. CASE GetSwarm
  BY <1>3, GetSwarmBound
<1>4. CASE CreateSwarm
  BY <1>4, CreateSwarmBound
<1>5. CASE Relay
  BY <1>5, RelayBound
<1>6. ASSUME NEW n \in DOMAIN swarm, NEW id \in Members(swarm[n]), Expire(n, id) PROVE BInv'
  BY <1>6, ExpireBound
<1>7. ASSUME NEW s \in Sockets, OnClose(s) PROVE BInv'
  BY <1>7, OnCloseBound
<1>8. CASE Close
  <2>1. TInv' /\ UNCHANGED <<torrents, swarm, sock, filtered, waiting, jobs>> /\ destroyed'
    BY <1>8, NextTInv DEF BInv, Next, Close
  <2>. QED
    BY <2>1 DEF BInv
<1>9. CASE UNCHANGED vars
  <2>1. TInv' /\ UNCHANGED <<torrents, swarm, sock, filtered, waiting, jobs, destroyed>>
    BY <1>9, NextTInv DEF BInv, vars
  <2>. QED
    BY <2>1 DEF BInv
<1>. QED
  BY <1>1, <1>2, <1>3, <1>4, <1>5, <1>6, <1>7, <1>8, <1>9 DEF Next

(* Only createSwarm puts a swarm in the table.                             *)
LEMMA ReplacedByCreate ==
    ASSUME BInv, [Next]_vars, NEW h \in InfoHashes, torrents[h] # None, torrents'[h] # torrents[h],
           ~filtered, NEW id \in Members(swarm[torrents[h]])
    PROVE  swarm[torrents[h]].peers[id].on = Head(jobs).req.on
<1>1. CreateSwarm
  BY DEF Next, vars, Arrive, FilterAnswers, GetSwarm, Relay, Expire, OnClose, Close
<1>2. jobs \in Seq(Job) /\ jobs # << >> /\ Head(jobs).step = "create" /\ h = Head(jobs).req.hash
  BY <1>1 DEF CreateSwarm, BInv, TInv
<1>3. Ticked(sock, Head(jobs).req, Head(jobs).step = "create", torrents, swarm)
  BY <1>2, QueueParts DEF BInv, OneTick
<1>. QED
  BY <1>2, <1>3 DEF Ticked

(* In every state of a server that is not closed, a WebSocket peer it      *)
(* hands out is bound to an open socket that lists the info hash, but for  *)
(* the two ways out of BoundToSocket; and without a filter createSwarm     *)
(* replaces only a swarm whose members all came on the connection of the   *)
(* request that makes the new one.                                         *)
THEOREM PeersStay == Spec => PeersKept
<1>1. BInv => BoundToSocket
  <2>. SUFFICES ASSUME BInv, ~destroyed, NEW h \in InfoHashes, torrents[h] # None,
                       NEW id \in Handed(swarm[torrents[h]])
                PROVE  LET s == swarm[torrents[h]].peers[id].on IN
                       \/ sock[s].open /\ h \in sock[s].hashes
                       \/ filtered /\ ~sock[s].open
                       \/ sock[s].shared
    BY DEF BoundToSocket
  <2>1. Live(sock, swarm[torrents[h]], h, filtered)
    BY DEF BInv
  <2>. QED
    BY <2>1 DEF Live, Leaves
<1>2. BInv /\ [Next]_vars =>
        [\A h \in InfoHashes :
          torrents[h] # None /\ torrents'[h] # torrents[h] =>
              \/ filtered
              \/ \A id \in Members(swarm[torrents[h]]) :
                    swarm[torrents[h]].peers[id].on = Head(jobs).req.on]_vars
  BY ReplacedByCreate
<1>. QED
  BY <1>1, <1>2, InitBInv, NextBInv, PTL DEF Spec, PeersKept, ReplacedInTick
=============================================================================
