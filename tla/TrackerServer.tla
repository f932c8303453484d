--------------------------- MODULE TrackerServer ---------------------------
(***************************************************************************)
(* The tracker server: server.ts and its Swarm objects (swarm.ts).  An     *)
(* announce waits for the filter, looks its swarm up in a microtask and,   *)
(* when there is none, makes one in a second microtask; the swarm object   *)
(* it found is the one it announces to.  WebSocket peers are known by      *)
(* their peer id and bound to the socket they announced on, HTTP and UDP   *)
(* peers by their address.                                                 *)
(***************************************************************************)
EXTENDS Integers, Sequences, FiniteSets

CONSTANTS
    Sockets,    \* WebSocket connections
    WsIds,      \* peer ids of WebSocket peers
    Addrs,      \* addresses of HTTP and UDP peers
    InfoHashes,
    MaxSwarms,  \* bound: Swarm objects made
    MaxPeers,   \* peersCacheLength
    Announces,  \* bound: the events tried, see AllAnnounces
    Receivers,  \* bound: the peers answers are sent to
    Batch,      \* bound: requests for a missing swarm in one tick, or in the filter
    None

ASSUME ServerAssumption ==
    /\ Receivers \subseteq WsIds
    /\ MaxSwarms \in Nat /\ MaxPeers \in Nat \ {0} /\ Batch \in Nat \ {0}
    /\ IsFiniteSet(WsIds) /\ IsFiniteSet(Addrs) /\ WsIds \cap Addrs = {}
    /\ None \notin Sockets \cup WsIds \cup Addrs \cup 1 .. MaxSwarms

Ids == WsIds \cup Addrs
SwarmIds == 1 .. MaxSwarms

VARIABLES
    torrents,   \* server.torrents: info hash -> Swarm
    swarm,      \* the Swarm objects
    sock,       \* the WebSocket connections
    filtered,   \* an asynchronous filter was given
    waiting,    \* requests the filter has not answered
    jobs,       \* microtasks
    destroyed

vars == <<torrents, swarm, sock, filtered, waiting, jobs, destroyed>>

-----------------------------------------------------------------------------
(* A request as the parsers leave it: `event` with whether anything is     *)
(* left to download.  "other" is an event no table has, a missing one is   *)
(* an "update", and "paused" is handled as that.  An answer or candidate,  *)
(* which names a receiver `to`, is an announce without event as well.      *)
AllAnnounces ==
    [event : {"started", "completed", "update"}, done : BOOLEAN]
    \cup [event : {"stopped", "other"}, done : {FALSE}]

ASSUME AnnouncesAssumption == Announces \subseteq AllAnnounces

Requested(id, s, h, to, a) ==
    [id |-> id, on |-> s, hash |-> h, to |-> to, event |-> a.event, done |-> a.done]

Request ==
    {Requested(id, s, h, None, a) :
        id \in WsIds, s \in Sockets, h \in InfoHashes, a \in Announces}
    \cup {Requested(id, s, h, to, [event |-> "update", done |-> FALSE]) :
        id \in WsIds, s \in Sockets, h \in InfoHashes, to \in Receivers}
    \cup {Requested(id, None, h, None, a) :
        id \in Addrs, h \in InfoHashes, a \in Announces}

(* A peer; `stale` says that its time to live is over.                     *)
PeerData == [complete : BOOLEAN, on : Sockets \cup {None}, stale : BOOLEAN]

NewSwarm(h) == [hash |-> h, complete |-> 0, incomplete |-> 0, peers |-> <<>>]

Members(w) == DOMAIN w.peers

One(b) == IF b THEN 1 ELSE 0

(* Mutant: a peer that leaves is taken off the leechers.                   *)
Drop_Leecher(w, id) ==
    [w EXCEPT !.incomplete = @ - 1,
              !.peers = [i \in Members(w) \ {id} |-> w.peers[i]]]

(* _onAnnounceStopped of a member, also when the cache evicts it or finds  *)
(* it expired.                                                             *)
Drop(w, id) ==
    [w EXCEPT !.complete   = @ - One(w.peers[id].complete),
              !.incomplete = @ - One(~w.peers[id].complete),
              !.peers = [i \in Members(w) \ {id} |-> w.peers[i]]]

Put(w, id, p) ==
    [w EXCEPT !.peers = [i \in Members(w) \cup {id} |->
                            IF i = id THEN p ELSE w.peers[i]]]

(* peers.get(id): an expired entry is disposed of.                         *)
Get(w, id) ==
    IF id \in Members(w) /\ w.peers[id].stale THEN Drop(w, id) ELSE w

(* _onAnnounceStarted for a newcomer: the cache may be full, and then some *)
(* other peer (the least recently used one) goes.                          *)
Start(w, r) ==
    LET p == [complete |-> r.done, on |-> r.on, stale |-> FALSE]
        v == [Put(w, r.id, p) EXCEPT !.complete   = @ + One(r.done),
                                     !.incomplete = @ + One(~r.done)]
    IN  IF Cardinality(Members(w)) < MaxPeers THEN {v}
        ELSE {Drop(v, id) : id \in Members(w)}

(* _onAnnounceUpdate and _onAnnounceCompleted of a member: it becomes      *)
(* complete once, and its time to live starts again.                       *)
Refresh(w, r, done) ==
    LET p     == w.peers[r.id]
        turns == done /\ ~p.complete
        v     == Put(w, r.id, [p EXCEPT !.complete = @ \/ done, !.stale = FALSE])
    IN  [v EXCEPT !.complete = @ + One(turns), !.incomplete = @ - One(turns)]

(* Swarm.announce after its peers.get: the swarms it can leave.            *)
Announced(w, r) ==
    CASE r.event = "other" -> {w}
      [] r.event = "stopped" -> {IF r.id \in Members(w) THEN Drop(w, r.id) ELSE w}
      [] r.event \notin {"other", "stopped"} /\ r.id \notin Members(w) -> Start(w, r)
      [] OTHER -> {Refresh(w, r, r.event = "completed" \/ r.done)}

(* The sockets of the members of w that are not in v.                      *)
Lost(w, v) == {w.peers[id].on : id \in Members(w) \ Members(v)}

(* Their lists of info hashes lose h; a closed socket has none.            *)
Unlist(f, lost, h) ==
    [s \in Sockets |-> IF s \in lost THEN [f[s] EXCEPT !.hashes = @ \ {h}] ELSE f[s]]

-----------------------------------------------------------------------------
Init ==
    /\ torrents = [h \in InfoHashes |-> None]
    /\ swarm = [n \in {} |-> NewSwarm(None)]
    /\ sock = [s \in Sockets |-> [open |-> TRUE, id |-> None, hashes |-> {}, shared |-> FALSE]]
    /\ filtered \in BOOLEAN
    /\ waiting = {}
    /\ jobs = <<>>
    /\ destroyed = FALSE

(* Requests are handled in the same tick when they came in one chunk of    *)
(* one connection, or when the filter answers several at once.  Where the  *)
(* swarm exists each of them is done in one microtask, as if it had come   *)
(* in a tick of its own: only newcomers to a missing swarm share a tick.   *)
SameTick(r) ==
    \/ jobs = <<>>
    \/ /\ Len(jobs) < Batch
       /\ torrents[r.hash] = None
       /\ \A i \in DOMAIN jobs :
             jobs[i].step = "get" /\ (filtered \/ jobs[i].req.on = r.on)

(* A request arrives: the first one on a socket names the socket's peer.   *)
(* (`shared` is a history: another peer id was used on the socket.)        *)
Arrive(r) ==
    /\ SameTick(r)
    /\ r.on # None => sock[r.on].open
    /\ IF r.on = None THEN UNCHANGED sock
       ELSE sock' = [sock EXCEPT ![r.on].id = IF @ = None THEN r.id ELSE @,
                                 ![r.on].shared = @ \/ sock[r.on].id \notin {None, r.id}]
    /\ IF filtered
       THEN /\ jobs = <<>>
            /\ Cardinality(waiting) < IF torrents[r.hash] = None THEN Batch ELSE 1
            /\ waiting' = waiting \cup {r}
            /\ UNCHANGED jobs
       ELSE /\ jobs' = Append(jobs, [req |-> r, step |-> "get"])
            /\ UNCHANGED waiting
    /\ UNCHANGED <<torrents, swarm, filtered, destroyed>>

(* The filter rejects a request, or lets it pass.                          *)
FilterAnswers(r, passes) ==
    /\ r \in waiting
    /\ SameTick(r)
    /\ waiting' = waiting \ {r}
    /\ jobs' = IF passes THEN Append(jobs, [req |-> r, step |-> "get"]) ELSE jobs
    /\ UNCHANGED <<torrents, swarm, sock, filtered, destroyed>>

(* The swarm announces and the callback answers: a socket that is open     *)
(* lists the info hash; an answer or candidate is relayed in a microtask.  *)
Finish(n, w0, r, later) ==
    LET w1 == Get(w0, r.id) IN
    \E w \in Announced(w1, r) :
        LET reply == /\ r.on # None /\ ~destroyed /\ r.event # "other"
                     /\ sock[r.on].open
            left  == Unlist(sock, Lost(w0, w1) \cup Lost(w1, w), r.hash)
        IN  /\ swarm' = [m \in DOMAIN swarm \cup {n} |-> IF m = n THEN w ELSE swarm[m]]
            /\ sock'  = IF reply THEN [left EXCEPT ![r.on].hashes = @ \cup {r.hash}]
                        ELSE left
            /\ jobs'  = IF reply /\ r.to # None
                        THEN Append(later, [req |-> r, step |-> "relay"]) ELSE later

(* Mutant: getSwarm finds nothing, so every announce makes a swarm.        *)
GetSwarm_Nothing ==
    /\ jobs # <<>> /\ Head(jobs).step = "get"
    /\ jobs' = Append(Tail(jobs), [req |-> Head(jobs).req, step |-> "create"])
    /\ UNCHANGED <<torrents, swarm, sock, filtered, waiting, destroyed>>

(* getSwarm's microtask.                                                   *)
GetSwarm ==
    /\ jobs # <<>>
    /\ LET r == Head(jobs).req
           n == torrents[r.hash]
       IN  /\ Head(jobs).step = "get"
           /\ IF n # None THEN Finish(n, swarm[n], r, Tail(jobs))
              ELSE /\ jobs' = Append(Tail(jobs), [req |-> r, step |-> "create"])
                   /\ UNCHANGED <<swarm, sock>>
    /\ UNCHANGED <<torrents, filtered, waiting, destroyed>>

(* createSwarm's microtask puts a new swarm in server.torrents, whatever   *)
(* is there, and announces to it.                                          *)
CreateSwarm ==
    /\ jobs # <<>>
    /\ LET r == Head(jobs).req
           n == Cardinality(DOMAIN swarm) + 1
       IN  /\ Head(jobs).step = "create"
           /\ n \in SwarmIds
           /\ torrents' = [torrents EXCEPT ![r.hash] = n]
           /\ Finish(n, NewSwarm(r.hash), r, Tail(jobs))
    /\ UNCHANGED <<filtered, waiting, destroyed>>

(* The relay of an answer or a candidate looks its receiver up.            *)
Relay ==
    /\ jobs # <<>>
    /\ Head(jobs).step = "relay"
    /\ LET r == Head(jobs).req
           n == torrents[r.hash]
           w == IF destroyed THEN swarm[n] ELSE Get(swarm[n], r.to)
       IN  /\ swarm' = [swarm EXCEPT ![n] = w]
           /\ sock'  = Unlist(sock, Lost(swarm[n], w), r.hash)
    /\ jobs' = Tail(jobs)
    /\ UNCHANGED <<torrents, filtered, waiting, destroyed>>

(* A peer's time to live passes.                                           *)
Expire(n, id) ==
    /\ jobs = <<>>
    /\ n \in DOMAIN swarm /\ id \in Members(swarm[n])
    /\ ~swarm[n].peers[id].stale
    /\ swarm' = [swarm EXCEPT ![n].peers[id].stale = TRUE]
    /\ UNCHANGED <<torrents, sock, filtered, waiting, jobs, destroyed>>

(* A 'stopped' for the peer id.                                            *)
Stops(w, id) == IF id \in Members(w) THEN Drop(w, id) ELSE w

(* _onWebSocketClose, when the socket closes, fails, or a send fails: its  *)
(* peer stops in every swarm the socket lists, and the socket that peer is *)
(* bound to, if another one, forgets the info hash.                        *)
OnClose(s) ==
    /\ jobs = <<>>
    /\ sock[s].open
    /\ LET told == {h \in sock[s].hashes : torrents[h] # None}
           v(h) == Stops(swarm[torrents[h]], sock[s].id)
           gone(t) == {h \in told : t \in Lost(swarm[torrents[h]], v(h))}
       IN  /\ swarm' = [n \in DOMAIN swarm |->
                 IF \E h \in told : torrents[h] = n THEN v(swarm[n].hash) ELSE swarm[n]]
           /\ sock' = [t \in Sockets |->
                 IF t = s THEN [sock[s] EXCEPT !.open = FALSE, !.id = None, !.hashes = {}]
                 ELSE [sock[t] EXCEPT !.hashes = @ \ gone(t)]]
    /\ UNCHANGED <<torrents, filtered, waiting, jobs, destroyed>>

(* server.close                                                            *)
Close ==
    /\ jobs = <<>>
    /\ ~destroyed
    /\ destroyed' = TRUE
    /\ UNCHANGED <<torrents, swarm, sock, filtered, waiting, jobs>>

Next ==
    \/ \E r \in Request : Arrive(r)
    \/ \E r \in waiting, passes \in BOOLEAN : FilterAnswers(r, passes)
    \/ GetSwarm
    \/ CreateSwarm
    \/ Relay
    \/ \E n \in DOMAIN swarm : \E id \in Members(swarm[n]) : Expire(n, id)
    \/ \E s \in Sockets : OnClose(s)
    \/ Close

Spec == Init /\ [][Next]_vars

-----------------------------------------------------------------------------
(* Properties *)

(* The answer to a scrape, and the peers the statistics page counts.       *)
Scrape(w) == [complete |-> w.complete, incomplete |-> w.incomplete]

Seeders(w) == {id \in Members(w) : w.peers[id].complete}

(* The two counters a swarm answers with are the numbers of its seeders    *)
(* and leechers, whatever was announced twice, out of order, by a peer     *)
(* that is not known, evicted, expired or cut off.                         *)
CountsAgree ==
    \A n \in DOMAIN swarm :
        Scrape(swarm[n]) =
            [complete   |-> Cardinality(Seeders(swarm[n])),
             incomplete |-> Cardinality(Members(swarm[n]) \ Seeders(swarm[n]))]

(* _getPeers for a WebSocket peer: the others that have not expired.       *)
Handed(w) == {id \in WsIds \cap Members(w) : ~w.peers[id].stale}

(* A WebSocket peer the server hands out is bound to an open socket that   *)
(* lists the info hash, so that the peer leaves when its socket does.  Two *)
(* ways out are in the code: a filter that answers after the socket closed *)
(* and a socket that two peer ids share.                                   *)
BoundToSocket ==
    ~destroyed => \A h \in InfoHashes : torrents[h] # None =>
        \A id \in Handed(swarm[torrents[h]]) :
            LET s == swarm[torrents[h]].peers[id].on IN
            \/ sock[s].open /\ h \in sock[s].hashes
            \/ filtered /\ ~sock[s].open
            \/ sock[s].shared

(* createSwarm replaces a swarm that has peers only when they came on the  *)
(* connection, and in the tick, of the request that makes the new one, or  *)
(* when the filter let two requests pass at once.                          *)
ReplacedInTick ==
    [][\A h \in InfoHashes :
          torrents[h] # None /\ torrents'[h] # torrents[h] =>
              \/ filtered
              \/ \A id \in Members(swarm[torrents[h]]) :
                    swarm[torrents[h]].peers[id].on = Head(jobs).req.on]_vars

(* Both: no peer is left without its socket, or lost with its swarm.       *)
PeersKept == []BoundToSocket /\ ReplacedInTick
=============================================================================
