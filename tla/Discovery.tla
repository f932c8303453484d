------------------------------ MODULE Discovery ------------------------------
(***************************************************************************)
(* One torrent's Discovery (discovery/src/index.ts): the tracker clients   *)
(* of its one or two info hashes (tracker/src/client-class.ts) with their  *)
(* HTTP or UDP trackers, the announces on the DHT, and local service       *)
(* discovery.  A new port replaces the tracker clients once the old ones   *)
(* called back from their destroy.                                         *)
(***************************************************************************)
EXTENDS Naturals, FiniteSets

CONSTANTS
    Ports,
    Clients,   \* slots for tracker clients
    Setups,    \* the options tried, see Setup
    MaxLive,   \* bound: requests of a tracker before a 'stopped' is added
    None

Hashes == {"v1", "v2"}

(* `v2`: a hybrid torrent, announced under two info hashes.                *)
Setup == [v2 : BOOLEAN, dht : {"none", "shared", "internal"},
          tracker : {"http", "udp"}, lsd : BOOLEAN]

(* A hybrid torrent needs two clients at a time: the old ones are garbage  *)
(* before the new ones are made.                                           *)
ASSUME DiscoveryAssumption ==
    /\ None \notin Clients /\ \E a, b \in Clients : a # b
    /\ Setups \subseteq Setup
    /\ MaxLive \in Nat

VARIABLES
    setup,
    d,        \* the Discovery
    client,   \* the tracker clients, each with one tracker
    dht,      \* dht.announce under way: info hash and port, or None
    told,     \* history: the port the DHT knows for each info hash
    crashed   \* a callback met a null field

vars == <<setup, d, client, dht, told, crashed>>

-----------------------------------------------------------------------------
(* Of a client: `live` requests under way, `dead` failed requests that     *)
(* still have an entry in cleanupFns, the callback its destroy must call.  *)
Client == [is : {"up", "closing", "closed"}, hash : Hashes, port : Ports,
           url : BOOLEAN, live : Nat, dead : BOOLEAN,
           cb : {"none", "recreate", "first", "task"}]

Free == [is |-> "free"]

(* `tasks` are the destroy callbacks that destroy() waits for; `cut` says  *)
(* that one of them was lost to a port update.                             *)
Disc == [port : Ports, tracker : Clients \cup {None}, trackerV2 : Clients \cup {None},
         announce : BOOLEAN, dht : BOOLEAN, announcing : BOOLEAN, timeout : BOOLEAN,
         destroyed : BOOLEAN, tasks : Nat, called : BOOLEAN, cut : BOOLEAN]

(* A state of discovery and clients, passed along synchronous calls.       *)
Now == [d |-> d, client |-> client, crashed |-> crashed]

Becomes(state) ==
    \E s \in {state} : d' = s.d /\ client' = s.client /\ crashed' = s.crashed

(* #createTracker: a client that starts, with a 'started' request if it    *)
(* has a tracker at all: after destroy the announce list is gone.          *)
MakeTracker(s, hash, field) ==
    LET id == CHOOSE i \in Clients : s.client[i] = Free
        new == [is |-> "up", hash |-> hash, port |-> s.d.port, url |-> s.d.announce,
                live |-> IF s.d.announce THEN 1 ELSE 0, dead |-> FALSE, cb |-> "none"]
    IN  [s EXCEPT !.client[id] = new,
                  !.d = IF field = "v1" THEN [@ EXCEPT !.tracker = id]
                        ELSE [@ EXCEPT !.trackerV2 = id]]

MakeTrackers(s) ==
    IF setup.v2 THEN MakeTracker(MakeTracker(s, "v1", "v1"), "v2", "v2")
    ELSE MakeTracker(s, "v1", "v1")

(* Mutant: the new trackers are not made.                                  *)
Recreate_None(s) == s

(* The old clients are garbage once the new ones are made.                 *)
Recreate(s) ==
    LET t == [s EXCEPT !.client = [i \in Clients |-> IF @[i].is = "closed" THEN Free ELSE @[i]]]
    IN  MakeTrackers(t)

(* One callback of destroy's `parallel`: the last one calls back.          *)
TaskDone(s) ==
    [s EXCEPT !.d.tasks = @ - 1, !.d.called = @ \/ (s.d.tasks = 1 /\ ~s.d.cut)]

(* client.destroy(cb).  A client that is destroyed already never calls cb; *)
(* a tracker without entries calls at once, the others when their requests *)
(* are answered or at DESTROY_TIMEOUT.                                     *)
Close(s, id, cb, After(_)) ==
    CASE s.client[id].is # "up" -> IF cb = "task" THEN [s EXCEPT !.d.cut = TRUE] ELSE s
      [] s.client[id].is = "up" /\ s.client[id].live = 0 /\ ~s.client[id].dead ->
            After([s EXCEPT !.client[id].is = "closed"])
      [] OTHER -> [s EXCEPT !.client[id].is = "closing", !.client[id].cb = cb]

(* The callback of trackerV2.destroy in updatePort destroys the other one, *)
(* if discovery.destroy has not taken it away.                             *)
First(s) ==
    IF s.d.tracker = None THEN [s EXCEPT !.crashed = TRUE]
    ELSE Close(s, s.d.tracker, "recreate", Recreate)

CallBack(s, cb) ==
    CASE cb = "recreate" -> Recreate(s)
      [] cb = "first" -> First(s)
      [] cb = "task" -> TaskDone(s)

(* client.stop: a 'stopped' request, if the client has trackers left.      *)
Stop(s, id) ==
    IF id # None /\ s.client[id].is = "up" /\ s.client[id].url
    THEN [s EXCEPT !.client[id].live = @ + 1] ELSE s

(* #dhtAnnounce of the state s: unless an announce is under way.           *)
DhtAnnounce(s) ==
    IF s.d.dht /\ ~s.d.announcing
    THEN /\ Becomes([s EXCEPT !.d.announcing = TRUE, !.d.timeout = FALSE])
         /\ dht' = [hash |-> "v1", port |-> s.d.port]
    ELSE Becomes(s) /\ UNCHANGED dht

-----------------------------------------------------------------------------
Init ==
    /\ setup \in Setups
    /\ \E p \in Ports :
         LET blank == [d |-> [port |-> p, tracker |-> None, trackerV2 |-> None,
                              announce |-> TRUE, dht |-> setup.dht # "none",
                              announcing |-> setup.dht # "none", timeout |-> FALSE,
                              destroyed |-> FALSE, tasks |-> 0, called |-> FALSE,
                              cut |-> FALSE],
                       client |-> [i \in Clients |-> Free], crashed |-> FALSE]
             made  == MakeTrackers(blank)
         IN  /\ d = made.d /\ client = made.client /\ crashed = FALSE
             /\ dht = IF setup.dht = "none" THEN None ELSE [hash |-> "v1", port |-> p]
    /\ told = [h \in Hashes |-> None]

(* updatePort: the trackers stop and are replaced once destroyed.          *)
UpdatePort(p) ==
    /\ p # d.port /\ ~d.destroyed /\ ~crashed
    /\ client[d.tracker].live <= MaxLive
    /\ \E s \in {Stop(Stop([Now EXCEPT !.d.port = p], d.tracker), d.trackerV2)} :
          \E t \in {IF setup.v2 THEN Close(s, d.trackerV2, "first", First)
                    ELSE Close(s, d.tracker, "recreate", Recreate)} : DhtAnnounce(t)
    /\ UNCHANGED <<setup, told>>

Leave(s) == [s EXCEPT !.d.destroyed = TRUE, !.d.timeout = FALSE]

(* destroy: every part is told to go, and the fields become null.          *)
Destroy ==
    /\ ~d.destroyed /\ ~crashed
    /\ LET trackers == {d.tracker, d.trackerV2} \ {None}
           others   == (IF setup.dht = "internal" THEN 1 ELSE 0) + (IF setup.lsd THEN 1 ELSE 0)
           s1 == [Leave(Now) EXCEPT !.d.tasks = Cardinality(trackers) + others]
           shut(s, id) == Close(Stop(s, id), id, "task", TaskDone)
           s2 == shut(s1, d.tracker)
           s3 == IF setup.v2 THEN shut(s2, d.trackerV2) ELSE s2
       IN  Becomes([s3 EXCEPT !.d.dht = FALSE, !.d.tracker = None, !.d.trackerV2 = None,
                              !.d.announce = FALSE])
    /\ UNCHANGED <<setup, dht, told>>

(* The DHT node of the discovery, and its LSD socket, are closed.          *)
OthersClosed ==
    /\ d.destroyed /\ ~crashed
    /\ d.tasks > Cardinality({i \in Clients : client[i].is = "closing" /\ client[i].cb = "task"})
                 + (IF d.cut THEN 1 ELSE 0)
    /\ Becomes(TaskDone(Now))
    /\ UNCHANGED <<setup, dht, told>>

(* Mutant: a destroyed tracker still announces.                            *)
Request_Destroyed(id) ==
    /\ client[id].is \in {"up", "closing"} /\ client[id].url /\ client[id].live < MaxLive
    /\ ~crashed
    /\ client' = [client EXCEPT ![id].live = @ + 1]
    /\ UNCHANGED <<setup, d, dht, told, crashed>>

(* The interval of a tracker, or complete() with its 'completed'.          *)
Request(id) ==
    /\ client[id].is = "up" /\ client[id].url /\ client[id].live < MaxLive /\ ~crashed
    /\ client' = [client EXCEPT ![id].live = @ + 1]
    /\ UNCHANGED <<setup, d, dht, told, crashed>>

(* A request is answered, fails or times out: cleanup.  The last entry of  *)
(* a tracker that is being destroyed ends its wait.                        *)
Answered(id) ==
    /\ client[id].is \in {"up", "closing"} /\ client[id].live > 0 /\ ~crashed
    /\ LET s == [Now EXCEPT !.client[id].live = @ - 1] IN
       Becomes(IF s.client[id].is = "closing" /\ s.client[id].live = 0 /\ ~s.client[id].dead
               THEN CallBack([s EXCEPT !.client[id].is = "closed"], client[id].cb)
               ELSE s)
    /\ UNCHANGED <<setup, dht, told>>

(* An HTTP request fails: there is no cleanup, the entry stays.            *)
HttpError(id) ==
    /\ setup.tracker = "http"
    /\ client[id].is \in {"up", "closing"} /\ client[id].live > 0 /\ ~crashed
    /\ client' = [client EXCEPT ![id].live = @ - 1, ![id].dead = TRUE]
    /\ UNCHANGED <<setup, d, dht, told, crashed>>

(* DESTROY_TIMEOUT: destroyCleanup aborts what is left and calls back.     *)
DestroyTimeout(id) ==
    /\ client[id].is = "closing" /\ ~crashed
    /\ Becomes(CallBack([Now EXCEPT !.client[id].is = "closed", !.client[id].live = 0],
                        client[id].cb))
    /\ UNCHANGED <<setup, dht, told>>

(* The callback of dht.announce: the second info hash, then the interval.  *)
(* After destroy there is no dht to announce the second one with.          *)
DhtAnnounced ==
    /\ dht # None /\ ~crashed
    /\ told' = [told EXCEPT ![dht.hash] = dht.port]
    /\ IF dht.hash = "v1" /\ setup.v2
       THEN IF d.dht THEN /\ dht' = [hash |-> "v2", port |-> d.port]
                          /\ UNCHANGED <<d, client, crashed>>
            ELSE /\ dht' = None
                 /\ crashed' = TRUE
                 /\ UNCHANGED <<d, client>>
       ELSE /\ dht' = None
            /\ Becomes([Now EXCEPT !.d.announcing = FALSE, !.d.timeout = ~d.destroyed])
    /\ UNCHANGED setup

DhtTimeout ==
    /\ d.timeout /\ ~crashed
    /\ IF d.dht THEN DhtAnnounce(Now)
       ELSE crashed' = TRUE /\ UNCHANGED <<d, client, dht>>
    /\ UNCHANGED <<setup, told>>

Next ==
    \/ \E p \in Ports : UpdatePort(p)
    \/ Destroy \/ OthersClosed
    \/ \E id \in Clients : Request(id) \/ Answered(id) \/ HttpError(id) \/ DestroyTimeout(id)
    \/ DhtAnnounced \/ DhtTimeout

(* Timers fire, sockets close, and the DHT calls back from its lookups.    *)
Fairness ==
    /\ \A id \in Clients : WF_vars(DestroyTimeout(id))
    /\ WF_vars(OthersClosed) /\ WF_vars(DhtAnnounced) /\ WF_vars(DhtTimeout)

Spec == Init /\ [][Next]_vars /\ Fairness

-----------------------------------------------------------------------------
(* Properties *)

(* No tracker client is left behind: one that still announces is one of    *)
(* the discovery's own, and each info hash has at most one of them, also   *)
(* when the port changes while the old clients are on their way out.       *)
NoClientLeft ==
    \A id \in Clients : client[id].is = "up" /\ client[id].url =>
        /\ id \in {d.tracker, d.trackerV2} /\ ~d.destroyed
        /\ \A other \in Clients \ {id} :
              client[other].is = "up" => client[other].hash # client[id].hash

(* A callback meets a null field only in a hybrid torrent that is          *)
(* destroyed while the DHT announces or while its port changes.            *)
CrashIsHybrid == crashed => setup.v2 /\ d.destroyed

(* After destroy nothing is announced but the 'stopped' of destroy itself. *)
SilentStep ==
    d.destroyed =>
        /\ \A id \in Clients :
              client'[id] # Free /\ client'[id].live > 0 =>
                  client[id] # Free /\ client'[id].live <= client[id].live
        /\ dht' # dht => dht' = None
SilentAfterDestroy == [][SilentStep]_vars

(* The trackers get to know the last port, however the updates follow each *)
(* other.                                                                  *)
TrackerPort ==
    d.tracker # None /\ client[d.tracker].is = "up" /\ client[d.tracker].port = d.port
TrackersLearnPort ==
    \A p \in Ports : d.port = p ~> TrackerPort \/ d.port # p \/ d.destroyed

(* So does the DHT, at the latest with the next interval.                  *)
DhtLearnsPort ==
    \A p \in Ports : d.port = p /\ setup.dht # "none" ~>
        d.destroyed \/ d.port # p \/ told["v1"] = p

(* destroy calls back, unless it came while a port update was destroying   *)
(* the trackers: a client that is destroyed twice answers only once.       *)
DestroyCallsBack == d.destroyed ~> d.called \/ d.cut \/ crashed

(* Both: a port reaches who announces.                                     *)
PortLearned == TrackersLearnPort /\ DhtLearnsPort

(* All three: nothing announces that should not.                           *)
Quiet == []NoClientLeft /\ []CrashIsHybrid /\ SilentAfterDestroy
=============================================================================
