------------------------------ MODULE WsTracker ------------------------------
(***************************************************************************)
(* The WebSocket trackers of several clients on one announce URL: they     *)
(* share one socket through socketPool (websocket-tracker.ts), make WebRTC *)
(* offers before they announce, and reconnect when the socket is lost.     *)
(* A client (client-class.ts) has one tracker here; a second one for its   *)
(* v2 info hash shares the socket the same way.                            *)
(***************************************************************************)
EXTENDS Integers, FiniteSets

CONSTANTS Trackers, Socks, Offers, Want, None

ASSUME WsAssumption ==
    /\ IsFiniteSet(Trackers) /\ IsFiniteSet(Offers)
    /\ Want \in Nat     \* bound: numwant
    /\ None \notin Trackers \cup Socks

VARIABLES
    tr,     \* the trackers
    offer,  \* peers made for offers
    batch,  \* tracker -> offers its announce waits for
    sock,   \* the sockets
    pool,   \* socketPool[announceUrl]
    gone,   \* how client.destroy found the tracker: "no", "live", "waiting"
    called, \* trackers whose destroy callback was called
    late    \* history: trackers that emitted 'update' after client.destroy

vars == <<tr, offer, batch, sock, pool, gone, called, late>>

-----------------------------------------------------------------------------
(* `remote`: a peer made from a remote offer is in _connectedPeers.        *)
Tracker == [made : BOOLEAN, destroyed : BOOLEAN, reconnecting : BOOLEAN,
            sock : Socks \cup {None}, timer : BOOLEAN, interval : BOOLEAN,
            expecting : BOOLEAN, remote : BOOLEAN]

(* An offer's peer: it gathers ("new"), is listed in its batch or missed   *)
(* it ("listed"), was announced ("sent"), or was answered ("linking") and  *)
(* moved from peers to _connectedPeers.                                    *)
Stages == {"new", "listed", "sent", "linking"}
Offer  == [of : Trackers, is : Stages] \cup {[of |-> None, is |-> "free"]}
Free   == [of |-> None, is |-> "free"]

(* `creator` has a 'connect' listener, `queue` holds the announces that    *)
(* wait for 'connect', `cbs` the destroy callbacks that wait for 'close'.  *)
Socket == [is : {"free", "connecting", "open", "dying"}, closing : BOOLEAN,
           consumers : 0 .. Cardinality(Trackers), creator : Trackers \cup {None},
           queue : SUBSET (Trackers \X {"plain", "event"}), cbs : SUBSET Trackers]

NoSocket == [is |-> "free", closing |-> FALSE, consumers |-> 0, creator |-> None,
             queue |-> {}, cbs |-> {}]

Live(t)  == tr[t].made /\ ~tr[t].destroyed
On(s)    == {t \in Trackers : Live(t) /\ tr[t].sock = s}
Peers(t) == {o \in Offers : offer[o].of = t}

(* Announces of the trackers T (plain ones) and E (with an event, and      *)
(* scrapes) on a connected socket: an event is sent at once, the others    *)
(* first make up to numwant offers.  One unfinished batch per tracker is   *)
(* a bound: it stands 200 ms.                                              *)
Announced(T, E, now) ==
    LET free == {o \in Offers : offer[o] = Free} IN
    \E f \in [T -> {S \in SUBSET free : Cardinality(S) <= Want}] :
        /\ \A t, u \in T : t # u => f[t] \cap f[u] = {}
        /\ \A t \in T : batch[t] = {}
        /\ batch' = [t \in Trackers |-> IF t \in T THEN f[t] ELSE batch[t]]
        /\ offer' = [o \in Offers |->
                        IF \E t \in T : o \in f[t]
                        THEN [of |-> CHOOSE t \in T : o \in f[t], is |-> "new"]
                        ELSE offer[o]]
        /\ tr' = [t \in Trackers |->
                     IF t \in E \/ (t \in T /\ f[t] = {})
                     THEN [now[t] EXCEPT !.expecting = TRUE] ELSE now[t]]

-----------------------------------------------------------------------------
Init ==
    /\ tr = [t \in Trackers |->
                [made |-> FALSE, destroyed |-> TRUE, reconnecting |-> FALSE,
                 sock |-> None, timer |-> FALSE, interval |-> FALSE,
                 expecting |-> FALSE, remote |-> FALSE]]
    /\ offer = [o \in Offers |-> Free]
    /\ batch = [t \in Trackers |-> {}]
    /\ sock = [s \in Socks |-> NoSocket]
    /\ pool = None
    /\ gone = [t \in Trackers |-> "no"]
    /\ called = {}
    /\ late = {}

(* _openSocket: the pooled socket gets a consumer; when it is connected,   *)
(* a reconnecting tracker announces at once, when it is not, nothing will  *)
(* tell the tracker.  Without one a socket is made that tells its creator. *)
OpenSocket(t) ==
    LET opened(s) == [tr EXCEPT ![t].made = TRUE, ![t].destroyed = FALSE,
                                ![t].timer = FALSE, ![t].sock = s] IN
    \/ /\ pool # None
       /\ sock' = [sock EXCEPT ![pool].consumers = @ + 1]
       /\ IF sock[pool].is = "open" /\ tr[t].reconnecting
          THEN Announced({t}, {}, [opened(pool) EXCEPT ![t].reconnecting = FALSE])
          ELSE /\ tr' = opened(pool)
               /\ UNCHANGED <<offer, batch>>
       /\ UNCHANGED pool
    \/ /\ pool = None
       /\ \E s \in Socks :
             /\ sock[s].is = "free"
             /\ sock' = [sock EXCEPT ![s] = [NoSocket EXCEPT !.is = "connecting",
                                                 !.consumers = 1, !.creator = t]]
             /\ pool' = s
             /\ tr' = opened(s)
       /\ UNCHANGED <<offer, batch>>

(* The client is made with its tracker.                                    *)
New(t) ==
    /\ ~tr[t].made
    /\ OpenSocket(t)
    /\ UNCHANGED <<gone, called, late>>

(* The reconnect timer; it does not ask whether the client still is.       *)
ReconnectTimer(t) ==
    /\ tr[t].timer
    /\ OpenSocket(t)
    /\ UNCHANGED <<gone, called, late>>

(* 'connect': the creator recovers, then the queued announces run.         *)
Connect(s) ==
    /\ sock[s].is = "connecting"
    /\ sock' = [sock EXCEPT ![s].is = "open", ![s].queue = {}]
    /\ LET back == {t \in {sock[s].creator} : t \in On(s) /\ tr[t].reconnecting}
           now  == [t \in Trackers |->
                       IF t \in back THEN [tr[t] EXCEPT !.reconnecting = FALSE] ELSE tr[t]]
           ask(k) == {t \in Trackers : /\ <<t, k>> \in sock[s].queue
                                       /\ Live(t) /\ ~now[t].reconnecting}
       IN  Announced(back \cup ask("plain"), ask("event"), now)
    /\ UNCHANGED <<pool, gone, called, late>>

(* tracker.announce and scrape; `now` is the state the caller left.        *)
Announce(t, kind, now) ==
    IF ~Live(t) \/ tr[t].reconnecting
    THEN tr' = now /\ UNCHANGED <<offer, batch, sock>>
    ELSE IF sock[tr[t].sock].is # "open"
    THEN /\ sock' = [sock EXCEPT ![tr[t].sock].queue = @ \cup {<<t, kind>>}]
         /\ tr' = now
         /\ UNCHANGED <<offer, batch>>
    ELSE /\ UNCHANGED sock
         /\ IF kind = "plain" THEN Announced({t}, {}, now) ELSE Announced({}, {t}, now)

(* client.start announces and arms the interval, also of a tracker that    *)
(* waits to reconnect; stop, complete and scrape send, update announces.   *)
Start(t) ==
    /\ tr[t].made /\ gone[t] = "no"
    /\ Announce(t, "plain", [tr EXCEPT ![t].interval = TRUE])
    /\ UNCHANGED <<pool, gone, called, late>>

Tell(t, kind) ==
    /\ tr[t].made /\ gone[t] = "no"
    /\ Announce(t, kind, tr)
    /\ UNCHANGED <<pool, gone, called, late>>

Interval(t) ==
    /\ tr[t].interval
    /\ Announce(t, "plain", tr)
    /\ UNCHANGED <<pool, gone, called, late>>

-----------------------------------------------------------------------------
(* Offers *)

(* A server reflexive candidate, or the end of the 200 ms, lists an offer  *)
(* that has its SDP; the last one of the batch sends the announce.         *)
List(o) ==
    LET t == offer[o].of IN
    /\ offer[o].is = "new"
    /\ IF o \in batch[t] /\ \A p \in batch[t] \ {o} : offer[p].is = "listed"
       THEN /\ offer' = [p \in Offers |-> IF p \in batch[t]
                            THEN [offer[p] EXCEPT !.is = "sent"] ELSE offer[p]]
            /\ batch' = [batch EXCEPT ![t] = {}]
            /\ tr' = [tr EXCEPT ![t].expecting = TRUE]
       ELSE /\ offer' = [offer EXCEPT ![o].is = "listed"]
            /\ UNCHANGED <<batch, tr>>
    /\ UNCHANGED <<sock, pool, gone, called, late>>

(* The 200 ms end without SDP: the batch never is complete and its         *)
(* announce is not sent; the peers stay until they time out.               *)
Miss(o) ==
    /\ offer[o].is = "new"
    /\ offer' = [offer EXCEPT ![o].is = "listed"]
    /\ batch' = [batch EXCEPT ![offer[o].of] = {}]
    /\ UNCHANGED <<tr, sock, pool, gone, called, late>>

(* trackerTimeout: an offer nobody answered for 50 s.                      *)
OfferTimeout(o) ==
    /\ offer[o].is \in {"listed", "sent"}
    /\ o \notin batch[offer[o].of]
    /\ offer' = [offer EXCEPT ![o] = Free]
    /\ UNCHANGED <<tr, batch, sock, pool, gone, called, late>>

(* The peer of an answered offer, or of a remote one, connects or closes.  *)
Linked(o) ==
    /\ offer[o].is = "linking"
    /\ offer' = [offer EXCEPT ![o] = Free]
    /\ UNCHANGED <<tr, batch, sock, pool, gone, called, late>>

RemoteLinked(t) ==
    /\ tr[t].remote
    /\ tr' = [tr EXCEPT ![t].remote = FALSE]
    /\ UNCHANGED <<offer, batch, sock, pool, gone, called, late>>

(* The answer to a remote offer, or a candidate after it, is sent.         *)
SendAnswer(t) ==
    /\ tr[t].remote
    /\ tr' = [tr EXCEPT ![t].expecting = TRUE]
    /\ UNCHANGED <<offer, batch, sock, pool, gone, called, late>>

-----------------------------------------------------------------------------
(* Data for the info hash of t arrives: every tracker on the socket stops  *)
(* expecting, the one it is for handles it.                                *)
Heard(s, now) ==
    [t \in Trackers |-> IF t \in On(s) THEN [now[t] EXCEPT !.expecting = FALSE] ELSE now[t]]

(* An announce response with its interval and counts: 'update'.            *)
OnResponse(t) ==
    /\ Live(t) /\ sock[tr[t].sock].is = "open"
    /\ tr' = Heard(tr[t].sock, [tr EXCEPT ![t].interval = TRUE])
    /\ late' = IF gone[t] = "no" THEN late ELSE late \cup {t}
    /\ UNCHANGED <<offer, batch, sock, pool, gone, called>>

(* An offer of a remote peer; one with the same id takes the entry.        *)
OnOffer(t) ==
    /\ Live(t) /\ sock[tr[t].sock].is = "open"
    /\ tr' = Heard(tr[t].sock, [tr EXCEPT ![t].remote = TRUE])
    /\ UNCHANGED <<offer, batch, sock, pool, gone, called, late>>

(* An answer to an announced offer: only the first one finds the peer.     *)
OnAnswer(o) ==
    LET t == offer[o].of IN
    /\ offer[o].is = "sent"
    /\ sock[tr[t].sock].is = "open"
    /\ offer' = [offer EXCEPT ![o].is = "linking"]
    /\ tr' = Heard(tr[t].sock, tr)
    /\ UNCHANGED <<batch, sock, pool, gone, called, late>>

(* What a tracker loses with destroy(): its timers, its peers, its socket. *)
Lost(T) ==
    /\ offer' = [o \in Offers |-> IF offer[o].of \in T THEN Free ELSE offer[o]]
    /\ batch' = [t \in Trackers |-> IF t \in T THEN {} ELSE batch[t]]

Shut(t) == [tr[t] EXCEPT !.destroyed = TRUE, !.interval = FALSE, !.timer = FALSE,
                         !.sock = None, !.remote = FALSE]

(* The socket closes or fails, or a message has an invalid action: its     *)
(* trackers are destroyed one after the other, each arms its reconnect     *)
(* timer, and the last one takes the socket out of the pool.               *)
Fail(s) ==
    LET T == On(s) IN
    /\ sock[s].is \in {"connecting", "open"}
    /\ tr' = [t \in Trackers |-> IF t \in T
                 THEN [Shut(t) EXCEPT !.reconnecting = TRUE, !.timer = TRUE] ELSE tr[t]]
    /\ Lost(T)
    /\ sock' = [sock EXCEPT ![s] = [NoSocket EXCEPT !.is = "dying", !.cbs = @ \cup sock[s].cbs]]
    /\ pool' = IF pool = s THEN None ELSE pool
    /\ UNCHANGED <<gone, called, late>>

(* Mutant: a destroyed client stays counted.                               *)
Left_Counted == sock[pool].consumers

(* The consumers left when one goes.                                       *)
Left == sock[pool].consumers - 1

(* client.destroy.  A tracker that waits to reconnect returns at once, its *)
(* timer stays armed.  The last consumer closes the socket, after the next *)
(* message or DESTROY_TIMEOUT when it expects a response.                  *)
Destroy(t) ==
    /\ tr[t].made /\ gone[t] = "no"
    /\ IF ~Live(t)
       THEN /\ gone' = [gone EXCEPT ![t] = "waiting"]
            /\ called' = called \cup {t}
            /\ UNCHANGED <<tr, offer, batch, sock, pool>>
       ELSE /\ gone' = [gone EXCEPT ![t] = "live"]
            /\ tr' = [tr EXCEPT ![t] = Shut(t)]
            /\ Lost({t})
            /\ IF Left > 0
               THEN /\ sock' = [sock EXCEPT ![pool].consumers = Left]
                    /\ called' = called \cup {t}
                    /\ UNCHANGED pool
               ELSE /\ pool' = None
                    /\ sock' = [sock EXCEPT ![pool].consumers = 0, ![pool].cbs = {t},
                                    ![pool].closing = tr[t].expecting,
                                    ![pool].is = IF tr[t].expecting THEN @ ELSE "dying"]
                    /\ UNCHANGED called
    /\ UNCHANGED late

(* Mutant: the 'close' listener goes with the 'data' listener.             *)
Cleanup_Silent(s) ==
    /\ sock[s].closing /\ sock[s].is \in {"connecting", "open"}
    /\ sock' = [sock EXCEPT ![s].is = "dying", ![s].closing = FALSE, ![s].cbs = {}]
    /\ UNCHANGED <<tr, offer, batch, pool, gone, called, late>>

(* destroyCleanup, at the next message or at DESTROY_TIMEOUT.              *)
Cleanup(s) ==
    /\ sock[s].closing /\ sock[s].is \in {"connecting", "open"}
    /\ sock' = [sock EXCEPT ![s].is = "dying", ![s].closing = FALSE]
    /\ UNCHANGED <<tr, offer, batch, pool, gone, called, late>>

(* 'close' of a destroyed socket.                                          *)
Closed(s) ==
    /\ sock[s].is = "dying"
    /\ sock' = [sock EXCEPT ![s] = NoSocket]
    /\ called' = called \cup sock[s].cbs
    /\ UNCHANGED <<tr, offer, batch, pool, gone, late>>

Next ==
    \/ \E t \in Trackers :
          \/ New(t) \/ ReconnectTimer(t) \/ Start(t) \/ Interval(t) \/ Destroy(t)
          \/ OnResponse(t) \/ OnOffer(t) \/ SendAnswer(t) \/ RemoteLinked(t)
          \/ \E kind \in {"plain", "event"} : Tell(t, kind)
    \/ \E o \in Offers :
          \/ List(o) \/ Miss(o) \/ OfferTimeout(o) \/ Linked(o) \/ OnAnswer(o)
    \/ \E s \in Socks : Connect(s) \/ Fail(s) \/ Cleanup(s) \/ Closed(s)

(* The timers of the runtime fire and a destroyed socket closes.           *)
Fairness == \A s \in Socks : WF_vars(Cleanup(s)) /\ WF_vars(Closed(s))

Spec == Init /\ [][Next]_vars /\ Fairness

-----------------------------------------------------------------------------
(* Properties *)

(* The pooled socket is alive and counts the trackers that use it, and     *)
(* every tracker that is not destroyed is one of them: the pool never      *)
(* hands out a dead socket, and destroying one client never closes the     *)
(* socket of another.                                                      *)
PoolCounted ==
    /\ \A t \in Trackers : Live(t) => tr[t].sock = pool
    /\ pool # None => /\ sock[pool].is \in {"connecting", "open"}
                      /\ sock[pool].consumers = Cardinality(On(pool))
                      /\ sock[pool].consumers > 0

(* A tracker that lost its socket recovers with the socket it opened: only *)
(* one that joined a socket another tracker was still connecting stays     *)
(* `reconnecting`, with all its announces refused, on an open socket.      *)
CreatorRecovers ==
    \A t \in Trackers : Live(t) /\ tr[t].reconnecting /\ sock[tr[t].sock].is = "open" =>
        sock[tr[t].sock].creator # t

(* client.destroy is final for a tracker that was connected: no timer, no  *)
(* interval, no peer of it is left.  (One that waited to reconnect keeps   *)
(* its timer and comes back.)                                              *)
DestroyIsFinal ==
    \A t \in Trackers : gone[t] = "live" =>
        /\ tr[t].destroyed /\ ~tr[t].timer /\ ~tr[t].interval
        /\ Peers(t) = {} /\ ~tr[t].remote

(* destroy calls back, for every client, in any order, also while a        *)
(* response is expected on the shared socket.                              *)
DestroyCallsBack == \A t \in Trackers : gone[t] # "no" ~> t \in called

(* Both: the pool serves whoever uses it, and after a failure again.       *)
PoolServes == PoolCounted /\ CreatorRecovers

(* Both: destroy ends a client and says so.                                *)
DestroyEnds == []DestroyIsFinal /\ DestroyCallsBack
=============================================================================
