--------------------------- MODULE WsTrackerProofs ---------------------------
(* The pooled socket, for any number of clients, sockets and offers: it    *)
(* counts whoever uses it, and destroy ends a client for good.             *)
EXTENDS WsTracker, FiniteSetTheorems, TLAPS

SocketRecord ==
    [is : {"free", "connecting", "open", "dying"}, closing : BOOLEAN, consumers : Nat,
     creator : Trackers \cup {None}, queue : SUBSET (Trackers \X {"plain", "event"}),
     cbs : SUBSET Trackers]

OfferRecord == [of : Trackers \cup {None}, is : Stages \cup {"free"}]

Alive(x) == x.made /\ ~x.destroyed

Users(r, s) == {t \in Trackers : Alive(r[t]) /\ r[t].sock = s}

(* Trackers, sockets and pool: whoever lives uses the pooled socket and    *)
(* waits for no reconnect timer; the socket counts them, is alive and is   *)
(* not about to be closed.                                                 *)
Serving(r, k, p) ==
    /\ r \in [Trackers -> Tracker] /\ k \in [Socks -> SocketRecord] /\ p \in Socks \cup {None}
    /\ \A t \in Trackers : Alive(r[t]) => p # None /\ r[t].sock = p /\ ~r[t].timer
    /\ p # None => /\ k[p].is \in {"connecting", "open"} /\ ~k[p].closing
                   /\ k[p].consumers = Cardinality(Users(r, p)) /\ k[p].consumers > 0
                   /\ \A t \in Trackers : Alive(r[t]) /\ r[t].reconnecting /\ k[p].is = "open" =>
                          k[p].creator # t

(* What client.destroy leaves of a tracker.                                *)
Ended(r, o, g) ==
    /\ o \in [Offers -> OfferRecord] /\ g \in [Trackers -> {"no", "live", "waiting"}]
    /\ \A t \in Trackers : g[t] # "no" => r[t].made
    /\ \A t \in Trackers : g[t] = "live" =>
          /\ r[t].destroyed /\ ~r[t].timer /\ ~r[t].interval /\ ~r[t].remote
          /\ \A x \in Offers : o[x].of # t

WsInv == Serving(tr, sock, pool) /\ Ended(tr, offer, gone)

-----------------------------------------------------------------------------
LEMMA UsersFinite ==
    ASSUME NEW r, NEW s
    PROVE  IsFiniteSet(Users(r, s)) /\ Cardinality(Users(r, s)) \in Nat
BY WsAssumption, FS_Subset, FS_CardinalityType DEF Users

(* Trackers that differ in what the pool does not look at.                 *)
Same(x, y) ==
    /\ x.made = y.made /\ x.destroyed = y.destroyed /\ x.reconnecting = y.reconnecting
    /\ x.sock = y.sock /\ x.timer = y.timer

LEMMA SameServing ==
    ASSUME NEW r, NEW r2 \in [Trackers -> Tracker], NEW k, NEW p, Serving(r, k, p),
           \A t \in Trackers : Same(r2[t], r[t])
    PROVE  Serving(r2, k, p)
<1>1. \A s : Users(r2, s) = Users(r, s)
  BY DEF Users, Alive, Same
<1>2. \A t \in Trackers : /\ Alive(r2[t]) = Alive(r[t]) /\ r2[t].sock = r[t].sock
                          /\ r2[t].timer = r[t].timer /\ r2[t].reconnecting = r[t].reconnecting
  BY DEF Alive, Same
<1>. QED
  BY <1>1, <1>2 DEF Serving

(* Sockets that differ in what the pool does not look at.                  *)
LEMMA OtherSocket ==
    ASSUME NEW r, NEW k, NEW p, Serving(r, k, p), NEW s \in Socks, s # p, NEW x \in SocketRecord
    PROVE  Serving(r, [k EXCEPT ![s] = x], p)
<1>. DEFINE k2 == [k EXCEPT ![s] = x]
<1>1. k2 \in [Socks -> SocketRecord] /\ (p # None => k2[p] = k[p])
  BY DEF Serving
<1>. HIDE DEF k2
<1>2. Serving(r, k2, p)
  BY <1>1 DEF Serving
<1>. QED
  BY <1>2 DEF k2

(* An announce makes offers and marks trackers, no more.                   *)
LEMMA AnnouncedKeeps ==
    ASSUME NEW T \in SUBSET Trackers, NEW E, NEW now \in [Trackers -> Tracker],
           offer \in [Offers -> OfferRecord], Announced(T, E, now)
    PROVE  /\ tr' \in [Trackers -> Tracker] /\ offer' \in [Offers -> OfferRecord]
           /\ \A t \in Trackers : /\ Same(tr'[t], now[t])
                                  /\ tr'[t].interval = now[t].interval
                                  /\ tr'[t].remote = now[t].remote
           /\ \A x \in Offers : offer'[x].of = offer[x].of \/ offer'[x].of \in T
<1>. DEFINE free == {o \in Offers : offer[o] = Free}
<1>1. PICK f \in [T -> {S \in SUBSET free : Cardinality(S) <= Want}] :
          /\ offer' = [o \in Offers |->
                          IF \E t \in T : o \in f[t]
                          THEN [of |-> CHOOSE t \in T : o \in f[t], is |-> "new"]
                          ELSE offer[o]]
          /\ tr' = [t \in Trackers |->
                       IF t \in E \/ (t \in T /\ f[t] = {})
                       THEN [now[t] EXCEPT !.expecting = TRUE] ELSE now[t]]
  BY DEF Announced
<1>2. ASSUME NEW t \in Trackers
      PROVE  /\ tr'[t] \in Tracker /\ Same(tr'[t], now[t])
             /\ tr'[t].interval = now[t].interval /\ tr'[t].remote = now[t].remote
  <2>1. tr'[t] = now[t] \/ tr'[t] = [now[t] EXCEPT !.expecting = TRUE]
    BY <1>1
  <2>2. now[t] \in Tracker
    OBVIOUS
  <2>. QED
    BY <2>1, <2>2 DEF Tracker, Same
<1>3. ASSUME NEW x \in Offers
      PROVE  offer'[x] \in OfferRecord /\ (offer'[x].of = offer[x].of \/ offer'[x].of \in T)
  <2>1. CASE \E t \in T : x \in f[t]
    <3>1. (CHOOSE t \in T : x \in f[t]) \in T
      BY <2>1
    <3>2. offer'[x] = [of |-> CHOOSE t \in T : x \in f[t], is |-> "new"]
      BY <1>1, <2>1
    <3>. QED
      BY <3>1, <3>2 DEF OfferRecord, Stages
  <2>2. CASE ~ \E t \in T : x \in f[t]
    BY <1>1, <2>2
  <2>. QED
    BY <2>1, <2>2
<1>4. DOMAIN tr' = Trackers /\ tr' = [t \in Trackers |-> tr'[t]]
  BY <1>1
<1>5. offer' = [x \in Offers |-> offer'[x]]
  BY <1>1
<1>. QED
  BY <1>2, <1>3, <1>4, <1>5

-----------------------------------------------------------------------------
(* A tracker opens a socket: it had none and is counted once.              *)
Joined(r, t, s) ==
    /\ r \in [Trackers -> Tracker]
    /\ Alive(r[t]) /\ r[t].sock = s /\ ~r[t].timer
    /\ \A u \in Trackers \ {t} : r[u] = tr[u]

LEMMA OpenedJoins ==
    ASSUME tr \in [Trackers -> Tracker], NEW t \in Trackers, NEW s \in Socks
    PROVE  LET opened == [tr EXCEPT ![t].made = TRUE, ![t].destroyed = FALSE,
                                    ![t].timer = FALSE, ![t].sock = s]
           IN  /\ Joined(opened, t, s)
               /\ Joined([opened EXCEPT ![t].reconnecting = FALSE], t, s)
               /\ ~[opened EXCEPT ![t].reconnecting = FALSE][t].reconnecting
               /\ opened[t].reconnecting = tr[t].reconnecting
<1>. DEFINE opened == [tr EXCEPT ![t].made = TRUE, ![t].destroyed = FALSE,
                                 ![t].timer = FALSE, ![t].sock = s]
            calm == [opened EXCEPT ![t].reconnecting = FALSE]
<1>1. tr[t] \in Tracker
  OBVIOUS
<1>2. /\ opened[t] = [tr[t] EXCEPT !.made = TRUE, !.destroyed = FALSE, !.timer = FALSE, !.sock = s]
      /\ \A u \in Trackers \ {t} : opened[u] = tr[u]
      /\ opened = [u \in Trackers |-> opened[u]]
  OBVIOUS
<1>. HIDE DEF opened
<1>3. /\ opened[t] \in Tracker /\ opened[t].made /\ ~opened[t].destroyed /\ ~opened[t].timer
      /\ opened[t].sock = s /\ opened[t].reconnecting = tr[t].reconnecting
  BY <1>1, <1>2 DEF Tracker
<1>4. opened \in [Trackers -> Tracker]
  BY <1>2, <1>3
<1>5. /\ calm \in [Trackers -> Tracker] /\ calm[t] = [opened[t] EXCEPT !.reconnecting = FALSE]
      /\ \A u \in Trackers \ {t} : calm[u] = opened[u]
  BY <1>3, <1>4 DEF Tracker
<1>. HIDE DEF calm
<1>6. /\ calm[t].made /\ ~calm[t].destroyed /\ ~calm[t].timer /\ calm[t].sock = s
      /\ ~calm[t].reconnecting
  BY <1>3, <1>5 DEF Tracker
<1>7. Joined(opened, t, s) /\ Joined(calm, t, s)
  BY <1>2, <1>3, <1>4, <1>5, <1>6 DEF Joined, Alive
<1>. QED
  BY <1>3, <1>6, <1>7 DEF opened, calm

LEMMA JoinedUsers ==
    ASSUME NEW t \in Trackers, ~Alive(tr[t]), NEW s, NEW r, Joined(r, t, s)
    PROVE  /\ Users(r, s) = Users(tr, s) \cup {t}
           /\ Cardinality(Users(r, s)) = Cardinality(Users(tr, s)) + 1
<1>1. Users(r, s) = Users(tr, s) \cup {t} /\ t \notin Users(tr, s)
  BY DEF Users, Joined
<1>. QED
  BY <1>1, UsersFinite, FS_AddElement

(* A tracker whose timers are left to whoever may have them.               *)
LEMMA StaysEnded ==
    ASSUME WsInv, UNCHANGED gone, NEW o2 \in [Offers -> OfferRecord], NEW r2, NEW T \in SUBSET Trackers,
           \A u \in T : gone[u] # "live" /\ r2[u].made,
           \A u \in Trackers \ T :
               /\ r2[u].made = tr[u].made /\ r2[u].destroyed = tr[u].destroyed
               /\ r2[u].timer = tr[u].timer /\ r2[u].interval = tr[u].interval
               /\ r2[u].remote = tr[u].remote,
           \A x \in Offers : o2[x].of = offer[x].of \/ o2[x].of \in T \cup {None}
    PROVE  Ended(r2, o2, gone')
<1>1. \A t \in Trackers : t # None
  BY WsAssumption
<1>2. Ended(tr, offer, gone)
  BY DEF WsInv
<1>. QED
  BY <1>1, <1>2 DEF Ended

LEMMA Opens ==
    ASSUME WsInv, NEW t \in Trackers, ~Alive(tr[t]), gone[t] # "live", OpenSocket(t),
           UNCHANGED gone
    PROVE  WsInv'
<1>0. /\ tr \in [Trackers -> Tracker] /\ sock \in [Socks -> SocketRecord]
      /\ pool \in Socks \cup {None} /\ offer \in [Offers -> OfferRecord]
      /\ Serving(tr, sock, pool)
  BY DEF WsInv, Serving, Ended
<1>3. ASSUME NEW s, NEW r, Joined(r, t, s), tr' \in [Trackers -> Tracker],
             \A u \in Trackers : /\ Same(tr'[u], r[u]) /\ tr'[u].interval = r[u].interval
                                 /\ tr'[u].remote = r[u].remote,
             offer' \in [Offers -> OfferRecord],
             \A x \in Offers : offer'[x].of = offer[x].of \/ offer'[x].of \in {t}
      PROVE  Ended(tr', offer', gone')
  <2>1. gone[t] # "live" /\ tr'[t].made
    BY <1>3 DEF Joined, Alive, Same
  <2>2. \A u \in Trackers \ {t} :
            /\ tr'[u].made = tr[u].made /\ tr'[u].destroyed = tr[u].destroyed
            /\ tr'[u].timer = tr[u].timer /\ tr'[u].interval = tr[u].interval
            /\ tr'[u].remote = tr[u].remote
    BY <1>3 DEF Joined, Same
  <2>3. {t} \in SUBSET Trackers
    OBVIOUS
  <2>4. \A x \in Offers : offer'[x].of = offer[x].of \/ offer'[x].of \in {t} \cup {None}
    BY <1>3
  <2>5. \A u \in {t} : gone[u] # "live" /\ tr'[u].made
    BY <2>1
  <2>. DEFINE T == {t}
  <2>. HIDE DEF T
  <2>6. /\ T \in SUBSET Trackers /\ \A u \in T : gone[u] # "live" /\ tr'[u].made
        /\ \A x \in Offers : offer'[x].of = offer[x].of \/ offer'[x].of \in T \cup {None}
        /\ \A u \in Trackers \ T :
            /\ tr'[u].made = tr[u].made /\ tr'[u].destroyed = tr[u].destroyed
            /\ tr'[u].timer = tr[u].timer /\ tr'[u].interval = tr[u].interval
            /\ tr'[u].remote = tr[u].remote
    BY <2>2, <2>3, <2>4, <2>5 DEF T
  <2>. QED
    BY <1>3, <2>6, StaysEnded
<1>4. CASE pool # None
  <2>. DEFINE opened == [tr EXCEPT ![t].made = TRUE, ![t].destroyed = FALSE,
                                   ![t].timer = FALSE, ![t].sock = pool]
              calm == [opened EXCEPT ![t].reconnecting = FALSE]
              k == [sock EXCEPT ![pool].consumers = @ + 1]
  <2>1. sock' = k /\ pool' = pool /\ pool \in Socks
    BY <1>0, <1>4 DEF OpenSocket
  <2>2. PICK r : /\ (r = opened /\ (sock[pool].is = "open" => ~tr[t].reconnecting)) \/ r = calm
                 /\ (UNCHANGED offer /\ tr' = r) \/ Announced({t}, {}, r)
    BY <1>4 DEF OpenSocket
  <2>3. Joined(r, t, pool) /\ (sock[pool].is = "open" => ~r[t].reconnecting)
    <3>1. /\ Joined(opened, t, pool) /\ Joined(calm, t, pool) /\ ~calm[t].reconnecting
          /\ opened[t].reconnecting = tr[t].reconnecting
      BY <1>0, <2>1, OpenedJoins
    <3>. HIDE DEF calm, opened
    <3>. QED
      BY <2>2, <3>1
  <2>4. /\ k \in [Socks -> SocketRecord] /\ k[pool].is = sock[pool].is
        /\ k[pool].closing = sock[pool].closing /\ k[pool].creator = sock[pool].creator
        /\ k[pool].consumers = sock[pool].consumers + 1
    BY <1>0, <2>1 DEF SocketRecord
  <2>5. Cardinality(Users(r, pool)) = Cardinality(Users(tr, pool)) + 1
    BY <2>3, JoinedUsers
  <2>. HIDE DEF k, opened, calm
  <2>7. Serving(r, k, pool)
    <3>1. Cardinality(Users(tr, pool)) = sock[pool].consumers /\ sock[pool].consumers \in Nat
      BY <1>0, <1>4 DEF Serving, SocketRecord
    <3>. QED
      BY <1>0, <1>4, <2>3, <2>4, <2>5, <3>1 DEF Serving, Joined
  <2>8. /\ tr' \in [Trackers -> Tracker] /\ offer' \in [Offers -> OfferRecord]
        /\ \A u \in Trackers : /\ Same(tr'[u], r[u]) /\ tr'[u].interval = r[u].interval
                               /\ tr'[u].remote = r[u].remote
        /\ \A x \in Offers : offer'[x].of = offer[x].of \/ offer'[x].of \in {t}
    <3>1. CASE UNCHANGED offer /\ tr' = r
      BY <1>0, <2>3, <3>1 DEF Same, Joined
    <3>2. CASE Announced({t}, {}, r)
      <4>. DEFINE T == {t}
                  E == {}
      <4>1. T \in SUBSET Trackers /\ r \in [Trackers -> Tracker] /\ Announced(T, E, r)
        BY <2>3, <3>2 DEF Joined
      <4>. HIDE DEF T, E
      <4>2. /\ tr' \in [Trackers -> Tracker] /\ offer' \in [Offers -> OfferRecord]
            /\ \A u \in Trackers : /\ Same(tr'[u], r[u]) /\ tr'[u].interval = r[u].interval
                                   /\ tr'[u].remote = r[u].remote
            /\ \A x \in Offers : offer'[x].of = offer[x].of \/ offer'[x].of \in T
        BY <1>0, <4>1, AnnouncedKeeps
      <4>. QED
        BY <4>2 DEF T
    <3>. QED
      BY <2>2, <3>1, <3>2
  <2>9. Serving(tr', k, pool)
    BY <2>7, <2>8, SameServing
  <2>10. Ended(tr', offer', gone')
    BY <1>3, <2>3, <2>8
  <2>. QED
    BY <2>1, <2>9, <2>10 DEF WsInv
<1>5. CASE pool = None
  <2>1. PICK s \in Socks :
            /\ sock' = [sock EXCEPT ![s] = [NoSocket EXCEPT !.is = "connecting",
                                                !.consumers = 1, !.creator = t]]
            /\ pool' = s
            /\ tr' = [tr EXCEPT ![t].made = TRUE, ![t].destroyed = FALSE,
                                ![t].timer = FALSE, ![t].sock = s]
            /\ UNCHANGED offer
    BY <1>5 DEF OpenSocket
  <2>2. /\ sock' \in [Socks -> SocketRecord] /\ sock'[s].is = "connecting"
        /\ ~sock'[s].closing /\ sock'[s].consumers = 1
    BY <1>0, <2>1 DEF SocketRecord, NoSocket
  <2>3. Joined(tr', t, s) /\ s # None
    BY <1>0, <2>1, OpenedJoins, WsAssumption
  <2>4. \A u \in Trackers : ~Alive(tr[u])
    BY <1>0, <1>5 DEF Serving
  <2>5. Users(tr', s) = {t}
    BY <2>3, <2>4 DEF Users, Joined
  <2>6. Cardinality(Users(tr', s)) = 1
    BY <2>5, FS_Singleton
  <2>7. Serving(tr', sock', s)
    BY <2>2, <2>3, <2>4, <2>6 DEF Serving, Joined
  <2>8. \A u \in Trackers : Same(tr'[u], tr'[u])
    BY DEF Same
  <2>9. Ended(tr', offer', gone')
    BY <1>0, <1>3, <2>1, <2>3, <2>8 DEF Joined
  <2>. QED
    BY <2>1, <2>7, <2>9 DEF WsInv
<1>. QED
  BY <1>4, <1>5

-----------------------------------------------------------------------------
(* Steps that move no tracker between sockets.                             *)
LEMMA Carries ==
    ASSUME WsInv, UNCHANGED <<pool, gone>>, Serving(tr, sock', pool),
           tr' \in [Trackers -> Tracker], offer' \in [Offers -> OfferRecord],
           \A u \in Trackers : Same(tr'[u], tr[u]),
           \A u \in Trackers : gone[u] = "live" =>
               /\ ~tr'[u].interval /\ ~tr'[u].remote
               /\ \A x \in Offers : offer'[x].of # u
    PROVE  WsInv'
<1>1. Serving(tr', sock', pool)
  BY SameServing
<1>2. Ended(tr', offer', gone)
  BY DEF WsInv, Ended, Same
<1>. QED
  BY <1>1, <1>2 DEF WsInv

(* The parts of the invariant.                                             *)
LEMMA Parts ==
    ASSUME WsInv
    PROVE  /\ tr \in [Trackers -> Tracker] /\ sock \in [Socks -> SocketRecord]
           /\ pool \in Socks \cup {None} /\ offer \in [Offers -> OfferRecord]
           /\ Serving(tr, sock, pool) /\ Ended(tr, offer, gone)
           /\ \A t \in Trackers : Live(t) <=> Alive(tr[t])
           /\ \A t \in Trackers : Live(t) => pool \in Socks /\ pool # None /\ tr[t].sock = pool
           /\ \A t \in Trackers : gone[t] = "live" =>
                 /\ ~Live(t) /\ ~tr[t].timer /\ ~tr[t].interval /\ ~tr[t].remote
                 /\ \A x \in Offers : offer[x].of # t
           /\ \A s : On(s) = Users(tr, s)
<1>1. Serving(tr, sock, pool) /\ Ended(tr, offer, gone)
  BY DEF WsInv
<1>2. \A s : On(s) = Users(tr, s)
  BY DEF On, Users, Live, Alive
<1>. QED
  BY <1>1, <1>2 DEF Serving, Ended, Live, Alive

LEMMA Tells ==
    ASSUME WsInv, NEW T \in SUBSET Trackers, NEW E, NEW now \in [Trackers -> Tracker],
           Announced(T, E, now), UNCHANGED <<pool, gone>>, Serving(tr, sock', pool),
           \A u \in Trackers : Same(now[u], tr[u]), \A u \in T : gone[u] # "live",
           \A u \in Trackers : gone[u] = "live" => ~now[u].interval /\ ~now[u].remote
    PROVE  WsInv'
<1>1. /\ tr' \in [Trackers -> Tracker] /\ offer' \in [Offers -> OfferRecord]
      /\ \A t \in Trackers : /\ Same(tr'[t], now[t]) /\ tr'[t].interval = now[t].interval
                             /\ tr'[t].remote = now[t].remote
      /\ \A x \in Offers : offer'[x].of = offer[x].of \/ offer'[x].of \in T
  <2>1. offer \in [Offers -> OfferRecord]
    BY Parts
  <2>. QED
    BY <2>1, AnnouncedKeeps
<1>2. \A u \in Trackers : Same(tr'[u], tr[u])
  BY <1>1 DEF Same
<1>3. \A u \in Trackers : gone[u] = "live" =>
          /\ ~tr'[u].interval /\ ~tr'[u].remote
          /\ \A x \in Offers : offer'[x].of # u
  BY <1>1, Parts
<1>. QED
  BY <1>1, <1>2, <1>3, Carries

LEMMA AnnounceKeeps ==
    ASSUME WsInv, NEW t \in Trackers, NEW kind \in {"plain", "event"},
           NEW now \in [Trackers -> Tracker], Announce(t, kind, now), UNCHANGED <<pool, gone>>,
           \A u \in Trackers : Same(now[u], tr[u]),
           \A u \in Trackers : gone[u] = "live" => ~now[u].interval /\ ~now[u].remote
    PROVE  WsInv'
<1>0. /\ sock \in [Socks -> SocketRecord] /\ Serving(tr, sock, pool) /\ offer \in [Offers -> OfferRecord]
      /\ Live(t) => pool \in Socks /\ pool # None /\ tr[t].sock = pool /\ gone[t] # "live"
  BY Parts
<1>1. ASSUME tr' = now, UNCHANGED offer, Serving(tr, sock', pool) PROVE WsInv'
  BY <1>1, Parts, Carries
<1>2. CASE ~Live(t) \/ tr[t].reconnecting
  BY <1>0, <1>1, <1>2 DEF Announce
<1>3. CASE Live(t) /\ ~tr[t].reconnecting /\ sock[tr[t].sock].is # "open"
  <2>1. /\ sock' = [sock EXCEPT ![pool].queue = @ \cup {<<t, kind>>}]
        /\ tr' = now /\ UNCHANGED offer
    BY <1>0, <1>3 DEF Announce
  <2>. DEFINE q == sock[pool].queue \cup {<<t, kind>>}
  <2>4. sock[pool] \in SocketRecord /\ q \in SUBSET (Trackers \X {"plain", "event"})
    BY <1>0, <1>3 DEF SocketRecord
  <2>5. sock' = [sock EXCEPT ![pool].queue = q]
    BY <2>1
  <2>. HIDE DEF q
  <2>2. /\ sock' \in [Socks -> SocketRecord] /\ sock'[pool].is = sock[pool].is
        /\ sock'[pool].closing = sock[pool].closing /\ sock'[pool].creator = sock[pool].creator
        /\ sock'[pool].consumers = sock[pool].consumers
    BY <1>0, <1>3, <2>4, <2>5 DEF SocketRecord
  <2>3. Serving(tr, sock', pool)
    BY <1>0, <2>2 DEF Serving
  <2>. QED
    BY <1>1, <2>1, <2>3
<1>4. CASE Live(t) /\ ~tr[t].reconnecting /\ sock[tr[t].sock].is = "open"
  <2>1. sock' = sock /\ (Announced({t}, {}, now) \/ Announced({}, {t}, now))
    BY <1>4 DEF Announce
  <2>2. ASSUME NEW T \in SUBSET {t}, NEW E, Announced(T, E, now) PROVE WsInv'
    <3>1. T \in SUBSET Trackers /\ \A u \in T : gone[u] # "live"
      BY <1>0, <1>4
    <3>. QED
      BY <1>0, <2>1, <2>2, <3>1, Tells
  <2>. QED
    BY <2>1, <2>2
<1>. QED
  BY <1>2, <1>3, <1>4

LEMMA ConnectKeeps ==
    ASSUME WsInv, NEW s \in Socks, Connect(s)
    PROVE  WsInv'
<1>0. /\ tr \in [Trackers -> Tracker] /\ sock \in [Socks -> SocketRecord]
      /\ pool \in Socks \cup {None} /\ offer \in [Offers -> OfferRecord]
      /\ Serving(tr, sock, pool) /\ UNCHANGED <<pool, gone>>
  BY Parts DEF Connect
<1>. DEFINE back == {t \in {sock[s].creator} : t \in On(s) /\ tr[t].reconnecting}
            now == [t \in Trackers |->
                       IF t \in back THEN [tr[t] EXCEPT !.reconnecting = FALSE] ELSE tr[t]]
            ask(k) == {t \in Trackers : /\ <<t, k>> \in sock[s].queue
                                        /\ Live(t) /\ ~now[t].reconnecting}
            T == back \cup ask("plain")
            E == ask("event")
            k2 == [sock EXCEPT ![s].is = "open", ![s].queue = {}]
<1>1. Announced(T, E, now) /\ sock' = k2
  BY DEF Connect
<1>2. T \in SUBSET Trackers /\ \A u \in T : Live(u)
  BY DEF On
<1>3. \A t \in Trackers : now[t] = tr[t] \/ (t \in back /\ now[t] = [tr[t] EXCEPT !.reconnecting = FALSE])
  OBVIOUS
<1>4. \A t \in back : t = sock[s].creator /\ t \in On(s)
  OBVIOUS
<1>5. \A t \in On(s) : t = sock[s].creator /\ tr[t].reconnecting => t \in back
  OBVIOUS
<1>6. DOMAIN now = Trackers /\ now = [t \in Trackers |-> now[t]]
  OBVIOUS
<1>7. \A t \in back : now[t] = [tr[t] EXCEPT !.reconnecting = FALSE]
  BY DEF On
<1>. HIDE DEF now, back, T, E
<1>8. /\ now \in [Trackers -> Tracker]
      /\ \A t \in Trackers : /\ Alive(now[t]) = Alive(tr[t]) /\ now[t].sock = tr[t].sock
                             /\ now[t].timer = tr[t].timer /\ now[t].made = tr[t].made
                             /\ now[t].destroyed = tr[t].destroyed
                             /\ now[t].interval = tr[t].interval /\ now[t].remote = tr[t].remote
                             /\ now[t].reconnecting => tr[t].reconnecting /\ t \notin back
  <2>1. ASSUME NEW t \in Trackers
        PROVE  /\ now[t] \in Tracker /\ Alive(now[t]) = Alive(tr[t]) /\ now[t].sock = tr[t].sock
               /\ now[t].timer = tr[t].timer /\ now[t].made = tr[t].made
               /\ now[t].destroyed = tr[t].destroyed
               /\ now[t].interval = tr[t].interval /\ now[t].remote = tr[t].remote
               /\ now[t].reconnecting => tr[t].reconnecting /\ t \notin back
    <3>1. tr[t] \in Tracker
      BY <1>0
    <3>2. CASE t \in back
      <4>1. now[t] = [tr[t] EXCEPT !.reconnecting = FALSE]
        BY <1>7, <3>2
      <4>. QED
        BY <3>1, <4>1 DEF Tracker, Alive
    <3>3. CASE t \notin back
      <4>1. now[t] = tr[t]
        BY <1>3, <3>3
      <4>. QED
        BY <3>1, <3>3, <4>1
    <3>. QED
      BY <3>2, <3>3
  <2>. QED
    BY <1>6, <2>1
<1>9. \A u : Users(now, u) = Users(tr, u)
  BY <1>8 DEF Users
<1>10. /\ k2 \in [Socks -> SocketRecord] /\ k2[s].closing = sock[s].closing
       /\ k2[s].consumers = sock[s].consumers /\ k2[s].creator = sock[s].creator /\ k2[s].is = "open"
       /\ \A u \in Socks \ {s} : k2[u] = sock[u]
  BY <1>0 DEF SocketRecord
<1>. HIDE DEF k2
<1>11. Serving(now, k2, pool)
  <2>1. ASSUME pool # None, NEW t \in Trackers, Alive(now[t]), now[t].reconnecting, k2[pool].is = "open"
        PROVE  k2[pool].creator # t
    <3>1. Alive(tr[t]) /\ tr[t].sock = pool /\ tr[t].reconnecting /\ t \notin back
      BY <1>0, <1>8, <2>1 DEF Serving
    <3>2. CASE pool = s
      BY <1>5, <1>10, <3>1, <3>2 DEF On, Live, Alive
    <3>3. CASE pool # s
      BY <1>0, <1>10, <2>1, <3>1, <3>3 DEF Serving
    <3>. QED
      BY <3>2, <3>3
  <2>2. pool # None => /\ k2[pool].is \in {"connecting", "open"} /\ ~k2[pool].closing
                       /\ k2[pool].consumers = Cardinality(Users(now, pool)) /\ k2[pool].consumers > 0
    BY <1>0, <1>9, <1>10 DEF Serving
  <2>3. \A t \in Trackers : Alive(now[t]) => pool # None /\ now[t].sock = pool /\ ~now[t].timer
    BY <1>0, <1>8 DEF Serving
  <2>. QED
    BY <1>0, <1>8, <1>10, <2>1, <2>2, <2>3 DEF Serving
<1>12. /\ tr' \in [Trackers -> Tracker] /\ offer' \in [Offers -> OfferRecord]
       /\ \A t \in Trackers : /\ Same(tr'[t], now[t]) /\ tr'[t].interval = now[t].interval
                              /\ tr'[t].remote = now[t].remote
       /\ \A x \in Offers : offer'[x].of = offer[x].of \/ offer'[x].of \in T
  <2>1. now \in [Trackers -> Tracker] /\ T \in SUBSET Trackers /\ offer \in [Offers -> OfferRecord]
    BY <1>0, <1>2, <1>8
  <2>2. Announced(T, E, now)
    BY <1>1
  <2>. QED
    BY <2>1, <2>2, AnnouncedKeeps
<1>13. Serving(tr', sock', pool)
  BY <1>1, <1>11, <1>12, SameServing
<1>14. Ended(tr', offer', gone)
  <2>1. \A u \in T : gone[u] # "live"
    BY <1>2, Parts
  <2>2. Ended(tr, offer, gone)
    BY Parts
  <2>. QED
    BY <1>8, <1>12, <2>1, <2>2 DEF Ended, Same
<1>. QED
  BY <1>0, <1>13, <1>14 DEF WsInv

-----------------------------------------------------------------------------
(* Messages and timers of offers.                                          *)
LEMMA HeardType ==
    ASSUME NEW s, NEW now \in [Trackers -> Tracker]
    PROVE  /\ Heard(s, now) \in [Trackers -> Tracker]
           /\ \A t \in Trackers : /\ Same(Heard(s, now)[t], now[t])
                                  /\ Heard(s, now)[t].interval = now[t].interval
                                  /\ Heard(s, now)[t].remote = now[t].remote
<1>. DEFINE h == Heard(s, now)
<1>1. DOMAIN h = Trackers /\ h = [t \in Trackers |-> h[t]]
  BY DEF Heard
<1>2. \A t \in Trackers : h[t] = now[t] \/ h[t] = [now[t] EXCEPT !.expecting = FALSE]
  BY DEF Heard
<1>. HIDE DEF h
<1>3. ASSUME NEW t \in Trackers
      PROVE  /\ h[t] \in Tracker /\ Same(h[t], now[t]) /\ h[t].interval = now[t].interval
             /\ h[t].remote = now[t].remote
  <2>1. now[t] \in Tracker
    OBVIOUS
  <2>. QED
    BY <1>2, <2>1 DEF Tracker, Same
<1>4. h \in [Trackers -> Tracker]
  BY <1>1, <1>3
<1>. QED
  BY <1>3, <1>4 DEF h

(* One field of one tracker changes that the pool does not look at.        *)
LEMMA Marked ==
    ASSUME tr \in [Trackers -> Tracker], NEW t \in Trackers, NEW v \in BOOLEAN,
           NEW r, \/ r = [tr EXCEPT ![t].interval = v]
                  \/ r = [tr EXCEPT ![t].remote = v]
                  \/ r = [tr EXCEPT ![t].expecting = v]
    PROVE  /\ r \in [Trackers -> Tracker] /\ \A u \in Trackers : Same(r[u], tr[u])
           /\ \A u \in Trackers : /\ r[u].interval => tr[u].interval \/ u = t
                                  /\ r[u].remote => tr[u].remote \/ u = t
<1>0. tr[t] \in Tracker
  OBVIOUS
<1>1. CASE r = [tr EXCEPT ![t].interval = v]
  BY <1>0, <1>1 DEF Tracker, Same
<1>2. CASE r = [tr EXCEPT ![t].remote = v]
  BY <1>0, <1>2 DEF Tracker, Same
<1>3. CASE r = [tr EXCEPT ![t].expecting = v]
  BY <1>0, <1>3 DEF Tracker, Same
<1>. QED
  BY <1>1, <1>2, <1>3

LEMMA HeardKeeps ==
    ASSUME WsInv, NEW s, NEW now \in [Trackers -> Tracker], tr' = Heard(s, now),
           UNCHANGED <<sock, pool, gone>>, offer' \in [Offers -> OfferRecord],
           \A x \in Offers : offer'[x].of = offer[x].of,
           \A u \in Trackers : Same(now[u], tr[u]),
           \A u \in Trackers : gone[u] = "live" => ~now[u].interval /\ ~now[u].remote
    PROVE  WsInv'
<1>1. /\ tr' \in [Trackers -> Tracker]
      /\ \A t \in Trackers : /\ Same(tr'[t], now[t]) /\ tr'[t].interval = now[t].interval
                             /\ tr'[t].remote = now[t].remote
  BY HeardType
<1>2. \A u \in Trackers : Same(tr'[u], tr[u])
  BY <1>1 DEF Same
<1>3. \A u \in Trackers : gone[u] = "live" =>
          /\ ~tr'[u].interval /\ ~tr'[u].remote /\ \A x \in Offers : offer'[x].of # u
  BY <1>1, Parts
<1>4. Serving(tr, sock', pool)
  BY Parts
<1>. QED
  BY <1>1, <1>2, <1>3, <1>4, Carries

LEMMA OfferKeeps ==
    ASSUME WsInv, NEW o \in Offers,
           List(o) \/ Miss(o) \/ OfferTimeout(o) \/ Linked(o) \/ OnAnswer(o)
    PROVE  WsInv'
<1>0. /\ tr \in [Trackers -> Tracker] /\ offer \in [Offers -> OfferRecord] /\ Serving(tr, sock, pool)
      /\ \A u \in Trackers : gone[u] = "live" => ~tr[u].interval /\ ~tr[u].remote
      /\ \A u \in Trackers : gone[u] = "live" => \A x \in Offers : offer[x].of # u
      /\ \A u \in Trackers : Same(tr[u], tr[u]) /\ u # None
  BY Parts, WsAssumption DEF Same
<1>1. UNCHANGED <<sock, pool, gone>>
  BY DEF List, Miss, OfferTimeout, Linked, OnAnswer
<1>2. /\ offer' \in [Offers -> OfferRecord]
      /\ \A x \in Offers : offer'[x].of = offer[x].of \/ offer'[x].of = None
  <2>1. CASE offer' = [p \in Offers |-> IF p \in batch[offer[o].of]
                                       THEN [offer[p] EXCEPT !.is = "sent"] ELSE offer[p]]
    <3>1. \A x \in Offers : offer'[x] = [offer[x] EXCEPT !.is = "sent"] \/ offer'[x] = offer[x]
      BY <2>1
    <3>2. \A x \in Offers : offer[x] \in OfferRecord
      BY <1>0
    <3>3. \A x \in Offers : offer'[x] \in OfferRecord /\ offer'[x].of = offer[x].of
      BY <3>1, <3>2 DEF OfferRecord, Stages
    <3>. QED
      BY <2>1, <3>3
  <2>2. CASE \E st \in Stages : offer' = [offer EXCEPT ![o].is = st]
    BY <1>0, <2>2 DEF OfferRecord
  <2>3. CASE offer' = [offer EXCEPT ![o] = Free]
    BY <1>0, <2>3 DEF OfferRecord, Free
  <2>. QED
    BY <2>1, <2>2, <2>3 DEF List, Miss, OfferTimeout, Linked, OnAnswer, Stages
<1>3. ASSUME tr' \in [Trackers -> Tracker], \A u \in Trackers : Same(tr'[u], tr[u]),
             \A u \in Trackers : tr'[u].interval = tr[u].interval /\ tr'[u].remote = tr[u].remote
      PROVE  WsInv'
  <2>1. \A u \in Trackers : gone[u] = "live" =>
          /\ ~tr'[u].interval /\ ~tr'[u].remote /\ \A x \in Offers : offer'[x].of # u
    BY <1>0, <1>2, <1>3
  <2>. QED
    BY <1>0, <1>1, <1>2, <1>3, <2>1, Carries
<1>4. CASE UNCHANGED tr
  BY <1>0, <1>3, <1>4
<1>5. CASE tr' = [tr EXCEPT ![offer[o].of].expecting = TRUE]
  <2>1. CASE offer[o].of \in Trackers
    <3>. DEFINE t == offer[o].of
    <3>1. tr' \in [Trackers -> Tracker] /\ tr[t] \in Tracker /\ tr'[t] = [tr[t] EXCEPT !.expecting = TRUE]
          /\ \A u \in Trackers \ {t} : tr'[u] = tr[u]
      BY <1>0, <1>5, <2>1 DEF Tracker
    <3>2. /\ Same(tr'[t], tr[t]) /\ tr'[t].interval = tr[t].interval /\ tr'[t].remote = tr[t].remote
      BY <3>1 DEF Same, Tracker
    <3>. QED
      BY <1>0, <1>3, <3>1, <3>2
  <2>2. CASE offer[o].of \notin Trackers
    <3>1. tr' = tr
      BY <1>0, <1>5, <2>2
    <3>. QED
      BY <1>4, <3>1
  <2>. QED
    BY <2>1, <2>2
<1>6. CASE OnAnswer(o)
  <2>. DEFINE s == tr[offer[o].of].sock
  <2>1. tr' = Heard(s, tr)
    BY <1>6 DEF OnAnswer
  <2>. HIDE DEF s
  <2>2. /\ tr' \in [Trackers -> Tracker]
        /\ \A t \in Trackers : /\ Same(tr'[t], tr[t]) /\ tr'[t].interval = tr[t].interval
                               /\ tr'[t].remote = tr[t].remote
    BY <1>0, <2>1, HeardType
  <2>. QED
    BY <1>3, <2>2
<1>. QED
  BY <1>4, <1>5, <1>6 DEF List, Miss, OfferTimeout, Linked

LEMMA TrackerKeeps ==
    ASSUME WsInv, NEW t \in Trackers,
           \/ New(t) \/ ReconnectTimer(t) \/ Start(t) \/ Interval(t) \/ Tell(t, "plain") \/ Tell(t, "event")
           \/ OnResponse(t) \/ OnOffer(t) \/ SendAnswer(t) \/ RemoteLinked(t)
    PROVE  WsInv'
<1>0. /\ tr \in [Trackers -> Tracker] /\ offer \in [Offers -> OfferRecord] /\ Serving(tr, sock, pool)
      /\ \A u \in Trackers : gone[u] = "live" => ~tr[u].interval /\ ~tr[u].remote
      /\ \A u \in Trackers : gone[u] = "live" => \A x \in Offers : offer[x].of # u
      /\ \A u \in Trackers : Same(tr[u], tr[u])
      /\ Live(t) => gone[t] # "live" /\ ~tr[t].timer
      /\ tr[t].timer => gone[t] # "live"
      /\ gone[t] # "no" => tr[t].made
  BY Parts DEF Same, Serving, Ended, Live, Alive
<1>1. CASE New(t)
  <2>1. ~Alive(tr[t]) /\ gone[t] # "live" /\ OpenSocket(t) /\ UNCHANGED gone
    BY <1>0, <1>1 DEF New, Alive
  <2>. QED
    BY <2>1, Opens
<1>2. CASE ReconnectTimer(t)
  <2>1. ~Alive(tr[t]) /\ gone[t] # "live" /\ OpenSocket(t) /\ UNCHANGED gone
    BY <1>0, <1>2 DEF ReconnectTimer, Alive, Live
  <2>. QED
    BY <2>1, Opens
<1>3. CASE Start(t)
  <2>. DEFINE now == [tr EXCEPT ![t].interval = TRUE]
  <2>1. Announce(t, "plain", now) /\ UNCHANGED <<pool, gone>> /\ gone[t] = "no"
    BY <1>3 DEF Start
  <2>2. /\ now \in [Trackers -> Tracker] /\ \A u \in Trackers : Same(now[u], tr[u])
        /\ \A u \in Trackers : gone[u] = "live" => ~now[u].interval /\ ~now[u].remote
    <3>1. now = [tr EXCEPT ![t].interval = TRUE]
      OBVIOUS
    <3>. HIDE DEF now
    <3>2. /\ now \in [Trackers -> Tracker] /\ \A u \in Trackers : Same(now[u], tr[u])
          /\ \A u \in Trackers : /\ now[u].interval => tr[u].interval \/ u = t
                                 /\ now[u].remote => tr[u].remote \/ u = t
      BY <1>0, <3>1, Marked
    <3>. QED
      BY <1>0, <2>1, <3>2
  <2>. HIDE DEF now
  <2>. QED
    BY <2>1, <2>2, AnnounceKeeps
<1>4. CASE Interval(t) \/ Tell(t, "plain") \/ Tell(t, "event")
  <2>1. /\ Announce(t, "plain", tr) \/ Announce(t, "event", tr)
        /\ UNCHANGED <<pool, gone>>
    BY <1>4 DEF Interval, Tell
  <2>. QED
    BY <1>0, <2>1, AnnounceKeeps
<1>5. CASE OnResponse(t) \/ OnOffer(t)
  <2>1. PICK now, s : /\ (now = [tr EXCEPT ![t].interval = TRUE] \/ now = [tr EXCEPT ![t].remote = TRUE])
                      /\ tr' = Heard(s, now)
    BY <1>5 DEF OnResponse, OnOffer
  <2>2. Live(t) /\ UNCHANGED <<sock, pool, gone, offer>>
    BY <1>5 DEF OnResponse, OnOffer
  <2>3. /\ now \in [Trackers -> Tracker] /\ \A u \in Trackers : Same(now[u], tr[u])
        /\ \A u \in Trackers : /\ now[u].interval => tr[u].interval \/ u = t
                               /\ now[u].remote => tr[u].remote \/ u = t
    BY <1>0, <2>1, Marked
  <2>4. \A u \in Trackers : gone[u] = "live" => ~now[u].interval /\ ~now[u].remote
    BY <1>0, <2>2, <2>3
  <2>. QED
    BY <1>0, <2>1, <2>2, <2>3, <2>4, HeardKeeps
<1>6. CASE SendAnswer(t) \/ RemoteLinked(t)
  <2>1. /\ \/ tr' = [tr EXCEPT ![t].expecting = TRUE] \/ tr' = [tr EXCEPT ![t].remote = FALSE]
        /\ UNCHANGED <<sock, pool, gone, offer>> /\ tr[t].remote
    BY <1>6 DEF SendAnswer, RemoteLinked
  <2>2. /\ tr' \in [Trackers -> Tracker] /\ \A u \in Trackers : Same(tr'[u], tr[u])
        /\ \A u \in Trackers : /\ tr'[u].interval => tr[u].interval \/ u = t
                               /\ tr'[u].remote => tr[u].remote \/ u = t
    BY <1>0, <2>1, Marked
  <2>3. gone[t] # "live"
    BY <1>0, <2>1
  <2>4. \A u \in Trackers : gone[u] = "live" =>
          /\ ~tr'[u].interval /\ ~tr'[u].remote /\ \A x \in Offers : offer'[x].of # u
    BY <1>0, <2>1, <2>2, <2>3
  <2>. QED
    BY <1>0, <2>1, <2>2, <2>4, Carries
<1>. QED
  BY <1>1, <1>2, <1>3, <1>4, <1>5, <1>6

-----------------------------------------------------------------------------
(* Sockets and trackers that end.                                          *)
LEMMA ShutType ==
    ASSUME tr \in [Trackers -> Tracker], NEW t \in Trackers
    PROVE  /\ Shut(t) \in Tracker /\ Shut(t).made = tr[t].made /\ Shut(t).destroyed
           /\ ~Shut(t).timer /\ ~Shut(t).interval /\ ~Shut(t).remote
           /\ [Shut(t) EXCEPT !.reconnecting = TRUE, !.timer = TRUE] \in Tracker
           /\ [Shut(t) EXCEPT !.reconnecting = TRUE, !.timer = TRUE].made = tr[t].made
           /\ [Shut(t) EXCEPT !.reconnecting = TRUE, !.timer = TRUE].destroyed
<1>1. tr[t] \in Tracker
  OBVIOUS
<1>. QED
  BY <1>1 DEF Shut, Tracker

LEMMA LostKeeps ==
    ASSUME offer \in [Offers -> OfferRecord], NEW T \in SUBSET Trackers, Lost(T)
    PROVE  /\ offer' \in [Offers -> OfferRecord]
           /\ \A x \in Offers : \/ offer'[x].of = offer[x].of /\ offer[x].of \notin T
                                \/ offer'[x].of = None
<1>1. Free \in OfferRecord /\ Free.of = None
  BY DEF Free, OfferRecord
<1>. QED
  BY <1>1 DEF Lost

LEMMA FailKeeps ==
    ASSUME WsInv, NEW s \in Socks, Fail(s)
    PROVE  WsInv'
<1>0. /\ tr \in [Trackers -> Tracker] /\ sock \in [Socks -> SocketRecord]
      /\ pool \in Socks \cup {None} /\ offer \in [Offers -> OfferRecord]
      /\ Serving(tr, sock, pool) /\ Ended(tr, offer, gone) /\ UNCHANGED gone
      /\ \A t \in Trackers : t # None
      /\ s # None
  BY Parts, WsAssumption DEF Fail
<1>. DEFINE T == On(s)
            x == [NoSocket EXCEPT !.is = "dying", !.cbs = @ \cup sock[s].cbs]
<1>1. /\ T \in SUBSET Trackers /\ Lost(T) /\ sock' = [sock EXCEPT ![s] = x]
      /\ pool' = IF pool = s THEN None ELSE pool
      /\ tr' = [t \in Trackers |-> IF t \in T
                 THEN [Shut(t) EXCEPT !.reconnecting = TRUE, !.timer = TRUE] ELSE tr[t]]
  BY DEF Fail, On
<1>2. \A t \in Trackers : t \in T <=> Alive(tr[t]) /\ tr[t].sock = s
  BY DEF On, Live, Alive
<1>3. x \in SocketRecord
  BY <1>0 DEF NoSocket, SocketRecord
<1>. HIDE DEF T, x
<1>4. tr' \in [Trackers -> Tracker]
  BY <1>0, <1>1, ShutType
<1>5. \A t \in T : tr'[t].made = tr[t].made /\ tr'[t].destroyed
  BY <1>0, <1>1, ShutType
<1>6. \A t \in Trackers \ T : tr'[t] = tr[t]
  BY <1>1
<1>7. /\ offer' \in [Offers -> OfferRecord]
      /\ \A y \in Offers : offer'[y].of = offer[y].of \/ offer'[y].of = None
  BY <1>0, <1>1, LostKeeps
<1>8. \A t \in T : gone[t] # "live"
  BY <1>0, <1>1, <1>2 DEF Ended, Alive
<1>9. Ended(tr', offer', gone)
  <2>1. gone \in [Trackers -> {"no", "live", "waiting"}]
    BY <1>0 DEF Ended
  <2>2. ASSUME NEW t \in Trackers, gone[t] # "no" PROVE tr'[t].made
    BY <1>0, <1>5, <1>6, <2>2 DEF Ended
  <2>3. ASSUME NEW t \in Trackers, gone[t] = "live"
        PROVE  /\ tr'[t].destroyed /\ ~tr'[t].timer /\ ~tr'[t].interval /\ ~tr'[t].remote
               /\ \A y \in Offers : offer'[y].of # t
    <3>1. tr'[t] = tr[t]
      BY <1>6, <1>8, <2>3
    <3>2. /\ tr[t].destroyed /\ ~tr[t].timer /\ ~tr[t].interval /\ ~tr[t].remote
          /\ \A y \in Offers : offer[y].of # t
      BY <1>0, <2>3 DEF Ended
    <3>3. t # None
      BY <1>0
    <3>. QED
      BY <1>7, <3>1, <3>2, <3>3
  <2>. QED
    BY <1>7, <2>1, <2>2, <2>3 DEF Ended
<1>10. sock' \in [Socks -> SocketRecord]
  BY <1>0, <1>1, <1>3
<1>11. CASE pool = s
  <2>1. \A t \in Trackers : ~Alive(tr'[t])
    BY <1>0, <1>2, <1>5, <1>6, <1>11 DEF Serving, Alive
  <2>2. pool' = None
    BY <1>1, <1>11
  <2>3. Serving(tr', sock', None)
    BY <1>4, <1>10, <2>1 DEF Serving
  <2>. QED
    BY <1>0, <1>9, <2>2, <2>3 DEF WsInv
<1>12. CASE pool # s
  <2>1. T = {}
    <3>1. \A t \in Trackers : Alive(tr[t]) => tr[t].sock = pool
      BY <1>0 DEF Serving
    <3>2. ASSUME NEW t \in T PROVE FALSE
      <4>1. t \in Trackers
        BY <1>1
      <4>. QED
        BY <1>2, <1>12, <3>1, <3>2, <4>1
    <3>. QED
      BY <3>2
  <2>2. tr' = tr
    BY <1>0, <1>1, <2>1
  <2>3. Serving(tr, [sock EXCEPT ![s] = x], pool)
    BY <1>0, <1>3, <1>12, OtherSocket
  <2>4. Serving(tr', sock', pool')
    BY <1>1, <1>12, <2>2, <2>3
  <2>. QED
    BY <1>0, <1>9, <2>4 DEF WsInv
<1>. QED
  BY <1>11, <1>12

LEMMA SocketEnds ==
    ASSUME WsInv, NEW s \in Socks, Cleanup(s) \/ Closed(s)
    PROVE  WsInv'
<1>0. /\ sock \in [Socks -> SocketRecord] /\ Serving(tr, sock, pool) /\ Ended(tr, offer, gone)
      /\ s # None /\ sock[s] \in SocketRecord
  BY Parts, WsAssumption
<1>1. UNCHANGED <<tr, offer, pool, gone>>
  BY DEF Cleanup, Closed
<1>2. PICK x \in SocketRecord : sock' = [sock EXCEPT ![s] = x]
  <2>1. CASE Cleanup(s)
    <3>. DEFINE x == [sock[s] EXCEPT !.is = "dying", !.closing = FALSE]
    <3>1. x \in SocketRecord
      BY <1>0 DEF SocketRecord
    <3>2. sock' = [sock EXCEPT ![s] = x]
      BY <1>0, <2>1 DEF Cleanup
    <3>. QED
      BY <3>1, <3>2
  <2>2. CASE Closed(s)
    <3>1. NoSocket \in SocketRecord
      BY DEF NoSocket, SocketRecord
    <3>. QED
      BY <2>2, <3>1 DEF Closed
  <2>. QED
    BY <2>1, <2>2
<1>3. s # pool
  BY <1>0 DEF Serving, Cleanup, Closed
<1>4. Serving(tr, [sock EXCEPT ![s] = x], pool)
  BY <1>0, <1>3, OtherSocket
<1>. QED
  BY <1>0, <1>1, <1>2, <1>4 DEF WsInv

LEMMA DestroyKeeps ==
    ASSUME WsInv, NEW t \in Trackers, Destroy(t)
    PROVE  WsInv'
<1>0. /\ tr \in [Trackers -> Tracker] /\ sock \in [Socks -> SocketRecord]
      /\ pool \in Socks \cup {None} /\ offer \in [Offers -> OfferRecord]
      /\ gone \in [Trackers -> {"no", "live", "waiting"}]
      /\ Serving(tr, sock, pool) /\ Ended(tr, offer, gone)
      /\ t # None /\ tr[t].made /\ gone[t] = "no"
  BY Parts, WsAssumption DEF Destroy, Ended
<1>1. CASE ~Live(t)
  <2>1. gone' = [gone EXCEPT ![t] = "waiting"] /\ UNCHANGED <<tr, offer, sock, pool>>
    BY <1>1 DEF Destroy
  <2>2. Ended(tr, offer, gone')
    BY <1>0, <2>1 DEF Ended
  <2>. QED
    BY <1>0, <2>1, <2>2 DEF WsInv
<1>2. CASE Live(t)
  <2>1. /\ gone' = [gone EXCEPT ![t] = "live"] /\ tr' = [tr EXCEPT ![t] = Shut(t)] /\ Lost({t})
    BY <1>2 DEF Destroy
  <2>2. Alive(tr[t]) /\ pool # None /\ pool \in Socks /\ tr[t].sock = pool
    BY <1>0, <1>2 DEF Live, Alive, Serving
  <2>3. /\ tr' \in [Trackers -> Tracker] /\ tr'[t].made /\ tr'[t].destroyed
        /\ ~tr'[t].timer /\ ~tr'[t].interval /\ ~tr'[t].remote
        /\ \A u \in Trackers \ {t} : tr'[u] = tr[u]
    BY <1>0, <2>1, ShutType
  <2>4. /\ offer' \in [Offers -> OfferRecord]
        /\ \A x \in Offers : (offer'[x].of = offer[x].of /\ offer[x].of # t) \/ offer'[x].of = None
    <3>. DEFINE T == {t}
    <3>1. T \in SUBSET Trackers /\ Lost(T)
      BY <2>1
    <3>. HIDE DEF T
    <3>2. /\ offer' \in [Offers -> OfferRecord]
          /\ \A x \in Offers : \/ offer'[x].of = offer[x].of /\ offer[x].of \notin T
                               \/ offer'[x].of = None
      BY <1>0, <3>1, LostKeeps
    <3>. QED
      BY <3>2 DEF T
  <2>5. Ended(tr', offer', gone')
    <3>1. \A u \in Trackers : u # None
      BY WsAssumption
    <3>2. gone' \in [Trackers -> {"no", "live", "waiting"}] /\ \A u \in Trackers \ {t} : gone'[u] = gone[u]
      BY <1>0, <2>1
    <3>. QED
      BY <1>0, <2>3, <2>4, <3>1, <3>2 DEF Ended
  <2>6. Users(tr', pool) = Users(tr, pool) \ {t} /\ t \in Users(tr, pool)
    BY <2>2, <2>3 DEF Users, Alive
  <2>7. /\ Cardinality(Users(tr', pool)) = Cardinality(Users(tr, pool)) - 1
        /\ sock[pool].consumers = Cardinality(Users(tr, pool))
    <3>1. sock[pool].consumers = Cardinality(Users(tr, pool))
      BY <1>0, <2>2 DEF Serving
    <3>2. IsFiniteSet(Users(tr, pool))
      BY UsersFinite
    <3>. QED
      BY <2>6, <3>1, <3>2, FS_RemoveElement
  <2>8. CASE Left > 0
    <3>1. pool' = pool /\ sock' = [sock EXCEPT ![pool].consumers = Left]
      BY <1>2, <2>8 DEF Destroy
    <3>2. /\ sock[pool] \in SocketRecord /\ Left \in Nat /\ Left = Cardinality(Users(tr', pool))
      BY <1>0, <2>2, <2>7, UsersFinite DEF Left
    <3>3. sock'[pool] = [sock[pool] EXCEPT !.consumers = Left] /\ sock' \in [Socks -> SocketRecord]
      BY <1>0, <2>2, <3>1, <3>2 DEF SocketRecord
    <3>4. /\ sock'[pool].consumers = Left /\ sock'[pool].is = sock[pool].is
          /\ sock'[pool].closing = sock[pool].closing /\ sock'[pool].creator = sock[pool].creator
      BY <3>2, <3>3 DEF SocketRecord
    <3>5. \A u \in Trackers : Alive(tr'[u]) => u # t /\ tr'[u] = tr[u]
      BY <2>3 DEF Alive
    <3>6. Serving(tr', sock', pool)
      BY <1>0, <2>2, <2>3, <2>8, <3>2, <3>3, <3>4, <3>5 DEF Serving
    <3>. QED
      BY <2>5, <3>1, <3>6 DEF WsInv
  <2>9. CASE ~(Left > 0)
    <3>1. /\ pool' = None
          /\ sock' = [sock EXCEPT ![pool].consumers = 0, ![pool].cbs = {t},
                          ![pool].closing = tr[t].expecting,
                          ![pool].is = IF tr[t].expecting THEN @ ELSE "dying"]
      BY <1>2, <2>9 DEF Destroy
    <3>2. Users(tr', pool) = {}
      BY <2>7, <2>9, UsersFinite, FS_EmptySet DEF Left
    <3>3. \A u \in Trackers : ~Alive(tr'[u])
      BY <1>0, <2>3, <3>2 DEF Serving, Users, Alive
    <3>4. sock' \in [Socks -> SocketRecord]
      <4>1. sock[pool] \in SocketRecord /\ tr[t].expecting \in BOOLEAN
        BY <1>0, <2>2 DEF Tracker
      <4>. DEFINE x == [sock[pool] EXCEPT !.consumers = 0, !.cbs = {t}, !.closing = tr[t].expecting,
                            !.is = IF tr[t].expecting THEN @ ELSE "dying"]
      <4>2. x \in SocketRecord
        BY <4>1 DEF SocketRecord
      <4>3. sock' = [sock EXCEPT ![pool] = x]
        BY <1>0, <2>2, <3>1, <4>1 DEF SocketRecord
      <4>. QED
        BY <1>0, <4>2, <4>3
    <3>5. Serving(tr', sock', None)
      BY <2>3, <3>3, <3>4 DEF Serving
    <3>. QED
      BY <2>5, <3>1, <3>5 DEF WsInv
  <2>. QED
    BY <2>8, <2>9
<1>. QED
  BY <1>1, <1>2

-----------------------------------------------------------------------------
THEOREM InitWsInv == Init => WsInv
<1>. SUFFICES ASSUME Init PROVE WsInv
  OBVIOUS
<1>. DEFINE x == [made |-> FALSE, destroyed |-> TRUE, reconnecting |-> FALSE, sock |-> None,
                  timer |-> FALSE, interval |-> FALSE, expecting |-> FALSE, remote |-> FALSE]
<1>1. x \in Tracker /\ ~Alive(x) /\ \A t \in Trackers : tr[t] = x
  BY DEF Init, Tracker, Alive
<1>2. NoSocket \in SocketRecord /\ Free \in OfferRecord
  BY DEF NoSocket, SocketRecord, Free, OfferRecord
<1>. HIDE DEF x
<1>3. tr \in [Trackers -> Tracker] /\ sock \in [Socks -> SocketRecord] /\ pool = None
      /\ offer \in [Offers -> OfferRecord] /\ gone = [t \in Trackers |-> "no"]
  BY <1>1, <1>2 DEF Init
<1>. QED
  BY <1>1, <1>3 DEF WsInv, Serving, Ended

LEMMA StepKeeps ==
    ASSUME WsInv, [Next]_vars
    PROVE  WsInv'
<1>1. CASE UNCHANGED vars
  BY <1>1 DEF vars, WsInv
<1>2. CASE \E t \in Trackers : Destroy(t)
  BY <1>2, DestroyKeeps
<1>3. CASE \E t \in Trackers :
               \/ New(t) \/ ReconnectTimer(t) \/ Start(t) \/ Interval(t)
               \/ OnResponse(t) \/ OnOffer(t) \/ SendAnswer(t) \/ RemoteLinked(t)
               \/ Tell(t, "plain") \/ Tell(t, "event")
  BY <1>3, TrackerKeeps
<1>4. CASE \E o \in Offers : List(o) \/ Miss(o) \/ OfferTimeout(o) \/ Linked(o) \/ OnAnswer(o)
  BY <1>4, OfferKeeps
<1>5. CASE \E s \in Socks : Connect(s)
  BY <1>5, ConnectKeeps
<1>6. CASE \E s \in Socks : Fail(s)
  BY <1>6, FailKeeps
<1>7. CASE \E s \in Socks : Cleanup(s) \/ Closed(s)
  BY <1>7, SocketEnds
<1>. QED
  BY <1>1, <1>2, <1>3, <1>4, <1>5, <1>6, <1>7 DEF Next

THEOREM AlwaysWsInv == Spec => []WsInv
BY InitWsInv, StepKeeps, PTL DEF Spec

(* The pool hands out only a socket that lives and is not being closed, it *)
(* counts every client that uses it, so the last one and nobody else       *)
(* closes it, and whoever made the socket recovers with it: for any number *)
(* of clients, sockets and offers.                                         *)
THEOREM PoolIsShared == Spec => []PoolServes
<1>1. ASSUME WsInv PROVE PoolServes
  <2>1. Serving(tr, sock, pool)
    BY <1>1 DEF WsInv
  <2>2. \A s : On(s) = Users(tr, s)
    BY DEF On, Users, Live, Alive
  <2>3. PoolCounted
    BY <2>1, <2>2 DEF PoolCounted, Serving, Live, Alive
  <2>4. CreatorRecovers
    BY <2>1 DEF CreatorRecovers, Serving, Live, Alive
  <2>. QED
    BY <2>3, <2>4 DEF PoolServes
<1>. QED
  BY <1>1, AlwaysWsInv, PTL

(* A connected client that is destroyed has no timer, no interval and no   *)
(* peer left, and none comes back, whatever its shared socket does later.  *)
THEOREM DestroyEndsIt == Spec => []DestroyIsFinal
<1>1. ASSUME WsInv PROVE DestroyIsFinal
  BY <1>1 DEF WsInv, Ended, DestroyIsFinal, Peers
<1>. QED
  BY <1>1, AlwaysWsInv, PTL
=============================================================================
