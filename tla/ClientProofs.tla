---------------------------- MODULE ClientProofs ----------------------------
(***************************************************************************)
(* What the client promises of its list of torrents, for any number of     *)
(* torrents, of additions, removals and searches: two torrents of the list *)
(* are of one content only if the metadata of one of them told so, and the *)
(* search for an encrypted connection misses only what a stale hash or a   *)
(* list that shrank under it explains.  And what the discovery of one      *)
(* torrent promises: none of its tracker clients is left behind, and it is *)
(* silent after destroy.                                                   *)
(***************************************************************************)
EXTENDS Client, Discovery, FiniteSetTheorems, SequenceTheorems, TLAPS

(* The elements of a list are distinct.                                    *)
NoDup(s) == \A i, j \in DOMAIN s : s[i] = s[j] => i = j

(* A list of the set S with distinct elements.                             *)
Lists(S) == {s \in Seq(S) : NoDup(s)}

(* A key that is removed is gone, and no other is.                         *)
LEMMA RemoveRemoves ==
    ASSUME NEW S, NEW s \in Lists(S), NEW p
    PROVE  /\ RemoveFirst(s, p) \in Lists(S)
           /\ ToSet(RemoveFirst(s, p)) = ToSet(s) \ {p}
<1>0. s \in Seq(S) /\ NoDup(s)
  BY DEF Lists
<1>1. CASE ~\E i \in 1 .. Len(s) : s[i] = p
  BY <1>0, <1>1 DEF RemoveFirst, ToSet
<1>2. ASSUME NEW k \in 1 .. Len(s), s[k] = p
      PROVE  /\ RemoveFirst(s, p) \in Lists(S)
             /\ ToSet(RemoveFirst(s, p)) = ToSet(s) \ {p}
  <2>1. {i \in 1 .. Len(s) : s[i] = p} = {k}
    BY <1>0, <1>2 DEF NoDup
  <2>2. Min({k}) = k
    BY DEF Min
  <2>3. SelectInSeq(s, LAMBDA v : v = p) = k
    BY <2>1, <2>2 DEF SelectInSeq
  <2>4. RemoveFirst(s, p) = RemoveAt(s, k)
    BY <1>2, <2>3 DEF RemoveFirst
  <2> DEFINE r == SubSeq(s, 1, k - 1) \o SubSeq(s, k + 1, Len(s))
  <2>6. RemoveFirst(s, p) = r
    BY <2>4 DEF RemoveAt
  <2>a. /\ SubSeq(s, 1, k - 1) \in Seq(S) /\ Len(SubSeq(s, 1, k - 1)) = k - 1
        /\ \A i \in 1 .. k - 1 : SubSeq(s, 1, k - 1)[i] = s[i]
    BY <1>0, <1>2
  <2>b. /\ SubSeq(s, k + 1, Len(s)) \in Seq(S) /\ Len(SubSeq(s, k + 1, Len(s))) = Len(s) - k
        /\ \A i \in 1 .. Len(s) - k : SubSeq(s, k + 1, Len(s))[i] = s[k + i]
    BY <1>0, <1>2
  <2> DEFINE front == SubSeq(s, 1, k - 1)
             back == SubSeq(s, k + 1, Len(s))
  <2>c. r = front \o back
    OBVIOUS
  <2> HIDE DEF r, front, back
  <2>d. /\ front \in Seq(S) /\ Len(front) = k - 1 /\ \A i \in 1 .. k - 1 : front[i] = s[i]
        /\ back \in Seq(S) /\ Len(back) = Len(s) - k
        /\ \A i \in 1 .. Len(s) - k : back[i] = s[k + i]
    BY <2>a, <2>b DEF front, back
  <2> DEFINE n == Len(s)
  <2>e. n \in Nat /\ k \in 1 .. n
    BY <1>0, <1>2
  <2>f. /\ r \in Seq(S) /\ Len(r) = Len(front) + Len(back)
        /\ \A i \in 1 .. Len(front) + Len(back) :
              r[i] = IF i <= Len(front) THEN front[i] ELSE back[i - Len(front)]
    BY <2>c, <2>d, ConcatProperties
  <2>g. Len(front) + Len(back) = n - 1
    BY <2>d, <2>e
  <2>h. ASSUME NEW i \in 1 .. n - 1 PROVE r[i] = IF i < k THEN s[i] ELSE s[i + 1]
    <3>1. CASE i < k
      <4>1. i \in 1 .. k - 1 /\ i <= k - 1
        BY <2>e, <3>1
      <4>2. r[i] = front[i]
        BY <2>d, <2>f, <2>g, <4>1
      <4>. QED
        BY <2>d, <3>1, <4>1, <4>2
    <3>2. CASE ~(i < k)
      <4>1. i - (k - 1) \in 1 .. n - k /\ k + (i - (k - 1)) = i + 1
        BY <2>e, <3>2
      <4>2. r[i] = back[i - (k - 1)]
        BY <2>d, <2>e, <2>f, <2>g, <3>2
      <4>. QED
        BY <2>d, <3>2, <4>1, <4>2
    <3>. QED
      BY <3>1, <3>2
  <2>5. /\ r \in Seq(S) /\ Len(r) = Len(s) - 1
        /\ \A i \in 1 .. Len(s) - 1 : r[i] = IF i < k THEN s[i] ELSE s[i + 1]
    BY <2>f, <2>g, <2>h
  <2>7. NoDup(r)
    <3> SUFFICES ASSUME NEW i \in 1 .. n - 1, NEW j \in 1 .. n - 1, r[i] = r[j] PROVE i = j
      BY <2>5 DEF NoDup, n
    <3> DEFINE f == IF i < k THEN i ELSE i + 1
               g == IF j < k THEN j ELSE j + 1
    <3>1. f \in 1 .. n /\ g \in 1 .. n /\ (f = g => i = j)
      BY <2>e
    <3>2. s[f] = s[g]
      BY <2>h
    <3>. QED
      BY <1>0, <3>1, <3>2 DEF NoDup, n
  <2>8. ToSet(r) \subseteq ToSet(s) \ {p}
    BY <1>0, <1>2, <2>5 DEF NoDup, ToSet
  <2>9. ASSUME NEW i \in 1 .. Len(s), s[i] # p PROVE s[i] \in ToSet(r)
    <3>1. CASE i < k
      BY <1>0, <1>2, <2>5, <3>1 DEF ToSet
    <3>2. CASE i > k
      <4>1. i - 1 \in 1 .. Len(s) - 1 /\ ~(i - 1 < k) /\ r[i - 1] = s[i]
        BY <1>0, <1>2, <2>5, <3>2
      <4>. QED
        BY <2>5, <4>1 DEF ToSet
    <3>. QED
      BY <1>2, <2>9, <3>1, <3>2
  <2>. QED
    <3>1. ToSet(s) \ {p} \subseteq ToSet(r)
      BY <1>0, <2>9 DEF ToSet
    <3>. QED
      BY <2>5, <2>6, <2>7, <2>8, <3>1 DEF Lists
<1>. QED
  BY <1>1, <1>2

-----------------------------------------------------------------------------
InfoHashes == HashKinds \cup {""}

OnTheList == {"parsing", "hashed", "magnet", "verifying", "ready"}

Stages == OnTheList \cup {"none", "destroyed", "closed"}

SearchRecord ==
    [step : {"idle", "looking", "hashing", "found", "missed"}, want : InfoHashes, at : Nat,
     over : Torrents \cup {Null}, hash : InfoHashes, shrunk : BOOLEAN, late : SUBSET Torrents]

ClientType ==
    /\ list \in Lists(Torrents)
    /\ id \in [Torrents -> DOMAIN Ids \cup {Null}]
    /\ stage \in [Torrents -> Stages]
    /\ known \in [Torrents -> SUBSET HashKinds]
    /\ hashed \in [Torrents -> InfoHashes \cup {Null}]
    /\ search \in SearchRecord

(* The list holds the torrents that were added and did not end; only those *)
(* that were parsed know a hash.                                           *)
StagesKept ==
    \A t \in Torrents :
        /\ t \in Listed <=> stage[t] \in OnTheList
        /\ stage[t] # "none" => id[t] # Null
        /\ stage[t] \notin OnTheList \ {"parsing"} => known[t] = {}

Active == search.step \in {"looking", "hashing", "missed"} /\ ~search.shrunk

(* A torrent that had the hash when the search began is still there, and   *)
(* its info hash can only have become the v1 one.                          *)
EarlyStay ==
    Active => /\ search.want \in HashKinds
              /\ \A t \in Torrents \ search.late :
                     /\ t \in Listed /\ known[t] # {}
                     /\ search.want = "v1" => "v1" \in known[t]

(* The search has a hash of every early torrent behind it, and not the     *)
(* one it looks for.                                                       *)
Behind ==
    Active => \A i \in DOMAIN list :
        /\ search.step = "missed" \/ i < search.at
        /\ list[i] \notin search.late
        /\ InfoHash(known[list[i]]) = search.want
        => hashed[list[i]] \notin {Null, search.want}

Hashing ==
    Active /\ search.step = "hashing" => search.at \in DOMAIN list /\ search.over = Current

Started == search.step # "idle" => search.at >= 1

Overs == search.step = "hashing" => search.over \in Torrents

ClientInv ==
    /\ ClientType /\ StagesKept /\ EarlyStay /\ Behind /\ Hashing /\ Started /\ Overs
    /\ NoDuplicates

LEMMA ListedIs == Listed = ToSet(list)
BY DEF Listed, ToSet

LEMMA Nulls == Null \notin Torrents /\ Null \notin InfoHashes /\ Null \notin DOMAIN Ids
<1>1. DOMAIN Ids = {"v1", "v2", "full"}
  BY DEF Ids
<1>. QED
  BY <1>1, ClientAssumption DEF InfoHashes, HashKinds

LEMMA InfoHashIs ==
    ASSUME NEW k \in SUBSET HashKinds
    PROVE  InfoHash(k) \in InfoHashes /\ (InfoHash(k) = "" <=> k = {})
BY DEF InfoHash, InfoHashes, HashKinds

(* InfoHashes that are not of one content have nothing in common.              *)
LEMMA OthersDiffer ==
    ASSUME NEW k \in SUBSET HashKinds, NEW l \in SUBSET HashKinds, ~Same(k, l)
    PROVE  k \cap l = {}
BY DEF Same, InfoHash, HashKinds

LEMMA IdsAre == \A i \in DOMAIN Ids : Ids[i] \in SUBSET HashKinds
BY DEF Ids, HashKinds

LEMMA ClientInitInv == ClientInit => ClientInv
<1> SUFFICES ASSUME ClientInit PROVE ClientInv
  OBVIOUS
<1> USE DEF ClientInit
<1>1. Listed = {} /\ list \in Seq(Torrents) /\ DOMAIN list = {}
  BY DEF Listed
<1>2. ClientType
  <2>1. list \in Lists(Torrents)
    BY <1>1 DEF Lists, NoDup
  <2>2. search \in SearchRecord
    BY DEF Idle, SearchRecord, InfoHashes
  <2>. QED
    BY <2>1, <2>2 DEF ClientType, Stages
<1>3. StagesKept
  BY <1>1 DEF StagesKept, OnTheList
<1>4. search.step = "idle"
  BY DEF Idle
<1>. QED
  BY <1>1, <1>2, <1>3, <1>4 DEF ClientInv, EarlyStay, Behind, Hashing, Started, Overs, Active, NoDuplicates

-----------------------------------------------------------------------------
(* Steps that neither list nor search notices: a torrent that was parsed   *)
(* goes on, or one that was destroyed closes.                              *)
LEMMA StageStep ==
    ASSUME ClientInv, UNCHANGED <<list, id, known, hashed, search, twins>>,
           stage' \in [Torrents -> Stages],
           \A t \in Torrents :
               \/ stage'[t] = stage[t]
               \/ {stage[t], stage'[t]} \subseteq OnTheList \ {"parsing"}
               \/ stage[t] = "destroyed" /\ stage'[t] = "closed"
    PROVE  ClientInv'
<1>1. ClientType'
  BY DEF ClientInv, ClientType
<1>2. Listed' = Listed
  BY DEF Listed
<1>3. StagesKept'
  <2> SUFFICES ASSUME NEW t \in Torrents
               PROVE  /\ t \in Listed <=> stage'[t] \in OnTheList
                      /\ stage'[t] # "none" => id[t] # Null
                      /\ stage'[t] \notin OnTheList \ {"parsing"} => known[t] = {}
    BY <1>2 DEF StagesKept
  <2>1. /\ t \in Listed <=> stage[t] \in OnTheList
        /\ stage[t] # "none" => id[t] # Null
        /\ stage[t] \notin OnTheList \ {"parsing"} => known[t] = {}
    BY DEF ClientInv, StagesKept
  <2>2. CASE stage'[t] = stage[t]
    BY <2>1, <2>2
  <2>3. CASE {stage[t], stage'[t]} \subseteq OnTheList \ {"parsing"}
    BY <2>1, <2>3 DEF OnTheList
  <2>4. CASE stage[t] = "destroyed" /\ stage'[t] = "closed"
    BY <2>1, <2>4 DEF OnTheList
  <2>. QED
    BY <2>2, <2>3, <2>4
<1>4. EarlyStay' /\ Behind' /\ Hashing' /\ Started' /\ Overs'
  BY <1>2 DEF ClientInv, EarlyStay, Behind, Hashing, Started, Overs, Active, Current
<1>5. NoDuplicates'
  BY <1>2 DEF ClientInv, NoDuplicates
<1>. QED
  BY <1>1, <1>3, <1>4, <1>5 DEF ClientInv

(* Torrents end: they leave the list, and a search they leave knows it.    *)
LEMMA EndStep ==
    ASSUME ClientInv, NEW ts \in SUBSET Torrents, NEW rest \in Lists(Torrents),
           ToSet(rest) = Listed \ ts, ts \cap Listed = {} => rest = list,
           \A t \in ts : id[t] # Null,
           End(ts, rest), UNCHANGED id
    PROVE  ClientInv'
<1>1. Listed' = Listed \ ts
  BY ListedIs DEF End, Listed, ToSet
<1>a. /\ stage \in [Torrents -> Stages] /\ known \in [Torrents -> SUBSET HashKinds]
      /\ hashed \in [Torrents -> InfoHashes \cup {Null}] /\ search \in SearchRecord
      /\ list \in Lists(Torrents) /\ id \in [Torrents -> DOMAIN Ids \cup {Null}]
  BY DEF ClientInv, ClientType
<1>b. /\ stage' = [t \in Torrents |-> IF t \in ts THEN "destroyed" ELSE stage[t]]
      /\ known' = [t \in Torrents |-> IF t \in ts THEN {} ELSE known[t]]
      /\ hashed' = [t \in Torrents |-> IF t \in ts THEN Null ELSE hashed[t]]
      /\ list' = rest /\ twins' = twins \ ts /\ id' = id
      /\ search' = [search EXCEPT !.shrunk = search.shrunk \/ (search # Idle /\ ts \cap Listed # {})]
  BY DEF End
<1>2. ClientType'
  <2>1. stage' \in [Torrents -> Stages]
    BY <1>a, <1>b DEF Stages
  <2>2. known' \in [Torrents -> SUBSET HashKinds] /\ hashed' \in [Torrents -> InfoHashes \cup {Null}]
    BY <1>a, <1>b
  <2>3. search' \in SearchRecord
    BY <1>a, <1>b DEF SearchRecord
  <2>. QED
    BY <1>a, <1>b, <2>1, <2>2, <2>3 DEF ClientType
<1>3. StagesKept'
  <2> SUFFICES ASSUME NEW t \in Torrents
               PROVE  /\ t \in Listed' <=> stage'[t] \in OnTheList
                      /\ stage'[t] # "none" => id[t] # Null
                      /\ stage'[t] \notin OnTheList \ {"parsing"} => known'[t] = {}
    BY <1>b DEF StagesKept
  <2>1. /\ t \in Listed <=> stage[t] \in OnTheList
        /\ stage[t] # "none" => id[t] # Null
        /\ stage[t] \notin OnTheList \ {"parsing"} => known[t] = {}
    BY DEF ClientInv, StagesKept
  <2>2. CASE t \in ts
    BY <1>1, <1>b, <2>2 DEF OnTheList
  <2>3. CASE t \notin ts
    BY <1>1, <1>b, <2>1, <2>3
  <2>. QED
    BY <2>2, <2>3
<1>4. ASSUME Active'
      PROVE  Active /\ ts \cap Listed = {} /\ list' = list /\ Listed' = Listed
  <2>1. search'.step = search.step
    BY <1>a, <1>b DEF SearchRecord
  <2>2. search'.shrunk = (search.shrunk \/ (search # Idle /\ ts \cap Listed # {}))
    BY <1>a, <1>b DEF SearchRecord
  <2>3. search.step # "idle"
    BY <1>4, <2>1 DEF Active
  <2>i. Idle.step = "idle"
    BY DEF Idle
  <2>4. search # Idle
    BY <2>3, <2>i
  <2>5. Active /\ ts \cap Listed = {}
    BY <1>4, <1>a, <2>1, <2>2, <2>4 DEF Active, SearchRecord
  <2>. QED
    BY <1>b, <1>1, <2>5
<1>5. /\ search'.step = search.step /\ search'.want = search.want /\ search'.at = search.at
      /\ search'.over = search.over /\ search'.late = search.late
  BY <1>a, <1>b DEF SearchRecord
<1>6. \A t \in Torrents \ ts : known'[t] = known[t] /\ hashed'[t] = hashed[t]
  BY <1>b
<1>l. Listed \subseteq Torrents /\ \A i \in DOMAIN list : list[i] \in Listed
  BY <1>a DEF Lists, Listed
<1>7. EarlyStay'
  <2> SUFFICES ASSUME Active' PROVE EarlyStay'
    BY DEF EarlyStay
  <2>1. /\ search.want \in HashKinds
        /\ \A t \in Torrents \ search.late :
             t \in Listed /\ known[t] # {} /\ (search.want = "v1" => "v1" \in known[t])
    BY <1>4 DEF ClientInv, EarlyStay
  <2>2. \A t \in Listed : known'[t] = known[t]
    BY <1>4, <1>6, <1>l
  <2>. QED
    BY <1>4, <1>5, <2>1, <2>2 DEF EarlyStay
<1>8. Behind'
  <2> SUFFICES ASSUME Active' PROVE Behind'
    BY DEF Behind
  <2>1. \A i \in DOMAIN list : known'[list[i]] = known[list[i]] /\ hashed'[list[i]] = hashed[list[i]]
    BY <1>4, <1>6, <1>l
  <2>. QED
    BY <1>4, <1>5, <2>1 DEF ClientInv, Behind
<1>9. Hashing' /\ Started' /\ Overs'
  BY <1>4, <1>5 DEF ClientInv, Hashing, Started, Overs, Current
<1>10. NoDuplicates'
  <2> SUFFICES ASSUME NEW t \in Listed', NEW u \in Listed', t # u, known'[t] \cap known'[u] # {}
               PROVE  twins' \cap {t, u} # {}
    BY DEF NoDuplicates
  <2>1. t \in Listed \ ts /\ u \in Listed \ ts
    BY <1>1
  <2>2. known[t] \cap known[u] # {}
    BY <1>6, <1>l, <2>1
  <2>3. twins \cap {t, u} # {}
    BY <2>1, <2>2 DEF ClientInv, NoDuplicates
  <2>. QED
    BY <1>b, <2>1, <2>3
<1>. QED
  BY <1>2, <1>3, <1>7, <1>8, <1>9, <1>10 DEF ClientInv

(* One torrent ends.                                                       *)
LEMMA EndOneStep ==
    ASSUME ClientInv, NEW t \in Torrents, stage[t] # "none",
           End({t}, RemoveFirst(list, t)), UNCHANGED id
    PROVE  ClientInv'
<1>1. list \in Lists(Torrents) /\ id[t] # Null
  BY DEF ClientInv, ClientType, StagesKept
<1>2. RemoveFirst(list, t) \in Lists(Torrents) /\ ToSet(RemoveFirst(list, t)) = Listed \ {t}
  BY <1>1, RemoveRemoves, ListedIs
<1>3. {t} \cap Listed = {} => RemoveFirst(list, t) = list
  <2>1. t \notin Listed => ~\E i \in 1 .. Len(list) : list[i] = t
    BY <1>1 DEF Listed, Lists
  <2>. QED
    BY <2>1 DEF RemoveFirst
<1> DEFINE rest == RemoveFirst(list, t)
           ts == {t}
<1>4. ts \in SUBSET Torrents /\ (\A u \in ts : id[u] # Null) /\ End(ts, rest)
  BY <1>1
<1>5. rest \in Lists(Torrents) /\ ToSet(rest) = Listed \ ts /\ (ts \cap Listed = {} => rest = list)
  BY <1>2, <1>3
<1> HIDE DEF rest, ts
<1>. QED
  BY <1>4, <1>5, EndStep

(* A torrent is added.                                                     *)
LEMMA AddStep ==
    ASSUME ClientInv, NEW t \in Torrents, NEW i \in DOMAIN Ids, Add(t, i)
    PROVE  ClientInv'
<1>a. /\ stage \in [Torrents -> Stages] /\ list \in Lists(Torrents)
      /\ id \in [Torrents -> DOMAIN Ids \cup {Null}] /\ search \in SearchRecord
      /\ known \in [Torrents -> SUBSET HashKinds]
  BY DEF ClientInv, ClientType
<1>b. /\ id[t] = Null /\ id' = [id EXCEPT ![t] = i] /\ stage' = [stage EXCEPT ![t] = "parsing"]
      /\ list' = Append(list, t)
      /\ UNCHANGED <<known, hashed, search, twins>>
  BY DEF Add
<1>c. stage[t] = "none" /\ t \notin Listed /\ known[t] = {} /\ i # Null
  BY <1>b, Nulls DEF ClientInv, StagesKept, OnTheList
<1>d. list \in Seq(Torrents) /\ NoDup(list) /\ Len(list) \in Nat /\ DOMAIN list = 1 .. Len(list)
  BY <1>a DEF Lists
<1>e. /\ list' \in Seq(Torrents) /\ DOMAIN list' = 1 .. Len(list) + 1 /\ list'[Len(list) + 1] = t
      /\ \A j \in DOMAIN list : j \in DOMAIN list' /\ list'[j] = list[j]
  BY <1>b, <1>d
<1>1. Listed' = Listed \cup {t}
  <2>1. \A u \in Listed' : u \in Listed \cup {t}
    BY <1>d, <1>e DEF Listed
  <2>2. \A u \in Listed \cup {t} : u \in Listed'
    BY <1>d, <1>e DEF Listed
  <2>. QED
    BY <2>1, <2>2
<1>2. NoDup(list')
  <2> SUFFICES ASSUME NEW j \in DOMAIN list', NEW k \in DOMAIN list', list'[j] = list'[k] PROVE j = k
    BY DEF NoDup
  <2>1. CASE j \in DOMAIN list /\ k \in DOMAIN list
    BY <1>d, <1>e, <2>1 DEF NoDup
  <2>2. CASE j = Len(list) + 1 \/ k = Len(list) + 1
    BY <1>c, <1>d, <1>e, <2>2 DEF Listed
  <2>. QED
    BY <1>d, <1>e, <2>1, <2>2
<1>3. ClientType'
  <2>1. id' \in [Torrents -> DOMAIN Ids \cup {Null}] /\ stage' \in [Torrents -> Stages]
    BY <1>a, <1>b DEF Stages, OnTheList
  <2>2. list' \in Lists(Torrents)
    BY <1>e, <1>2 DEF Lists
  <2>. QED
    BY <1>b, <2>1, <2>2 DEF ClientInv, ClientType
<1>4. StagesKept'
  <2> SUFFICES ASSUME NEW u \in Torrents
               PROVE  /\ u \in Listed' <=> stage'[u] \in OnTheList
                      /\ stage'[u] # "none" => id'[u] # Null
                      /\ stage'[u] \notin OnTheList \ {"parsing"} => known[u] = {}
    BY <1>b DEF StagesKept
  <2>1. CASE u = t
    BY <1>1, <1>a, <1>b, <1>c, <2>1 DEF OnTheList
  <2>2. CASE u # t
    BY <1>1, <1>a, <1>b, <2>2 DEF ClientInv, StagesKept
  <2>. QED
    BY <2>1, <2>2
<1>5. EarlyStay' /\ Started' /\ Overs'
  BY <1>1, <1>b DEF ClientInv, EarlyStay, Started, Overs, Active
<1>6. ASSUME Active' PROVE Active /\ search.want \in HashKinds /\ t \in search.late
  BY <1>6, <1>b, <1>c DEF ClientInv, EarlyStay, Active
<1>7. Behind'
  <2> SUFFICES ASSUME Active', NEW j \in DOMAIN list', search.step = "missed" \/ j < search.at,
                      list'[j] \notin search.late, InfoHash(known[list'[j]]) = search.want
               PROVE  hashed[list'[j]] \notin {Null, search.want}
    BY <1>b DEF Behind
  <2>1. list'[j] # t
    BY <1>6
  <2>2. j \in DOMAIN list /\ list'[j] = list[j]
    BY <1>d, <1>e, <2>1
  <2>. QED
    BY <1>6, <2>2 DEF ClientInv, Behind
<1>8. Hashing'
  BY <1>b, <1>e, <1>6 DEF ClientInv, Hashing, Active, Current
<1>9. NoDuplicates'
  <2> SUFFICES ASSUME NEW u \in Listed', NEW v \in Listed', u # v, known[u] \cap known[v] # {}
               PROVE  twins \cap {u, v} # {}
    BY <1>b DEF NoDuplicates
  <2>1. u # t /\ v # t
    BY <1>c
  <2>. QED
    BY <1>1, <2>1 DEF ClientInv, NoDuplicates
<1>. QED
  BY <1>3, <1>4, <1>5, <1>7, <1>8, <1>9 DEF ClientInv

(* Torrents that know a hash begin.                                        *)
LEMMA BeginStages ==
    ASSUME NEW ts \in SUBSET Torrents, stage \in [Torrents -> Stages], Begin(ts)
    PROVE  /\ stage' \in [Torrents -> Stages]
           /\ \A u \in ts : stage'[u] \in {"verifying", "magnet"}
           /\ \A u \in Torrents \ ts : stage'[u] = stage[u]
<1>1. stage' = [t \in Torrents |-> IF t \in {u \in ts : id[u] = "full"} THEN "verifying"
                                   ELSE IF t \in ts THEN "magnet" ELSE stage[t]]
  BY DEF Begin
<1>. QED
  BY <1>1 DEF Stages, OnTheList

(* The id is parsed, and no other torrent is of its content.               *)
LEMMA ParsedStep ==
    ASSUME ClientInv, NEW t \in Torrents, OnParsedTorrent(t), Older(t) = {}
    PROVE  ClientInv'
<1>a. /\ stage \in [Torrents -> Stages] /\ list \in Lists(Torrents)
      /\ id \in [Torrents -> DOMAIN Ids \cup {Null}] /\ search \in SearchRecord
      /\ known \in [Torrents -> SUBSET HashKinds]
  BY DEF ClientInv, ClientType
<1>b. /\ stage[t] = "parsing" /\ known' = [known EXCEPT ![t] = Ids[id[t]]]
      /\ IF listening THEN Begin({t})
         ELSE stage' = [stage EXCEPT ![t] = "hashed"] /\ UNCHANGED discovery
      /\ UNCHANGED <<list, hashed, search, twins, id>>
  BY DEF OnParsedTorrent
<1>c. /\ t \in Listed /\ id[t] \in DOMAIN Ids /\ known[t] = {}
      /\ Ids[id[t]] \in SUBSET HashKinds
  BY <1>a, <1>b, IdsAre DEF ClientInv, StagesKept, OnTheList
<1>d. Listed' = Listed
  BY <1>b DEF Listed
<1>e. /\ stage' \in [Torrents -> Stages] /\ stage'[t] \in OnTheList \ {"parsing"}
      /\ \A u \in Torrents \ {t} : stage'[u] = stage[u]
  <2>1. CASE listening
    BY <1>a, <1>b, <2>1, BeginStages DEF OnTheList
  <2>2. CASE ~listening
    BY <1>a, <1>b, <2>2 DEF OnTheList, Stages
  <2>. QED
    BY <2>1, <2>2
<1>f. /\ known' \in [Torrents -> SUBSET HashKinds] /\ known'[t] = Ids[id[t]]
      /\ \A u \in Torrents \ {t} : known'[u] = known[u]
  BY <1>a, <1>b, <1>c
<1>1. ClientType'
  BY <1>b, <1>e, <1>f DEF ClientInv, ClientType
<1>2. StagesKept'
  <2> SUFFICES ASSUME NEW u \in Torrents
               PROVE  /\ u \in Listed <=> stage'[u] \in OnTheList
                      /\ stage'[u] # "none" => id[u] # Null
                      /\ stage'[u] \notin OnTheList \ {"parsing"} => known'[u] = {}
    BY <1>b, <1>d DEF StagesKept
  <2>1. CASE u = t
    BY <1>b, <1>c, <1>e, <2>1 DEF ClientInv, StagesKept
  <2>2. CASE u # t
    BY <1>e, <1>f, <2>2 DEF ClientInv, StagesKept
  <2>. QED
    BY <2>1, <2>2
<1>3. ASSUME Active PROVE t \in search.late
  BY <1>3, <1>c DEF ClientInv, EarlyStay
<1>4. EarlyStay'
  <2> SUFFICES ASSUME Active PROVE EarlyStay'
    BY <1>b DEF EarlyStay, Active
  <2>1. \A u \in Torrents \ search.late : known'[u] = known[u]
    BY <1>3, <1>f
  <2>. QED
    BY <1>b, <1>d, <2>1 DEF ClientInv, EarlyStay
<1>5. Behind'
  <2> SUFFICES ASSUME Active PROVE Behind'
    BY <1>b DEF Behind, Active
  <2>1. \A j \in DOMAIN list : list[j] \in Torrents
    BY <1>a DEF Lists
  <2>2. \A j \in DOMAIN list : list[j] \notin search.late => known'[list[j]] = known[list[j]]
    BY <1>3, <1>f, <2>1
  <2>. QED
    BY <1>b, <2>2 DEF ClientInv, Behind
<1>6. Hashing' /\ Started' /\ Overs'
  BY <1>b DEF ClientInv, Hashing, Started, Overs, Active, Current
<1>7. NoDuplicates'
  <2>1. Listed \subseteq Torrents
    BY <1>a DEF Listed, Lists
  <2>2. \A u \in Listed \ {t} : known[u] \cap known'[t] = {}
    <3> SUFFICES ASSUME NEW u \in Listed \ {t} PROVE known[u] \cap known'[t] = {}
      OBVIOUS
    <3>1. ~Same(known[u], Ids[id[t]])
      BY DEF Older
    <3>. QED
      BY <1>a, <1>c, <1>f, <2>1, <3>1, OthersDiffer
  <2> SUFFICES ASSUME NEW u \in Listed, NEW v \in Listed, u # v, known'[u] \cap known'[v] # {}
               PROVE  twins \cap {u, v} # {}
    BY <1>b, <1>d DEF NoDuplicates
  <2>3. u # t /\ v # t
    BY <1>f, <2>1, <2>2
  <2>. QED
    BY <1>f, <2>1, <2>3 DEF ClientInv, NoDuplicates
<1>. QED
  BY <1>1, <1>2, <1>4, <1>5, <1>6, <1>7 DEF ClientInv

(* The metadata tells both hashes.                                         *)
LEMMA MetadataStep ==
    ASSUME ClientInv, NEW t \in Torrents, OnMetadata(t)
    PROVE  ClientInv'
<1>a. /\ stage \in [Torrents -> Stages] /\ list \in Lists(Torrents)
      /\ id \in [Torrents -> DOMAIN Ids \cup {Null}] /\ search \in SearchRecord
      /\ known \in [Torrents -> SUBSET HashKinds]
  BY DEF ClientInv, ClientType
<1>b. /\ stage[t] = "magnet" /\ known' = [known EXCEPT ![t] = HashKinds]
      /\ stage' = [stage EXCEPT ![t] = "verifying"]
      /\ twins' = IF \E u \in Listed \ {t} : known[u] # {} THEN twins \cup {t} ELSE twins
      /\ UNCHANGED <<list, hashed, search, id>>
  BY DEF OnMetadata
<1>c. t \in Listed
  BY <1>b DEF ClientInv, StagesKept, OnTheList
<1>d. Listed' = Listed /\ Listed \subseteq Torrents
  BY <1>a, <1>b DEF Listed, Lists
<1>e. /\ stage' \in [Torrents -> Stages] /\ stage'[t] = "verifying"
      /\ \A u \in Torrents \ {t} : stage'[u] = stage[u]
  BY <1>a, <1>b DEF Stages, OnTheList
<1>f. /\ known' \in [Torrents -> SUBSET HashKinds] /\ known'[t] = HashKinds
      /\ \A u \in Torrents \ {t} : known'[u] = known[u]
  BY <1>a, <1>b
<1>g. InfoHash(HashKinds) = "v1"
  BY DEF InfoHash, HashKinds
<1>1. ClientType'
  BY <1>b, <1>e, <1>f DEF ClientInv, ClientType
<1>2. StagesKept'
  <2> SUFFICES ASSUME NEW u \in Torrents
               PROVE  /\ u \in Listed <=> stage'[u] \in OnTheList
                      /\ stage'[u] # "none" => id[u] # Null
                      /\ stage'[u] \notin OnTheList \ {"parsing"} => known'[u] = {}
    BY <1>b, <1>d DEF StagesKept
  <2>1. CASE u = t
    BY <1>b, <1>c, <1>e, <2>1 DEF ClientInv, StagesKept, OnTheList
  <2>2. CASE u # t
    BY <1>e, <1>f, <2>2 DEF ClientInv, StagesKept
  <2>. QED
    BY <2>1, <2>2
<1>3. EarlyStay'
  <2> SUFFICES ASSUME Active PROVE EarlyStay'
    BY <1>b DEF EarlyStay, Active
  <2>1. \A u \in Torrents \ search.late : known[u] \subseteq known'[u]
    BY <1>a, <1>f
  <2>. QED
    BY <1>b, <1>d, <2>1 DEF ClientInv, EarlyStay
<1>4. Behind'
  <2> SUFFICES ASSUME Active, NEW j \in DOMAIN list, search.step = "missed" \/ j < search.at,
                      list[j] \notin search.late, InfoHash(known'[list[j]]) = search.want
               PROVE  hashed[list[j]] \notin {Null, search.want}
    BY <1>b DEF Behind, Active
  <2>1. list[j] \in Torrents
    BY <1>a DEF Lists
  <2>2. InfoHash(known[list[j]]) = search.want
    <3>1. CASE list[j] # t
      BY <1>f, <2>1, <3>1
    <3>2. CASE list[j] = t
      <4>1. search.want = "v1"
        BY <1>f, <1>g, <3>2
      <4>2. "v1" \in known[t]
        BY <2>1, <3>2, <4>1 DEF ClientInv, EarlyStay
      <4>. QED
        BY <3>2, <4>1, <4>2 DEF InfoHash
    <3>. QED
      BY <3>1, <3>2
  <2>. QED
    BY <2>2 DEF ClientInv, Behind
<1>5. Hashing' /\ Started' /\ Overs'
  BY <1>b DEF ClientInv, Hashing, Started, Overs, Active, Current
<1>6. NoDuplicates'
  <2> SUFFICES ASSUME NEW u \in Listed, NEW v \in Listed, u # v, known'[u] \cap known'[v] # {}
               PROVE  twins' \cap {u, v} # {}
    BY <1>d DEF NoDuplicates
  <2>1. CASE u = t \/ v = t
    <3>1. \E w \in Listed \ {t} : known[w] # {}
      BY <1>d, <1>f, <2>1
    <3>. QED
      BY <1>b, <2>1, <3>1
  <2>2. CASE u # t /\ v # t
    BY <1>b, <1>d, <1>f, <2>2 DEF ClientInv, NoDuplicates
  <2>. QED
    BY <2>1, <2>2
<1>. QED
  BY <1>1, <1>2, <1>3, <1>4, <1>5, <1>6 DEF ClientInv

-----------------------------------------------------------------------------
(* The steps of the search leave the torrents alone.                       *)
LEMMA SearchLeaves ==
    ASSUME ClientInv, UNCHANGED <<lifeVars, twins>>,
           hashed' \in [Torrents -> InfoHashes \cup {Null}], search' \in SearchRecord,
           EarlyStay', Behind', Hashing', Started', Overs'
    PROVE  ClientInv'
<1>1. UNCHANGED <<list, id, stage, known, twins>>
  BY DEF lifeVars
<1>2. Listed' = Listed
  BY <1>1 DEF Listed
<1>. QED
  BY <1>1, <1>2 DEF ClientInv, ClientType, StagesKept, NoDuplicates

LEMMA SearchBegins ==
    ASSUME ClientInv, NEW h \in HashKinds, Search(h)
    PROVE  ClientInv'
<1> DEFINE early == {t \in Torrents : t \notin Listed \/ InfoHash(known[t]) # h}
<1>a. /\ search' = [Idle EXCEPT !.step = "looking", !.want = h, !.at = 1, !.late = early]
      /\ UNCHANGED <<lifeVars, clientVars, hashed, twins>>
  BY DEF Search
<1>b. early \in SUBSET Torrents
  OBVIOUS
<1>c. /\ \A t \in Torrents \ early : t \in Listed /\ InfoHash(known[t]) = h
      /\ UNCHANGED <<list, known, hashed>> /\ Listed' = Listed
  BY <1>a DEF lifeVars, Listed
<1> HIDE DEF early
<1>1. search' = [step |-> "looking", want |-> h, at |-> 1, over |-> Null, hash |-> "",
                 shrunk |-> FALSE, late |-> early]
  BY <1>a DEF Idle
<1>2. search' \in SearchRecord
  BY <1>1, <1>b DEF SearchRecord, InfoHashes
<1>3. EarlyStay'
  <2>1. \A t \in Torrents \ early : known[t] # {} /\ (h = "v1" => "v1" \in known[t])
    BY <1>c DEF InfoHash, HashKinds
  <2>. QED
    BY <1>1, <1>c, <2>1 DEF EarlyStay
<1>4. Behind'
  <2>1. \A i \in DOMAIN list : i \in Nat /\ ~(i < 1)
    BY DEF ClientInv, ClientType, Lists
  <2>. QED
    BY <1>1, <1>c, <2>1 DEF Behind
<1>5. Hashing' /\ Started' /\ Overs'
  <2>1. search'.step = "looking" /\ search'.at = 1
    BY <1>1
  <2>. QED
    BY <2>1 DEF Hashing, Started, Overs
<1>6. hashed' \in [Torrents -> InfoHashes \cup {Null}]
  BY <1>c DEF ClientInv, ClientType
<1>. QED
  BY <1>a, <1>2, <1>3, <1>4, <1>5, <1>6, SearchLeaves

LEMMA SearchHashStep ==
    ASSUME ClientInv, SearchHash
    PROVE  ClientInv'
<1>a. /\ search.step = "looking" /\ search.at \in DOMAIN list
      /\ search' = [search EXCEPT !.step = "hashing", !.over = Current,
                                  !.hash = InfoHash(known[Current])]
      /\ UNCHANGED <<lifeVars, clientVars, hashed, twins>>
  BY DEF SearchHash
<1>b. /\ search \in SearchRecord /\ list \in Lists(Torrents)
      /\ known \in [Torrents -> SUBSET HashKinds]
      /\ hashed' \in [Torrents -> InfoHashes \cup {Null}]
      /\ UNCHANGED <<list, known, hashed>> /\ Listed' = Listed
  BY <1>a DEF ClientInv, ClientType, lifeVars, Listed
<1>c. Current \in Torrents
  BY <1>a, <1>b DEF Current, Lists
<1>d. InfoHash(known[Current]) \in InfoHashes
  BY <1>b, <1>c, InfoHashIs
<1>1. /\ search' \in SearchRecord
      /\ search'.step = "hashing" /\ search'.over = Current /\ search'.at = search.at
      /\ search'.want = search.want /\ search'.late = search.late /\ search'.shrunk = search.shrunk
  BY <1>a, <1>b, <1>c, <1>d DEF SearchRecord
<1>2. Active' => Active
  BY <1>a, <1>1 DEF Active
<1>3. EarlyStay'
  BY <1>b, <1>1, <1>2 DEF ClientInv, EarlyStay
<1>4. Behind'
  BY <1>a, <1>b, <1>1, <1>2 DEF ClientInv, Behind
<1>5. Hashing' /\ Started' /\ Overs'
  BY <1>a, <1>b, <1>c, <1>1 DEF ClientInv, Hashing, Started, Overs, Current
<1>. QED
  BY <1>a, <1>b, <1>1, <1>3, <1>4, <1>5, SearchLeaves

(* The search goes on behind a torrent whose hash is kept.                 *)
LEMMA CompareStep ==
    ASSUME ClientInv, NEW h \in InfoHashes, search.step # "idle",
           search.step \in {"looking", "hashing"}, NEW t \in Torrents, Compare(t, h),
           UNCHANGED <<lifeVars, twins>>, hashed' \in [Torrents -> InfoHashes \cup {Null}],
           Active => /\ search.at \in DOMAIN list /\ hashed'[list[search.at]] = h
                     /\ \A i \in DOMAIN list \ {search.at} : hashed'[list[i]] = hashed[list[i]]
    PROVE  ClientInv'
<1>a. /\ search \in SearchRecord /\ list \in Lists(Torrents) /\ h # Null
      /\ UNCHANGED <<list, known>> /\ Listed' = Listed
  BY Nulls DEF ClientInv, ClientType, lifeVars, Listed
<1>1. CASE h = search.want
  <2>1. search' = [search EXCEPT !.step = "found", !.over = t, !.hash = ""]
    BY <1>1 DEF Compare
  <2>2. search' \in SearchRecord /\ search'.step = "found" /\ search'.at = search.at
    BY <1>a, <2>1 DEF SearchRecord, InfoHashes
  <2>3. EarlyStay' /\ Behind' /\ Hashing' /\ Started' /\ Overs'
    BY <2>2 DEF ClientInv, EarlyStay, Behind, Hashing, Started, Overs, Active
  <2>. QED
    BY <2>2, <2>3, SearchLeaves
<1>2. CASE h # search.want
  <2>1. search' = [search EXCEPT !.step = "looking", !.over = Null, !.hash = "", !.at = search.at + 1]
    BY <1>2 DEF Compare
  <2>2. /\ search' \in SearchRecord
        /\ search'.step = "looking" /\ search'.at = search.at + 1
        /\ search'.want = search.want /\ search'.late = search.late /\ search'.shrunk = search.shrunk
    <3>1. search.at \in Nat
      BY <1>a DEF SearchRecord
    <3>2. search.at + 1 \in Nat
      BY <3>1
    <3>3. "" \in InfoHashes
      BY DEF InfoHashes
    <3>. QED
      BY <1>a, <2>1, <3>2, <3>3 DEF SearchRecord
  <2>3. Active' => Active
    BY <2>2 DEF Active
  <2>4. EarlyStay'
    BY <1>a, <2>2, <2>3 DEF ClientInv, EarlyStay
  <2>5. Behind'
    <3> SUFFICES ASSUME Active', NEW i \in DOMAIN list, i < search.at + 1,
                        list[i] \notin search.late, InfoHash(known[list[i]]) = search.want
                 PROVE  hashed'[list[i]] \notin {Null, search.want}
      BY <1>a, <2>2 DEF Behind
    <3>1. CASE i = search.at
      BY <1>a, <1>2, <2>3, <3>1
    <3>2. CASE i # search.at
      <4>1. i < search.at
        BY <1>a, <3>2 DEF SearchRecord, Lists
      <4>2. hashed[list[i]] \notin {Null, search.want}
        BY <2>3, <4>1 DEF ClientInv, Behind
      <4>. QED
        BY <2>3, <3>2, <4>2
    <3>. QED
      BY <3>1, <3>2
  <2>6. Hashing' /\ Started' /\ Overs'
    BY <1>a, <2>2 DEF ClientInv, Hashing, Started, Overs, SearchRecord
  <2>. QED
    BY <2>2, <2>4, <2>5, <2>6, SearchLeaves
<1>. QED
  BY <1>1, <1>2

LEMMA SearchHashedStep ==
    ASSUME ClientInv, SearchHashed
    PROVE  ClientInv'
<1>a. /\ search.step = "hashing"
      /\ hashed' = [hashed EXCEPT ![search.over] = search.hash]
      /\ Compare(search.over, search.hash)
      /\ UNCHANGED <<lifeVars, twins>>
  BY DEF SearchHashed
<1>b. /\ search \in SearchRecord /\ list \in Lists(Torrents)
      /\ hashed \in [Torrents -> InfoHashes \cup {Null}]
      /\ search.over \in Torrents /\ search.hash \in InfoHashes
  BY <1>a DEF ClientInv, ClientType, Overs, SearchRecord
<1>1. hashed' \in [Torrents -> InfoHashes \cup {Null}]
  BY <1>a, <1>b
<1>2. Active => /\ search.at \in DOMAIN list /\ hashed'[list[search.at]] = search.hash
                /\ \A i \in DOMAIN list \ {search.at} : hashed'[list[i]] = hashed[list[i]]
  <2> SUFFICES ASSUME Active
               PROVE  /\ search.at \in DOMAIN list /\ hashed'[list[search.at]] = search.hash
                      /\ \A i \in DOMAIN list \ {search.at} : hashed'[list[i]] = hashed[list[i]]
    OBVIOUS
  <2>1. search.at \in DOMAIN list /\ search.over = list[search.at]
    BY <1>a DEF ClientInv, Hashing, Current
  <2>2. \A i \in DOMAIN list \ {search.at} : list[i] \in Torrents /\ list[i] # search.over
    BY <1>b, <2>1 DEF Lists, NoDup
  <2>. QED
    BY <1>a, <1>b, <2>1, <2>2
<1>. QED
  BY <1>a, <1>b, <1>1, <1>2, CompareStep

LEMMA SearchNextStep ==
    ASSUME ClientInv, SearchNext
    PROVE  ClientInv'
<1>a. /\ search.step = "looking"
      /\ search.at \in DOMAIN list /\ hashed[Current] # Null
      /\ Compare(Current, hashed[Current])
      /\ UNCHANGED <<lifeVars, hashed, twins>>
  BY DEF SearchNext
<1>b. /\ hashed \in [Torrents -> InfoHashes \cup {Null}] /\ Current \in Torrents
  BY <1>a DEF ClientInv, ClientType, Current, Lists
<1>c. hashed[Current] \in InfoHashes /\ hashed'[list[search.at]] = hashed[Current]
  BY <1>a, <1>b DEF Current
<1>. QED
  BY <1>a, <1>b, <1>c, CompareStep

LEMMA SearchEndStep ==
    ASSUME ClientInv, SearchEnd
    PROVE  ClientInv'
<1>a. /\ search \in SearchRecord /\ list \in Lists(Torrents)
      /\ UNCHANGED <<lifeVars, hashed, twins>> /\ UNCHANGED <<list, known, hashed>>
      /\ Listed' = Listed /\ hashed' \in [Torrents -> InfoHashes \cup {Null}]
  BY DEF SearchEnd, ClientInv, ClientType, lifeVars, Listed
<1>1. CASE /\ search.step = "looking" /\ search.at \notin DOMAIN list
           /\ search' = [search EXCEPT !.step = "missed"]
  <2>1. /\ search' \in SearchRecord /\ search'.step = "missed" /\ search'.at = search.at
        /\ search'.want = search.want /\ search'.late = search.late /\ search'.shrunk = search.shrunk
    BY <1>a, <1>1 DEF SearchRecord
  <2>2. Active' => Active
    BY <1>1, <2>1 DEF Active
  <2>3. EarlyStay'
    BY <1>a, <2>1, <2>2 DEF ClientInv, EarlyStay
  <2>4. Hashing' /\ Started' /\ Overs'
    BY <1>1, <2>1 DEF ClientInv, Hashing, Started, Overs
  <2>5. Behind'
    <3> SUFFICES ASSUME Active', NEW i \in DOMAIN list, list[i] \notin search.late,
                        InfoHash(known[list[i]]) = search.want
                 PROVE  hashed[list[i]] \notin {Null, search.want}
      BY <1>a, <2>1 DEF Behind
    <3>1. \A j \in DOMAIN list : j < search.at
      BY <1>a, <1>1 DEF ClientInv, Started, Lists, SearchRecord
    <3>. QED
      BY <2>2, <3>1 DEF ClientInv, Behind
  <2>. QED
    BY <1>a, <2>1, <2>3, <2>4, <2>5, SearchLeaves
<1>2. CASE search' = Idle
  <2>1. search' \in SearchRecord /\ search'.step = "idle"
    BY <1>2 DEF Idle, SearchRecord, InfoHashes
  <2>2. EarlyStay' /\ Behind' /\ Hashing' /\ Started' /\ Overs'
    BY <2>1 DEF EarlyStay, Behind, Hashing, Started, Overs, Active
  <2>. QED
    BY <1>a, <2>1, <2>2, SearchLeaves
<1>. QED
  BY <1>1, <1>2 DEF SearchEnd

-----------------------------------------------------------------------------
LEMMA TorrentStepInv ==
    ASSUME ClientInv, TorrentStep
    PROVE  ClientInv'
<1>a. stage \in [Torrents -> Stages]
  BY DEF ClientInv, ClientType
<1>1. ASSUME NEW t \in Torrents, NEW i \in DOMAIN Ids, Add(t, i) PROVE ClientInv'
  BY <1>1, AddStep
<1>2. ASSUME NEW t \in Torrents, OnParsedTorrent(t) PROVE ClientInv'
  <2>1. CASE Older(t) = {}
    BY <1>2, <2>1, ParsedStep
  <2>2. CASE Older(t) # {}
    <3>1. stage[t] # "none" /\ End({t}, RemoveFirst(list, t)) /\ UNCHANGED id
      BY <1>2, <2>2 DEF OnParsedTorrent
    <3>. QED
      BY <3>1, EndOneStep
  <2>. QED
    BY <2>1, <2>2
<1>3. ASSUME NEW t \in Torrents, OnMetadata(t) PROVE ClientInv'
  BY <1>3, MetadataStep
<1>4. ASSUME NEW t \in Torrents, OnStore(t) PROVE ClientInv'
  <2>1. /\ stage[t] = "verifying" /\ stage' = [stage EXCEPT ![t] = "ready"]
        /\ UNCHANGED <<list, id, known, hashed, search, twins>>
    BY <1>4 DEF OnStore
  <2>2. stage' \in [Torrents -> Stages]
    BY <1>a, <2>1 DEF Stages, OnTheList
  <2>3. \A u \in Torrents : \/ stage'[u] = stage[u]
                            \/ {stage[u], stage'[u]} \subseteq OnTheList \ {"parsing"}
                            \/ stage[u] = "destroyed" /\ stage'[u] = "closed"
    BY <1>a, <2>1 DEF OnTheList
  <2>. QED
    BY <2>1, <2>2, <2>3, StageStep
<1>5. ASSUME NEW t \in Torrents, DestroyTorrent(t) PROVE ClientInv'
  <2>1. stage[t] # "none" /\ End({t}, RemoveFirst(list, t)) /\ UNCHANGED id
    BY <1>5 DEF DestroyTorrent
  <2>. QED
    BY <2>1, EndOneStep
<1>6. ASSUME NEW t \in Torrents, Closed(t) PROVE ClientInv'
  <2>1. /\ stage[t] = "destroyed" /\ stage' = [stage EXCEPT ![t] = "closed"]
        /\ UNCHANGED <<list, id, known, hashed, search, twins>>
    BY <1>6 DEF Closed
  <2>2. stage' \in [Torrents -> Stages]
    BY <1>a, <2>1 DEF Stages
  <2>3. \A u \in Torrents : \/ stage'[u] = stage[u]
                            \/ {stage[u], stage'[u]} \subseteq OnTheList \ {"parsing"}
                            \/ stage[u] = "destroyed" /\ stage'[u] = "closed"
    BY <1>a, <2>1
  <2>. QED
    BY <2>1, <2>2, <2>3, StageStep
<1>. QED
  BY <1>1, <1>2, <1>3, <1>4, <1>5, <1>6 DEF TorrentStep

(* Steps that change neither a torrent's stage nor what it knows.          *)
LEMMA CallStep ==
    ASSUME ClientInv, UNCHANGED <<list, id, stage, known, hashed, search, twins>>
    PROVE  ClientInv'
<1>1. stage' \in [Torrents -> Stages]
  BY DEF ClientInv, ClientType
<1>. QED
  BY <1>1, StageStep

LEMMA CloseStepInv ==
    ASSUME ClientInv, CloseStep
    PROVE  ClientInv'
<1>1. ASSUME NEW t \in Torrents, RemoveFound(t) PROVE ClientInv'
  BY <1>1, CallStep DEF RemoveFound
<1>2. ASSUME NEW t \in Torrents, DetachTorrent(t) PROVE ClientInv'
  <2>1. CASE t \in Listed
    <3>1. stage[t] # "none"
      BY <2>1 DEF ClientInv, StagesKept, OnTheList
    <3>2. End({t}, RemoveFirst(list, t)) /\ UNCHANGED id
      BY <1>2, <2>1 DEF DetachTorrent
    <3>. QED
      BY <3>1, <3>2, EndOneStep
  <2>2. CASE t \notin Listed
    BY <1>2, <2>2, CallStep DEF DetachTorrent
  <2>. QED
    BY <2>1, <2>2
<1>3. CASE Shutdown
  <2> DEFINE rest == << >>
  <2>1. End(Listed, rest) /\ UNCHANGED id
    BY <1>3 DEF Shutdown
  <2>2. list \in Lists(Torrents) /\ Listed \in SUBSET Torrents
    BY DEF ClientInv, ClientType, Lists, Listed
  <2>3. rest \in Lists(Torrents) /\ ToSet(rest) = Listed \ Listed
    BY DEF Lists, NoDup, ToSet
  <2>4. Listed \cap Listed = {} => rest = list
    <3>1. Listed = {} => Len(list) = 0
      <4>1. list \in Seq(Torrents) /\ Len(list) \in Nat /\ DOMAIN list = 1 .. Len(list)
        BY <2>2 DEF Lists
      <4>2. Len(list) # 0 => 1 \in DOMAIN list /\ list[1] \in Listed
        BY <4>1 DEF Listed
      <4>. QED
        BY <4>2
    <3>. QED
      BY <2>2, <3>1, EmptySeq DEF Lists
  <2>5. \A t \in Listed : id[t] # Null
    BY <2>2 DEF ClientInv, StagesKept, OnTheList
  <2> HIDE DEF rest
  <2>. QED
    BY <2>1, <2>2, <2>3, <2>4, <2>5, EndStep
<1>4. ASSUME NEW s \in {"pool", "dht", "utp"}, ServerClosed(s) PROVE ClientInv'
  BY <1>4, CallStep DEF ServerClosed, lifeVars
<1>. QED
  BY <1>1, <1>2, <1>3, <1>4 DEF CloseStep

LEMMA NotifyStep ==
    ASSUME ClientInv, NotifyListening
    PROVE  ClientInv'
<1> DEFINE ts == {t \in Torrents : stage[t] = "hashed"}
<1>1. Begin(ts) /\ ts \in SUBSET Torrents /\ stage \in [Torrents -> Stages]
      /\ UNCHANGED <<list, id, known, hashed, search, twins>>
  BY DEF NotifyListening, ClientInv, ClientType
<1>2. \A u \in ts : stage[u] = "hashed"
  OBVIOUS
<1> HIDE DEF ts
<1>3. /\ stage' \in [Torrents -> Stages] /\ \A u \in ts : stage'[u] \in {"verifying", "magnet"}
      /\ \A u \in Torrents \ ts : stage'[u] = stage[u]
  BY <1>1, BeginStages
<1>4. \A u \in Torrents : \/ stage'[u] = stage[u]
                          \/ {stage[u], stage'[u]} \subseteq OnTheList \ {"parsing"}
                          \/ stage[u] = "destroyed" /\ stage'[u] = "closed"
  BY <1>2, <1>3 DEF OnTheList
<1>. QED
  BY <1>1, <1>3, <1>4, StageStep

LEMMA SearchStepInv ==
    ASSUME ClientInv, SearchStep
    PROVE  ClientInv'
BY SearchBegins, SearchHashStep, SearchHashedStep, SearchNextStep, SearchEndStep DEF SearchStep

LEMMA InvIdentifies == ClientInv => Identified
<1> SUFFICES ASSUME ClientInv PROVE Identified
  OBVIOUS
<1>1. SearchFinds
  <2> SUFFICES ASSUME search.step = "missed", NEW t \in Listed \ search.late,
                      InfoHash(known[t]) = search.want, ~search.shrunk
               PROVE  hashed[t] \notin {Null, InfoHash(known[t])}
    BY DEF ClientInv, ClientType, SearchRecord, SearchFinds
  <2>1. PICK i \in DOMAIN list : list[i] = t
    BY DEF Listed
  <2>2. Active
    BY DEF Active
  <2>. QED
    BY <2>1, <2>2 DEF ClientInv, Behind
<1>. QED
  BY <1>1 DEF ClientInv, Identified

LEMMA ClientStep ==
    ASSUME ClientInv, [ClientNext]_lifecycleVars
    PROVE  ClientInv'
<1>1. CASE TorrentStep
  BY <1>1, TorrentStepInv
<1>2. CASE NotifyListening
  BY <1>2, NotifyStep
<1>3. CASE CloseStep
  BY <1>3, CloseStepInv
<1>4. CASE SearchStep
  BY <1>4, SearchStepInv
<1>5. CASE UNCHANGED lifecycleVars
  BY <1>5, CallStep DEF lifecycleVars, lifeVars
<1>. QED
  BY <1>1, <1>2, <1>3, <1>4, <1>5 DEF ClientNext

(* client.add, getTorrentByPe3Hash: two torrents of the list have a hash   *)
(* in common only if the metadata of one of them told it, and a search     *)
(* misses a torrent that was and is on the list with the hash only if the  *)
(* list shrank under it or the hash kept for the torrent is of an older    *)
(* info hash.                                                              *)
THEOREM AlwaysIdentified == ClientSpec => []Identified
<1>1. ClientInv /\ [ClientNext]_lifecycleVars => ClientInv'
  BY ClientStep
<1>. QED
  BY <1>1, ClientInitInv, InvIdentifies, PTL DEF ClientSpec

-----------------------------------------------------------------------------
(* As long as the pool has one server, every task that is counted is a     *)
(* torrent or server that is open.                                         *)
TasksCounted ==
    ~Utp => /\ shutdown = "no" => servers = {"pool", "dht"}
            /\ shutdown # "no" => IsFiniteSet(servers) /\ pending = Cardinality(servers)
            /\ shutdown = "called" => servers = {}

(* An open torrent or server closes, and its task is counted off.          *)
LEMMA ShutdownTask ==
    ASSUME ~Utp, TasksCounted, NEW s \in servers, shutdown # "no",
           servers' = servers \ {s}, pending' = pending - 1,
           shutdown' = IF pending = 1 THEN "called" ELSE shutdown
    PROVE  TasksCounted'
<1>1. IsFiniteSet(servers) /\ pending = Cardinality(servers) /\ shutdown # "called"
  BY DEF TasksCounted
<1>2. IsFiniteSet(servers') /\ Cardinality(servers') = Cardinality(servers) - 1
  BY <1>1, FS_RemoveElement
<1>3. Cardinality(servers) \in Nat
  BY <1>1, FS_CardinalityType
<1>4. pending = 1 => servers' = {}
  BY <1>1, <1>2, FS_EmptySet
<1>5. shutdown' # "no" /\ (shutdown' = "called" => servers' = {})
  BY <1>1, <1>4
<1>. QED
  BY <1>1, <1>2, <1>3, <1>5 DEF TasksCounted

LEMMA ShutdownCounts ==
    ASSUME ClientInv, TasksCounted, Shutdown
    PROVE  TasksCounted'
<1> SUFFICES ASSUME ~Utp PROVE TasksCounted'
  BY DEF TasksCounted
<1>1. /\ servers = {"pool", "dht"} /\ shutdown' = "running"
      /\ pending' = Cardinality(Listed) + 2 /\ servers' = servers \cup Listed
  BY DEF TasksCounted, Shutdown, Tasks
<1>2. list \in Seq(Torrents) /\ Len(list) \in Nat
  BY DEF ClientInv, ClientType, Lists
<1>3. Listed \subseteq Torrents /\ "pool" \notin Listed /\ "dht" \notin Listed
  <2>1. Listed \subseteq Torrents
    BY <1>2 DEF Listed
  <2>. QED
    BY <2>1, ClientAssumption
<1>4. IsFiniteSet(Listed) /\ Cardinality(Listed) \in Nat
  <2>1. IsFiniteSet(1 .. Len(list))
    BY <1>2, FS_Interval
  <2>2. list \in Surjection(1 .. Len(list), Listed)
    BY <1>2 DEF Listed, Surjection
  <2>3. IsFiniteSet(Listed)
    BY <2>1, <2>2, FS_Surjection
  <2>. QED
    BY <2>3, FS_CardinalityType
<1>5. IsFiniteSet(Listed \cup {"pool"}) /\ Cardinality(Listed \cup {"pool"}) = Cardinality(Listed) + 1
  BY <1>3, <1>4, FS_AddElement
<1>6. /\ IsFiniteSet((Listed \cup {"pool"}) \cup {"dht"})
      /\ Cardinality((Listed \cup {"pool"}) \cup {"dht"}) = Cardinality(Listed) + 1 + 1
  BY <1>3, <1>5, FS_AddElement
<1>7. servers' = (Listed \cup {"pool"}) \cup {"dht"}
  BY <1>1
<1>. QED
  BY <1>1, <1>4, <1>6, <1>7 DEF TasksCounted

LEMMA TasksStep ==
    ASSUME ClientInv, TasksCounted, [ClientNext]_lifecycleVars
    PROVE  TasksCounted'
<1>1. CASE UNCHANGED <<shutdown, pending, servers>>
  BY <1>1 DEF TasksCounted
<1>2. ASSUME NEW t \in Torrents, Closed(t) PROVE TasksCounted'
  <2>1. CASE t \notin servers
    BY <1>1, <1>2, <2>1 DEF Closed
  <2>2. CASE t \in servers /\ ~Utp
    <3>1. shutdown # "no"
      BY <2>2, ClientAssumption DEF TasksCounted
    <3>. QED
      BY <1>2, <2>2, <3>1, ShutdownTask DEF Closed
  <2>3. CASE Utp
    BY <2>3 DEF TasksCounted
  <2>. QED
    BY <2>1, <2>2, <2>3
<1>3. ASSUME NEW s \in {"pool", "dht", "utp"}, ServerClosed(s) PROVE TasksCounted'
  <2>1. CASE ~Utp
    BY <1>3, <2>1, ShutdownTask DEF ServerClosed
  <2>2. CASE Utp
    BY <2>2 DEF TasksCounted
  <2>. QED
    BY <2>1, <2>2
<1>4. CASE TorrentStep
  <2>1. ASSUME NEW t \in Torrents, NEW i \in DOMAIN Ids, Add(t, i) PROVE TasksCounted'
    BY <1>1, <2>1 DEF Add, clientVars
  <2>2. ASSUME NEW t \in Torrents, OnParsedTorrent(t) \/ OnMetadata(t) \/ OnStore(t) \/ DestroyTorrent(t)
        PROVE  TasksCounted'
    BY <1>1, <2>2 DEF OnParsedTorrent, OnMetadata, OnStore, DestroyTorrent, clientVars
  <2>. QED
    BY <1>2, <1>4, <2>1, <2>2 DEF TorrentStep
<1>5. CASE NotifyListening
  BY <1>1, <1>5 DEF NotifyListening
<1>6. CASE CloseStep
  <2>1. ASSUME NEW t \in Torrents, RemoveFound(t) \/ DetachTorrent(t) PROVE TasksCounted'
    BY <1>1, <2>1 DEF RemoveFound, DetachTorrent, clientVars
  <2>. QED
    BY <1>3, <1>6, <2>1, ShutdownCounts DEF CloseStep
<1>7. CASE SearchStep
  BY <1>1, <1>7 DEF SearchStep, Search, SearchHash, SearchHashed, SearchNext, SearchEnd, clientVars
<1>8. CASE UNCHANGED lifecycleVars
  BY <1>1, <1>8 DEF lifecycleVars, clientVars
<1>. QED
  BY <1>4, <1>5, <1>6, <1>7, <1>8 DEF ClientNext

(* client.destroy: with one server in the pool its callback is called only *)
(* when every torrent that was listed, the pool and the DHT have closed.   *)
(* With two servers it is not so.                                          *)
THEOREM ClosesGracefully == ClientSpec => []GracefulClose
<1>1. ClientInit => ClientInv /\ TasksCounted
  <2>1. ClientInit => TasksCounted
    BY DEF ClientInit, TasksCounted
  <2>. QED
    BY <2>1, ClientInitInv
<1>2. ClientInv /\ TasksCounted /\ [ClientNext]_lifecycleVars => (ClientInv /\ TasksCounted)'
  BY ClientStep, TasksStep
<1>3. TasksCounted => GracefulClose
  BY DEF TasksCounted, GracefulClose, CalledWhenClosed
<1>. QED
  BY <1>1, <1>2, <1>3, PTL DEF ClientSpec

-----------------------------------------------------------------------------
(* Discovery: a state of it and of its tracker clients.                    *)
(* A state of discovery and clients, as it is passed along. The tasks left *)
(* are counted without knowing yet that they are never negative.           *)
State == [d : [port : Ports, tracker : Clients \cup {None}, trackerV2 : Clients \cup {None},
               announce : BOOLEAN, dht : BOOLEAN, announcing : BOOLEAN, timeout : BOOLEAN,
               destroyed : BOOLEAN, tasks : Int, called : BOOLEAN, cut : BOOLEAN],
          client : [Clients -> Client \cup {Free}], crashed : BOOLEAN]

(* Of the client i in the state s.                                         *)
Up(s, i, h) == s.client[i].is = "up" /\ s.client[i].hash = h

Closing(s, i, cb) == s.client[i].is = "closing" /\ s.client[i].cb = cb

Out(s, i) == s.client[i].is \in {"free", "closed"}

(* Before destroy: the discovery's own clients are up, or on their way out *)
(* one after the other, the one of the second info hash first, and there   *)
(* are no others.                                                          *)
Kept(s) ==
    /\ s.d.announce /\ (s.d.dht <=> setup.dht # "none")
    /\ s.d.tracker \in Clients
    /\ \A i \in Clients \ {s.d.tracker, s.d.trackerV2} : s.client[i] = Free
    /\ IF setup.v2
       THEN /\ s.d.trackerV2 \in Clients \ {s.d.tracker}
            /\ \/ /\ Up(s, s.d.tracker, "v1")
                  /\ Up(s, s.d.trackerV2, "v2") \/ Closing(s, s.d.trackerV2, "first")
               \/ Closing(s, s.d.tracker, "recreate") /\ Out(s, s.d.trackerV2)
       ELSE /\ s.d.trackerV2 = None
            /\ Up(s, s.d.tracker, "v1") \/ Closing(s, s.d.tracker, "recreate")

(* After destroy: whoever is up has no tracker to ask, and the last of the *)
(* old clients of a port update that is still under way is alone.          *)
Gone(s) ==
    /\ ~s.d.announce /\ ~s.d.dht /\ ~s.d.timeout
    /\ \A i \in Clients :
          /\ s.client[i].is = "up" => ~s.client[i].url
          /\ s.client[i].is = "closing" =>
                /\ s.client[i].cb \in {"recreate", "first", "task"}
                /\ s.client[i].cb = "first" => setup.v2 /\ s.d.tracker = None
                /\ s.client[i].cb = "recreate" => \A j \in Clients \ {i} : Out(s, j)

(* One or the other, and what they share.                                  *)
Kind(s) ==
    /\ s \in State
    /\ IF s.d.destroyed THEN Gone(s) ELSE Kept(s) /\ ~s.crashed
    /\ s.crashed => setup.v2
    /\ s.d.timeout => setup.dht # "none"

(* The invariant.                                                          *)
DiscoveryInv ==
    /\ setup \in Setup
    /\ Kind(Now)
    /\ dht # None => setup.dht # "none"

(* The same but for requests, ports and failures.                          *)
Alike(c, e) ==
    /\ c.is = e.is /\ (c = Free <=> e = Free)
    /\ c # Free => c.hash = e.hash /\ c.cb = e.cb /\ c.url = e.url

(* The state s with the client k closed, or on its way out.               *)
WithClosed(s, k) == [s EXCEPT !.client[k].is = "closed"]
WithClosing(s, k, cb) == [s EXCEPT !.client[k].is = "closing", !.client[k].cb = cb]

-----------------------------------------------------------------------------
(* A client has one of four stages, and no field in the first of them.     *)
LEMMA ClientIs ==
    ASSUME NEW c \in Client \cup {Free}
    PROVE  /\ c.is \in {"free", "up", "closing", "closed"}
           /\ c.is = "free" <=> c = Free
           /\ c # Free => c \in Client
<1>1. Free.is = "free"
  BY DEF Free
<1>2. ASSUME c \in Client PROVE c.is \in {"up", "closing", "closed"}
  BY <1>2 DEF Client
<1>. QED
  BY <1>1, <1>2

(* Every slot holds a client or is free.                                   *)
LEMMA StateIs ==
    ASSUME NEW s \in State, NEW i \in Clients
    PROVE  s.client[i] \in Client \cup {Free}
BY DEF State

(* One client changes.                                                     *)
LEMMA SetClient ==
    ASSUME NEW s \in State, NEW k \in Clients, NEW c \in Client \cup {Free}
    PROVE  LET r == [s EXCEPT !.client[k] = c]
           IN  /\ r \in State /\ r.d = s.d /\ r.crashed = s.crashed
               /\ r.client[k] = c
               /\ \A i \in Clients \ {k} : r.client[i] = s.client[i]
BY DEF State

(* A client closes, or is on its way out.                                  *)
LEMMA CloseClient ==
    ASSUME NEW s \in State, NEW k \in Clients, s.client[k] # Free
    PROVE  LET r == WithClosed(s, k)
           IN  /\ r \in State /\ r.d = s.d /\ r.crashed = s.crashed
               /\ r.client[k].is = "closed"
               /\ \A i \in Clients \ {k} : r.client[i] = s.client[i]
<1> DEFINE c == [s.client[k] EXCEPT !.is = "closed"]
<1>1. s.client[k] \in Client
  BY StateIs, ClientIs
<1>2. c \in Client /\ c.is = "closed"
  BY <1>1 DEF Client
<1>3. WithClosed(s, k) = [s EXCEPT !.client[k] = c]
  BY DEF WithClosed, State
<1> HIDE DEF c
<1>. QED
  BY <1>2, <1>3, SetClient

LEMMA ClosingClient ==
    ASSUME NEW s \in State, NEW k \in Clients, s.client[k] # Free,
           NEW cb \in {"none", "recreate", "first", "task"}
    PROVE  LET r == WithClosing(s, k, cb)
           IN  /\ r \in State /\ r.d = s.d /\ r.crashed = s.crashed
               /\ r.client[k].is = "closing" /\ r.client[k].cb = cb
               /\ r.client[k].live = s.client[k].live
               /\ \A i \in Clients \ {k} : r.client[i] = s.client[i]
<1> DEFINE c == [s.client[k] EXCEPT !.is = "closing", !.cb = cb]
<1>1. s.client[k] \in Client
  BY StateIs, ClientIs
<1>2. c \in Client /\ c.is = "closing" /\ c.cb = cb /\ c.live = s.client[k].live
  BY <1>1 DEF Client
<1>3. WithClosing(s, k, cb) = [s EXCEPT !.client[k] = c]
  BY DEF WithClosing, State
<1> HIDE DEF c
<1>. QED
  BY <1>2, <1>3, SetClient

(* client.stop only adds a request.                                        *)
LEMMA StopAlike ==
    ASSUME NEW s \in State, NEW k \in Clients \cup {None}
    PROVE  /\ Stop(s, k) \in State /\ Stop(s, k).d = s.d /\ Stop(s, k).crashed = s.crashed
           /\ \A i \in Clients : Alike(Stop(s, k).client[i], s.client[i])
<1>1. CASE k # None /\ s.client[k].is = "up" /\ s.client[k].url
  <2> DEFINE c == [s.client[k] EXCEPT !.live = s.client[k].live + 1]
  <2>1. k \in Clients /\ s.client[k] \in Client
    BY <1>1, StateIs, ClientIs
  <2>2. c \in Client /\ Alike(c, s.client[k])
    <3>1. c \in Client /\ c.is = s.client[k].is /\ c.hash = s.client[k].hash
          /\ c.cb = s.client[k].cb /\ c.url = s.client[k].url
      BY <2>1 DEF Client
    <3>. QED
      BY <3>1, <2>1, ClientIs DEF Alike
  <2>3. Stop(s, k) = [s EXCEPT !.client[k] = c]
    BY <1>1 DEF Stop, State
  <2> HIDE DEF c
  <2>4. \A i \in Clients : Alike(s.client[i], s.client[i])
    BY DEF Alike
  <2>. QED
    BY <2>1, <2>2, <2>3, <2>4, SetClient
<1>2. CASE ~(k # None /\ s.client[k].is = "up" /\ s.client[k].url)
  BY <1>2 DEF Stop, Alike
<1>. QED
  BY <1>1, <1>2

(* What matters of a state is the same in states that are alike.           *)
LEMMA AlikeKept ==
    ASSUME NEW s \in State, NEW r \in State, Kept(s),
           r.d.announce = s.d.announce, r.d.dht = s.d.dht,
           r.d.tracker = s.d.tracker, r.d.trackerV2 = s.d.trackerV2,
           \A i \in Clients : Alike(r.client[i], s.client[i])
    PROVE  Kept(r)
<1>1. \A i \in Clients : /\ r.client[i].is = s.client[i].is
                         /\ r.client[i] = Free <=> s.client[i] = Free
  BY DEF Alike
<1>2. \A i \in Clients : \A h, cb : /\ Up(s, i, h) => Up(r, i, h)
                                    /\ Closing(s, i, cb) => Closing(r, i, cb)
                                    /\ Out(s, i) => Out(r, i)
  <2> SUFFICES ASSUME NEW i \in Clients, NEW h, NEW cb
               PROVE  /\ Up(s, i, h) => Up(r, i, h)
                      /\ Closing(s, i, cb) => Closing(r, i, cb)
                      /\ Out(s, i) => Out(r, i)
    OBVIOUS
  <2>1. Alike(r.client[i], s.client[i])
    OBVIOUS
  <2>2. s.client[i].is = "free" <=> s.client[i] = Free
    BY StateIs, ClientIs
  <2>. QED
    BY <2>1, <2>2 DEF Up, Closing, Out, Alike
<1>. QED
  BY <1>1, <1>2 DEF Kept

(* The same after destroy.                                                 *)
LEMMA AlikeGone ==
    ASSUME NEW s \in State, NEW r \in State, Gone(s),
           r.d.announce = s.d.announce, r.d.dht = s.d.dht, r.d.timeout = s.d.timeout,
           r.d.tracker = s.d.tracker,
           \A i \in Clients : Alike(r.client[i], s.client[i])
    PROVE  Gone(r)
<1>1. \A i \in Clients : Out(s, i) => Out(r, i)
  BY DEF Out, Alike
<1>2. ASSUME NEW i \in Clients
      PROVE  /\ r.client[i].is = "up" => ~r.client[i].url
             /\ r.client[i].is = "closing" =>
                   /\ r.client[i].cb \in {"recreate", "first", "task"}
                   /\ r.client[i].cb = "first" => setup.v2 /\ r.d.tracker = None
                   /\ r.client[i].cb = "recreate" => \A j \in Clients \ {i} : Out(r, j)
  <2>1. Alike(r.client[i], s.client[i])
    OBVIOUS
  <2>2. s.client[i].is = "free" <=> s.client[i] = Free
    BY StateIs, ClientIs
  <2>3. /\ s.client[i].is = "up" => ~s.client[i].url
        /\ s.client[i].is = "closing" =>
             /\ s.client[i].cb \in {"recreate", "first", "task"}
             /\ s.client[i].cb = "first" => setup.v2 /\ s.d.tracker = None
             /\ s.client[i].cb = "recreate" => \A j \in Clients \ {i} : Out(s, j)
    BY DEF Gone
  <2>. QED
    BY <1>1, <2>1, <2>2, <2>3 DEF Alike
<1>. QED
  BY <1>2 DEF Gone

-----------------------------------------------------------------------------
(* A client that starts.                                                   *)
New(s, hash) == [is |-> "up", hash |-> hash, port |-> s.d.port, url |-> s.d.announce,
                 live |-> IF s.d.announce THEN 1 ELSE 0, dead |-> FALSE, cb |-> "none"]

(* It is a client.                                                         *)
LEMMA NewClient ==
    ASSUME NEW s \in State, NEW hash \in Hashes
    PROVE  New(s, hash) \in Client /\ New(s, hash) # Free
<1>1. s.d.port \in Ports /\ s.d.announce \in BOOLEAN
  BY DEF State
<1>2. New(s, hash) \in Client /\ New(s, hash).is = "up"
  BY <1>1 DEF New, Client
<1>. QED
  BY <1>2, ClientIs

(* #createTracker takes a free slot.                                       *)
Takes(s, r, hash, field, k) ==
    /\ s.client[k] = Free
    /\ r \in State /\ r.crashed = s.crashed
    /\ r.client[k] = New(s, hash)
    /\ \A i \in Clients \ {k} : r.client[i] = s.client[i]
    /\ r.d = IF field = "v1" THEN [s.d EXCEPT !.tracker = k]
                             ELSE [s.d EXCEPT !.trackerV2 = k]

LEMMA Makes ==
    ASSUME NEW s \in State, NEW hash \in Hashes, NEW field \in {"v1", "v2"},
           \E i \in Clients : s.client[i] = Free,
           NEW r, r = MakeTracker(s, hash, field)
    PROVE  \E k \in Clients : Takes(s, r, hash, field, k)
<1> DEFINE k == CHOOSE i \in Clients : s.client[i] = Free
           c == New(s, hash)
           e == IF field = "v1" THEN [s.d EXCEPT !.tracker = k] ELSE [s.d EXCEPT !.trackerV2 = k]
<1>1. k \in Clients /\ s.client[k] = Free
  OBVIOUS
<1>2. c \in Client
  BY NewClient
<1>3. MakeTracker(s, hash, field) = [[s EXCEPT !.client[k] = c] EXCEPT !.d = e]
  BY DEF MakeTracker, New, State
<1>4. c = New(s, hash)
  OBVIOUS
<1> DEFINE q == [s EXCEPT !.client[k] = c]
<1> HIDE DEF k, c
<1>6. q \in State /\ q.d = s.d /\ q.crashed = s.crashed /\ q.client[k] = c
      /\ \A i \in Clients \ {k} : q.client[i] = s.client[i]
  BY <1>1, <1>2, SetClient
<1>7. r = [q EXCEPT !.d = e]
  BY <1>3
<1> HIDE DEF q
<1>8. r \in State /\ r.d = e /\ r.crashed = q.crashed /\ r.client = q.client
  BY <1>1, <1>6, <1>7 DEF State
<1>. QED
  BY <1>1, <1>4, <1>6, <1>8 DEF Takes

(* What the clients are once the trackers were made.                       *)
Made(s, r) ==
    /\ r \in State /\ r.crashed = s.crashed
    /\ r.d.announce = s.d.announce /\ r.d.dht = s.d.dht /\ r.d.timeout = s.d.timeout
    /\ r.d.destroyed = s.d.destroyed /\ r.d.announcing = s.d.announcing /\ r.d.port = s.d.port
    /\ \A i \in Clients : r.client[i] = Free \/ \E h \in Hashes : r.client[i] = New(s, h)
    /\ r.d.tracker \in Clients /\ r.client[r.d.tracker] = New(s, "v1")
    /\ IF setup.v2
       THEN r.d.trackerV2 \in Clients \ {r.d.tracker} /\ r.client[r.d.trackerV2] = New(s, "v2")
       ELSE r.d.trackerV2 = s.d.trackerV2
    /\ \A i \in Clients \ {r.d.tracker, r.d.trackerV2} : r.client[i] = Free

(* Both are made when every slot is free.                                  *)
LEMMA MakesAll ==
    ASSUME NEW s \in State, \A i \in Clients : s.client[i] = Free
    PROVE  Made(s, MakeTrackers(s))
<1>1. "v1" \in Hashes /\ "v2" \in Hashes /\ \E a, b \in Clients : a # b
  BY DiscoveryAssumption DEF Hashes
<1> DEFINE q == MakeTracker(s, "v1", "v1")
<1>2. PICK a \in Clients : /\ q \in State /\ q.crashed = s.crashed
                           /\ q.client[a] = New(s, "v1")
                           /\ \A i \in Clients \ {a} : q.client[i] = s.client[i]
                           /\ q.d = [s.d EXCEPT !.tracker = a]
  <2>1. q = MakeTracker(s, "v1", "v1") /\ "v1" \in {"v1", "v2"}
        /\ \E i \in Clients : s.client[i] = Free
    BY <1>1
  <2> HIDE DEF q
  <2>2. \E a \in Clients : Takes(s, q, "v1", "v1", a)
    BY <1>1, <2>1, Makes
  <2>. QED
    BY <2>2 DEF Takes
<1>3. /\ q.d.tracker = a /\ q.d.trackerV2 = s.d.trackerV2 /\ q.d.announce = s.d.announce
      /\ q.d.dht = s.d.dht /\ q.d.timeout = s.d.timeout /\ q.d.destroyed = s.d.destroyed
      /\ q.d.announcing = s.d.announcing /\ q.d.port = s.d.port
  BY <1>2 DEF State
<1>4. \A i \in Clients \ {a} : q.client[i] = Free
  BY <1>2
<1>5. CASE ~setup.v2
  <2>1. MakeTrackers(s) = q
    BY <1>5 DEF MakeTrackers
  <2> HIDE DEF q
  <2>. QED
    BY <1>1, <1>2, <1>3, <1>4, <1>5, <2>1 DEF Made
<1>6. CASE setup.v2
  <2> DEFINE r == MakeTracker(q, "v2", "v2")
  <2>1. MakeTrackers(s) = r
    BY <1>6 DEF MakeTrackers
  <2> HIDE DEF q
  <2>2. \E i \in Clients : q.client[i] = Free
    BY <1>1, <1>4
  <2>3. PICK b \in Clients : /\ q.client[b] = Free
                             /\ r \in State /\ r.crashed = q.crashed
                             /\ r.client[b] = New(q, "v2")
                             /\ \A i \in Clients \ {b} : r.client[i] = q.client[i]
                             /\ r.d = [q.d EXCEPT !.trackerV2 = b]
    <3>1. q \in State /\ "v2" \in {"v1", "v2"} /\ "v2" \in Hashes /\ r = MakeTracker(q, "v2", "v2")
      BY <1>1, <1>2
    <3> HIDE DEF r
    <3>2. \E b \in Clients : Takes(q, r, "v2", "v2", b)
      BY <2>2, <3>1, Makes
    <3>. QED
      BY <3>2 DEF Takes
  <2>4. b # a
    BY <1>1, <1>2, <2>3, NewClient
  <2>5. New(q, "v2") = New(s, "v2")
    BY <1>3 DEF New
  <2>6. /\ r.d.tracker = a /\ r.d.trackerV2 = b /\ r.d.announce = s.d.announce
        /\ r.d.dht = s.d.dht /\ r.d.timeout = s.d.timeout /\ r.d.destroyed = s.d.destroyed
        /\ r.d.announcing = s.d.announcing /\ r.d.port = s.d.port
    BY <1>2, <1>3, <2>3 DEF State
  <2> HIDE DEF r
  <2>7. r.client[a] = New(s, "v1") /\ \A i \in Clients \ {a, b} : r.client[i] = Free
    BY <1>2, <1>4, <2>3, <2>4
  <2>. QED
    BY <1>1, <1>2, <1>6, <2>1, <2>3, <2>4, <2>5, <2>6, <2>7 DEF Made
<1>. QED
  BY <1>5, <1>6

(* New trackers when the old clients are closed.                           *)
LEMMA Recreates ==
    ASSUME NEW s \in State, \A i \in Clients : Out(s, i)
    PROVE  Made(s, Recreate(s))
<1> DEFINE f == [i \in Clients |-> IF s.client[i].is = "closed" THEN Free ELSE s.client[i]]
           t == [s EXCEPT !.client = f]
<1>1. \A i \in Clients : f[i] = Free
  BY StateIs, ClientIs DEF Out
<1>2. f \in [Clients -> Client \cup {Free}]
  BY <1>1
<1>3. Recreate(s) = MakeTrackers(t)
  BY DEF Recreate
<1> HIDE DEF f
<1>4. t \in State /\ t.d = s.d /\ t.crashed = s.crashed /\ t.client = f
  BY <1>2 DEF State
<1> HIDE DEF t
<1>5. Made(t, MakeTrackers(t))
  BY <1>1, <1>4, MakesAll
<1>6. \A h : New(t, h) = New(s, h)
  BY <1>4 DEF New
<1>. QED
  BY <1>3, <1>4, <1>5, <1>6 DEF Made

-----------------------------------------------------------------------------
(* The trackers made before and after destroy.                             *)
LEMMA MadeKept ==
    ASSUME NEW s \in State, NEW r, Made(s, r), s.d.announce, s.d.dht <=> setup.dht # "none",
           ~setup.v2 => s.d.trackerV2 = None
    PROVE  Kept(r)
<1>1. \A h : New(s, h).is = "up" /\ New(s, h).hash = h
  BY DEF New
<1>2. Up(r, r.d.tracker, "v1") /\ (setup.v2 => Up(r, r.d.trackerV2, "v2"))
  BY <1>1 DEF Made, Up
<1>. QED
  BY <1>2 DEF Made, Kept

(* After destroy they have no tracker to ask.                              *)
LEMMA MadeGone ==
    ASSUME NEW s \in State, NEW r, Made(s, r), ~s.d.announce, ~s.d.dht, ~s.d.timeout
    PROVE  Gone(r) /\ \A i \in Clients : r.client[i] # Free => r.client[i].live = 0
<1>1. \A h : New(s, h).is = "up" /\ ~New(s, h).url /\ New(s, h).live = 0
  BY DEF New
<1>2. ASSUME NEW i \in Clients
      PROVE  /\ r.client[i].is # "closing"
             /\ r.client[i].is = "up" => ~r.client[i].url
             /\ r.client[i] # Free => r.client[i].live = 0
  <2>1. r.client[i] = Free \/ \E h \in Hashes : r.client[i] = New(s, h)
    BY DEF Made
  <2>2. Free.is = "free"
    BY DEF Free
  <2>. QED
    BY <1>1, <2>1, <2>2
<1>. QED
  BY <1>2 DEF Made, Gone

(* What a port update leaves alone.                                        *)
Stays(s, r) ==
    /\ r \in State /\ r.crashed = s.crashed
    /\ r.d.destroyed = s.d.destroyed /\ r.d.timeout = s.d.timeout

(* The client of the first info hash is the last one that is not closed.   *)
LastLeft(s) ==
    /\ s.d.announce /\ (s.d.dht <=> setup.dht # "none")
    /\ s.d.tracker \in Clients
    /\ IF setup.v2 THEN s.d.trackerV2 \in Clients \ {s.d.tracker} ELSE s.d.trackerV2 = None
    /\ \A i \in Clients \ {s.d.tracker} : Out(s, i)
    /\ \A i \in Clients \ {s.d.tracker, s.d.trackerV2} : s.client[i] = Free
    /\ Up(s, s.d.tracker, "v1") \/ Closing(s, s.d.tracker, "recreate")

(* It closes: new ones are made, at once or when it has closed.            *)
LEMMA RecreateLast ==
    ASSUME NEW s \in State, LastLeft(s), s.client[s.d.tracker].is # "free"
    PROVE  LET r == Recreate(WithClosed(s, s.d.tracker)) IN Stays(s, r) /\ Kept(r)
<1> DEFINE k == s.d.tracker
           t == WithClosed(s, k)
<1>1. k \in Clients /\ s.client[k] # Free
  BY ClientIs, StateIs DEF LastLeft
<1>2. /\ t \in State /\ t.d = s.d /\ t.crashed = s.crashed /\ t.client[k].is = "closed"
      /\ \A i \in Clients \ {k} : t.client[i] = s.client[i]
  BY <1>1, CloseClient
<1> HIDE DEF t
<1>3. \A i \in Clients : Out(t, i)
  BY <1>1, <1>2 DEF Out, LastLeft
<1>4. Made(t, Recreate(t))
  BY <1>2, <1>3, Recreates
<1>5. Kept(Recreate(t))
  BY <1>2, <1>4, MadeKept DEF LastLeft
<1>6. Stays(s, Recreate(t))
  BY <1>2, <1>4 DEF Made, Stays
<1>. QED
  BY <1>5, <1>6 DEF t

(* client.destroy of the last one, in updatePort.                          *)
LEMMA CloseLast ==
    ASSUME NEW s \in State, LastLeft(s)
    PROVE  LET r == Close(s, s.d.tracker, "recreate", Recreate) IN Stays(s, r) /\ Kept(r)
<1> DEFINE k == s.d.tracker
           r == Close(s, k, "recreate", Recreate)
<1>1. k \in Clients /\ s.client[k] \in Client \cup {Free}
  BY StateIs DEF LastLeft
<1>2. CASE s.client[k].is # "up"
  <2>1. r = s
    BY <1>2 DEF Close
  <2>2. Kept(s)
    BY <1>2 DEF LastLeft, Kept, Up
  <2>. QED
    BY <2>1, <2>2 DEF Stays
<1>3. CASE s.client[k].is = "up" /\ s.client[k].live = 0 /\ ~s.client[k].dead
  <2>1. r = Recreate(WithClosed(s, k))
    BY <1>3 DEF Close, WithClosed
  <2>. QED
    BY <1>3, <2>1, RecreateLast
<1>4. CASE s.client[k].is = "up" /\ ~(s.client[k].live = 0 /\ ~s.client[k].dead)
  <2>1. r = WithClosing(s, k, "recreate")
    BY <1>4 DEF Close, WithClosing
  <2>2. s.client[k] # Free
    BY <1>1, <1>4, ClientIs
  <2>3. /\ r \in State /\ r.d = s.d /\ r.crashed = s.crashed
        /\ r.client[k].is = "closing" /\ r.client[k].cb = "recreate"
        /\ \A i \in Clients \ {k} : r.client[i] = s.client[i]
    BY <1>1, <2>1, <2>2, ClosingClient
  <2> HIDE DEF r
  <2>4. Closing(r, k, "recreate") /\ \A i \in Clients \ {k} : Out(r, i)
    BY <2>3 DEF Closing, Out, LastLeft
  <2>5. Kept(r)
    BY <1>1, <2>3, <2>4 DEF Kept, LastLeft
  <2>. QED
    BY <2>3, <2>5 DEF Stays, r
<1>. QED
  BY <1>2, <1>3, <1>4

(* The client of the second info hash has closed.                          *)
LEMMA CloseSecond ==
    ASSUME NEW s \in State, Kept(s), setup.v2, ~s.d.destroyed,
           Up(s, s.d.tracker, "v1"), s.client[s.d.trackerV2].is # "free"
    PROVE  LET r == First(WithClosed(s, s.d.trackerV2)) IN Stays(s, r) /\ Kept(r)
<1> DEFINE k == s.d.trackerV2
           t == WithClosed(s, k)
<1>1. k \in Clients \ {s.d.tracker} /\ s.client[k] # Free /\ s.d.tracker \in Clients
  BY ClientIs, StateIs DEF Kept
<1>2. /\ t \in State /\ t.d = s.d /\ t.crashed = s.crashed /\ t.client[k].is = "closed"
      /\ \A i \in Clients \ {k} : t.client[i] = s.client[i]
  BY <1>1, CloseClient
<1> HIDE DEF t
<1>3. \A i \in Clients \ {s.d.tracker, k} : t.client[i] = Free /\ t.client[i].is = "free"
  BY <1>2, ClientIs DEF Kept
<1>4. LastLeft(t)
  <2>1. \A i \in Clients \ {s.d.tracker} : Out(t, i)
    BY <1>2, <1>3 DEF Out
  <2>2. Up(t, s.d.tracker, "v1")
    BY <1>1, <1>2 DEF Up
  <2>. QED
    BY <1>1, <1>2, <1>3, <2>1, <2>2 DEF LastLeft, Kept
<1>5. First(t) = Close(t, t.d.tracker, "recreate", Recreate)
  BY <1>1, <1>2, DiscoveryAssumption DEF First
<1>6. Stays(t, First(t)) /\ Kept(First(t))
  BY <1>2, <1>4, <1>5, CloseLast
<1>. QED
  BY <1>2, <1>6 DEF Stays, t

(* client.destroy of the second one, in updatePort.                        *)
LEMMA CloseFirst ==
    ASSUME NEW s \in State, Kept(s), setup.v2, ~s.d.destroyed
    PROVE  LET r == Close(s, s.d.trackerV2, "first", First) IN Stays(s, r) /\ Kept(r)
<1> DEFINE k == s.d.trackerV2
           r == Close(s, k, "first", First)
<1>1. k \in Clients \ {s.d.tracker} /\ s.client[k] \in Client \cup {Free} /\ s.d.tracker \in Clients
  BY StateIs DEF Kept
<1>2. CASE s.client[k].is # "up"
  <2>1. r = s
    BY <1>2 DEF Close
  <2>. QED
    BY <2>1 DEF Stays
<1>a. ASSUME s.client[k].is = "up" PROVE Up(s, s.d.tracker, "v1") /\ s.client[k] # Free
  BY <1>1, <1>a, ClientIs DEF Kept, Out
<1>3. CASE s.client[k].is = "up" /\ s.client[k].live = 0 /\ ~s.client[k].dead
  <2>1. r = First(WithClosed(s, k))
    BY <1>3 DEF Close, WithClosed
  <2>. QED
    BY <1>3, <1>a, <2>1, CloseSecond
<1>4. CASE s.client[k].is = "up" /\ ~(s.client[k].live = 0 /\ ~s.client[k].dead)
  <2>1. r = WithClosing(s, k, "first")
    BY <1>4 DEF Close, WithClosing
  <2>3. /\ r \in State /\ r.d = s.d /\ r.crashed = s.crashed
        /\ r.client[k].is = "closing" /\ r.client[k].cb = "first"
        /\ \A i \in Clients \ {k} : r.client[i] = s.client[i]
    BY <1>1, <1>4, <1>a, <2>1, ClosingClient
  <2> HIDE DEF r
  <2>4. Closing(r, k, "first") /\ Up(r, s.d.tracker, "v1")
    BY <1>1, <1>4, <1>a, <2>3 DEF Closing, Up
  <2>5. Kept(r)
    BY <1>1, <2>3, <2>4 DEF Kept
  <2>. QED
    BY <2>3, <2>5 DEF Stays, r
<1>. QED
  BY <1>2, <1>3, <1>4

(* Without a second info hash there is no other client.                    *)
LEMMA OnlyLast ==
    ASSUME NEW s \in State, Kept(s), ~setup.v2
    PROVE  LastLeft(s)
<1>1. \A i \in Clients \ {s.d.tracker} : Out(s, i)
  BY ClientIs, DiscoveryAssumption DEF Kept, Out
<1>. QED
  BY <1>1 DEF Kept, LastLeft

-----------------------------------------------------------------------------
(* What destroy and the closing clients do.                                *)
LEMMA DoneTask ==
    ASSUME NEW s \in State
    PROVE  LET r == TaskDone(s)
           IN  /\ r \in State /\ r.crashed = s.crashed /\ r.client = s.client
               /\ r.d.destroyed = s.d.destroyed /\ r.d.announce = s.d.announce
               /\ r.d.dht = s.d.dht /\ r.d.timeout = s.d.timeout
               /\ r.d.tracker = s.d.tracker /\ r.d.trackerV2 = s.d.trackerV2
<1> DEFINE x == s.d.tasks - 1
           y == s.d.called \/ (s.d.tasks = 1 /\ ~s.d.cut)
<1>1. TaskDone(s) = [s EXCEPT !.d.tasks = x, !.d.called = y]
  BY DEF TaskDone, State
<1>2. s.d.tasks \in Int
  BY DEF State
<1>3. x \in Int /\ y \in BOOLEAN
  BY <1>2
<1> HIDE DEF x, y
<1> DEFINE e == [s.d EXCEPT !.tasks = x, !.called = y]
<1>4. TaskDone(s) = [s EXCEPT !.d = e]
  BY <1>1 DEF State
<1>5. /\ e \in [port : Ports, tracker : Clients \cup {None}, trackerV2 : Clients \cup {None},
                announce : BOOLEAN, dht : BOOLEAN, announcing : BOOLEAN, timeout : BOOLEAN,
                destroyed : BOOLEAN, tasks : Int, called : BOOLEAN, cut : BOOLEAN]
      /\ e.destroyed = s.d.destroyed /\ e.announce = s.d.announce
      /\ e.dht = s.d.dht /\ e.timeout = s.d.timeout
      /\ e.tracker = s.d.tracker /\ e.trackerV2 = s.d.trackerV2
  BY <1>3 DEF State
<1> HIDE DEF e
<1>. QED
  BY <1>4, <1>5 DEF State

(* A client is told to go: it closes, or is on its way out, perhaps since  *)
(* an earlier port update.                                                 *)
LEMMA CloseTask ==
    ASSUME NEW s \in State, NEW k \in Clients
    PROVE  LET r == Close(s, k, "task", TaskDone)
           IN  /\ r \in State /\ r.crashed = s.crashed
               /\ r.d.destroyed = s.d.destroyed /\ r.d.announce = s.d.announce
               /\ r.d.dht = s.d.dht /\ r.d.timeout = s.d.timeout
               /\ r.d.tracker = s.d.tracker /\ r.d.trackerV2 = s.d.trackerV2
               /\ \A i \in Clients \ {k} : r.client[i] = s.client[i]
               /\ \/ Out(r, k) \/ Closing(r, k, "task")
                  \/ s.client[k].is = "closing" /\ r.client[k] = s.client[k]
               /\ Out(s, k) => Out(r, k)
<1> DEFINE r == Close(s, k, "task", TaskDone)
<1>1. s.client[k] \in Client \cup {Free}
  BY StateIs
<1>2. CASE s.client[k].is # "up"
  <2>1. r = [s EXCEPT !.d.cut = TRUE]
    BY <1>2 DEF Close
  <2>2. /\ r \in State /\ r.crashed = s.crashed /\ r.client = s.client
        /\ r.d.destroyed = s.d.destroyed /\ r.d.announce = s.d.announce
        /\ r.d.dht = s.d.dht /\ r.d.timeout = s.d.timeout
        /\ r.d.tracker = s.d.tracker /\ r.d.trackerV2 = s.d.trackerV2
    BY <2>1 DEF State
  <2> HIDE DEF r
  <2>3. /\ Out(r, k) \/ (s.client[k].is = "closing" /\ r.client[k] = s.client[k])
        /\ Out(s, k) => Out(r, k)
    BY <1>1, <1>2, <2>2, ClientIs DEF Out
  <2>. QED
    BY <2>2, <2>3 DEF r
<1>3. CASE s.client[k].is = "up" /\ s.client[k].live = 0 /\ ~s.client[k].dead
  <2> DEFINE t == WithClosed(s, k)
  <2>1. r = TaskDone(t)
    BY <1>3 DEF Close, WithClosed
  <2>2. /\ t \in State /\ t.d = s.d /\ t.crashed = s.crashed /\ t.client[k].is = "closed"
        /\ \A i \in Clients \ {k} : t.client[i] = s.client[i]
    BY <1>1, <1>3, ClientIs, CloseClient
  <2> HIDE DEF t, r
  <2>3. /\ r \in State /\ r.crashed = t.crashed /\ r.client = t.client
        /\ r.d.destroyed = t.d.destroyed /\ r.d.announce = t.d.announce
        /\ r.d.dht = t.d.dht /\ r.d.timeout = t.d.timeout
        /\ r.d.tracker = t.d.tracker /\ r.d.trackerV2 = t.d.trackerV2
    BY <2>1, <2>2, DoneTask
  <2>. QED
    BY <1>3, <2>2, <2>3 DEF r, Out
<1>4. CASE s.client[k].is = "up" /\ ~(s.client[k].live = 0 /\ ~s.client[k].dead)
  <2>1. r = WithClosing(s, k, "task")
    BY <1>4 DEF Close, WithClosing
  <2>2. /\ r \in State /\ r.d = s.d /\ r.crashed = s.crashed
        /\ r.client[k].is = "closing" /\ r.client[k].cb = "task"
        /\ \A i \in Clients \ {k} : r.client[i] = s.client[i]
    BY <1>1, <1>4, <2>1, ClientIs, ClosingClient
  <2> HIDE DEF r
  <2>. QED
    BY <1>4, <2>2 DEF Closing, Out, r
<1>. QED
  BY <1>2, <1>3, <1>4

(* A client stops and is told to go.                                       *)
LEMMA ShutTask ==
    ASSUME NEW s \in State, NEW k \in Clients
    PROVE  LET r == Close(Stop(s, k), k, "task", TaskDone)
           IN  /\ r \in State /\ r.crashed = s.crashed
               /\ r.d.destroyed = s.d.destroyed /\ r.d.announce = s.d.announce
               /\ r.d.dht = s.d.dht /\ r.d.timeout = s.d.timeout
               /\ r.d.tracker = s.d.tracker /\ r.d.trackerV2 = s.d.trackerV2
               /\ \A i \in Clients \ {k} : Alike(r.client[i], s.client[i])
               /\ \/ Out(r, k) \/ Closing(r, k, "task")
                  \/ s.client[k].is = "closing" /\ Alike(r.client[k], s.client[k])
               /\ Out(s, k) => Out(r, k)
<1> DEFINE t == Stop(s, k)
<1>1. /\ t \in State /\ t.d = s.d /\ t.crashed = s.crashed
      /\ \A i \in Clients : Alike(t.client[i], s.client[i])
  BY StopAlike
<1>2. t.client[k].is = s.client[k].is
  BY <1>1 DEF Alike
<1> HIDE DEF t
<1> DEFINE r == Close(t, k, "task", TaskDone)
<1>3. /\ r \in State /\ r.crashed = t.crashed
      /\ r.d.destroyed = t.d.destroyed /\ r.d.announce = t.d.announce
      /\ r.d.dht = t.d.dht /\ r.d.timeout = t.d.timeout
      /\ r.d.tracker = t.d.tracker /\ r.d.trackerV2 = t.d.trackerV2
      /\ \A i \in Clients \ {k} : r.client[i] = t.client[i]
      /\ \/ Out(r, k) \/ Closing(r, k, "task")
         \/ t.client[k].is = "closing" /\ r.client[k] = t.client[k]
      /\ Out(t, k) => Out(r, k)
  BY <1>1, CloseTask
<1> HIDE DEF r
<1>4. \A i \in Clients \ {k} : Alike(r.client[i], s.client[i])
  BY <1>1, <1>3
<1>5. t.client[k].is = "closing" /\ r.client[k] = t.client[k]
        => s.client[k].is = "closing" /\ Alike(r.client[k], s.client[k])
  BY <1>1, <1>2
<1>6. Out(s, k) => Out(t, k)
  BY <1>2 DEF Out
<1>. QED
  BY <1>1, <1>3, <1>4, <1>5, <1>6 DEF r, t

(* No client of r has more requests under way than it had in s.            *)
Calmer(s, r) ==
    \A i \in Clients : r.client[i] # Free /\ r.client[i].live > 0 =>
                           s.client[i] # Free /\ r.client[i].live <= s.client[i].live

(* The last request of a closing client has ended, or its time is up.      *)
LEMMA CallBackStep ==
    ASSUME NEW s \in State, Kind(s), ~s.crashed, NEW k \in Clients, s.client[k].is = "closing"
    PROVE  LET r == CallBack(WithClosed(s, k), s.client[k].cb)
           IN  Kind(r) /\ (s.d.destroyed => r.d.destroyed /\ Calmer(s, r))
<1> DEFINE t == WithClosed(s, k)
           cb == s.client[k].cb
           r == CallBack(t, cb)
<1>1. s.client[k] \in Client /\ s.client[k] # Free
  BY StateIs, ClientIs
<1>2. /\ t \in State /\ t.d = s.d /\ t.crashed = s.crashed /\ t.client[k].is = "closed"
      /\ \A i \in Clients \ {k} : t.client[i] = s.client[i]
  BY <1>1, CloseClient
<1>l. t.client[k].live = s.client[k].live
  BY <1>1 DEF WithClosed, State, Client
<1>3. CASE ~s.d.destroyed
  <2>0. Kept(s) /\ s.d.timeout => setup.dht # "none"
    BY <1>3 DEF Kind
  <2>k. ASSUME Stays(s, r), Kept(r) PROVE Kind(r)
    BY <1>3, <2>k DEF Stays, Kind
  <2>1. CASE setup.v2 /\ k = s.d.trackerV2
    <3>1. cb = "first" /\ Up(s, s.d.tracker, "v1")
      BY <1>3, <2>1 DEF Kind, Kept, Closing, Up, Out
    <3>2. r = First(t)
      BY <3>1 DEF CallBack
    <3>3. Stays(s, r) /\ Kept(r)
      BY <1>3, <2>1, <3>1, <3>2, CloseSecond DEF Kind
    <3>. QED
      BY <1>3, <2>k, <3>3
  <2>2. CASE k = s.d.tracker
    <3>1. cb = "recreate"
      BY <1>3, <2>2 DEF Kind, Kept, Closing, Up
    <3>2. r = Recreate(t)
      BY <3>1 DEF CallBack
    <3>3. LastLeft(s)
      <4>1. CASE setup.v2
        <5>1. \A i \in Clients \ {s.d.tracker, s.d.trackerV2} : Out(s, i)
          BY <1>3, ClientIs DEF Kind, Kept, Out
        <5>. QED
          BY <1>3, <2>2, <4>1, <5>1 DEF Kind, Kept, LastLeft, Up
      <4>2. CASE ~setup.v2
        BY <1>3, <4>2, OnlyLast DEF Kind
      <4>. QED
        BY <4>1, <4>2
    <3>4. Stays(s, r) /\ Kept(r)
      BY <2>2, <3>2, <3>3, RecreateLast
    <3>. QED
      BY <1>3, <2>k, <3>4
  <2>3. CASE k \notin {s.d.tracker, s.d.trackerV2} \/ (~setup.v2 /\ k # s.d.tracker)
    <3>1. s.client[k] = Free
      BY <1>3, <2>3, DiscoveryAssumption DEF Kind, Kept
    <3>. QED
      BY <1>1, <3>1
  <2>. QED
    BY <2>1, <2>2, <2>3
<1>4. CASE s.d.destroyed
  <2>0. Gone(s) /\ cb \in {"recreate", "first", "task"}
    BY <1>4 DEF Kind, Gone
  <2>1. CASE cb = "recreate"
    <3>1. r = Recreate(t)
      BY <2>1 DEF CallBack
    <3>2. \A i \in Clients : Out(t, i)
      BY <1>2, <2>0, <2>1 DEF Gone, Out
    <3> HIDE DEF t, r
    <3>3. Made(t, r)
      BY <1>2, <3>1, <3>2, Recreates
    <3>4. Gone(r) /\ \A i \in Clients : r.client[i] # Free => r.client[i].live = 0
      BY <1>2, <2>0, <3>3, MadeGone DEF Gone
    <3>5. Kind(r) /\ r.d.destroyed /\ Calmer(s, r)
      BY <1>2, <1>4, <3>3, <3>4 DEF Kind, Made, Calmer
    <3>. QED
      BY <3>5 DEF t, r
  <2>2. CASE cb = "first"
    <3>1. s.d.tracker = None /\ setup.v2
      BY <2>0, <2>2 DEF Gone
    <3>2. r = [t EXCEPT !.crashed = TRUE]
      BY <1>2, <2>2, <3>1 DEF CallBack, First
    <3>3. r \in State /\ r.d = s.d /\ r.client = t.client
      BY <1>2, <3>2 DEF State
    <3> HIDE DEF t, r
    <3>4. Gone(r)
      BY <1>2, <2>0, <3>3 DEF Gone, Out
    <3>5. Calmer(s, r)
      <4> SUFFICES ASSUME NEW i \in Clients, r.client[i] # Free, r.client[i].live > 0
                   PROVE  s.client[i] # Free /\ r.client[i].live <= s.client[i].live
        BY DEF Calmer
      <4>1. CASE i = k
        BY <1>1, <1>l, <3>3, <4>1 DEF Client
      <4>2. CASE i # k
        <5>1. s.client[i] \in Client
          BY <1>2, <3>3, <4>2, StateIs, ClientIs
        <5>. QED
          BY <1>2, <3>3, <4>2, <5>1 DEF Client
      <4>. QED
        BY <4>1, <4>2
    <3>. QED
      BY <1>4, <2>0, <3>1, <3>3, <3>4, <3>5 DEF Kind, Gone, t, r
  <2>3. CASE cb = "task"
    <3>2. r = TaskDone(t)
      BY <2>3 DEF CallBack
    <3> HIDE DEF t, r
    <3>3. /\ r \in State /\ r.crashed = t.crashed /\ r.client = t.client
          /\ r.d.destroyed = t.d.destroyed /\ r.d.announce = t.d.announce
          /\ r.d.dht = t.d.dht /\ r.d.timeout = t.d.timeout
          /\ r.d.tracker = t.d.tracker /\ r.d.trackerV2 = t.d.trackerV2
      BY <1>2, <3>2, DoneTask
    <3>4. Gone(r)
      BY <1>2, <2>0, <3>3 DEF Gone, Out
    <3>5. Calmer(s, r)
      <4> SUFFICES ASSUME NEW i \in Clients, r.client[i] # Free, r.client[i].live > 0
                   PROVE  s.client[i] # Free /\ r.client[i].live <= s.client[i].live
        BY DEF Calmer
      <4>1. CASE i = k
        BY <1>1, <1>l, <3>3, <4>1 DEF Client
      <4>2. CASE i # k
        <5>1. s.client[i] \in Client
          BY <1>2, <3>3, <4>2, StateIs, ClientIs
        <5>. QED
          BY <1>2, <3>3, <4>2, <5>1 DEF Client
      <4>. QED
        BY <4>1, <4>2
    <3>. QED
      BY <1>2, <1>4, <3>3, <3>4, <3>5 DEF Kind, Gone, t, r
  <2>. QED
    BY <2>0, <2>1, <2>2, <2>3
<1>. QED
  BY <1>3, <1>4

-----------------------------------------------------------------------------
(* The steps.                                                              *)
(* The next state of a step that makes it s.                               *)
LEMMA BecomesIs ==
    ASSUME NEW s \in State, Becomes(s)
    PROVE  /\ d' = s.d /\ client' = s.client /\ crashed' = s.crashed
           /\ s = [d |-> d', client |-> client', crashed |-> crashed']
BY DEF Becomes, State

(* What holds of s holds of the state the step leads to.                   *)
LEMMA KindNext ==
    ASSUME NEW s, Kind(s), UNCHANGED setup,
           s = [d |-> d', client |-> client', crashed |-> crashed']
    PROVE  Kind(Now)'
BY DEF Kind, State, Kept, Gone, Up, Closing, Out, Now

(* A change that other clients do not notice.                              *)
LEMMA AlikeKind ==
    ASSUME NEW s \in State, NEW r \in State, Kind(s), r.crashed = s.crashed,
           r.d.destroyed = s.d.destroyed, r.d.timeout = s.d.timeout,
           r.d.announce = s.d.announce, r.d.dht = s.d.dht,
           r.d.tracker = s.d.tracker, r.d.trackerV2 = s.d.trackerV2,
           \A i \in Clients : Alike(r.client[i], s.client[i])
    PROVE  Kind(r)
<1>1. CASE s.d.destroyed
  BY <1>1, AlikeGone DEF Kind
<1>2. CASE ~s.d.destroyed
  BY <1>2, AlikeKept DEF Kind
<1>. QED
  BY <1>1, <1>2

(* Two clients that differ only in requests.                               *)
LEMMA AlikeClients ==
    ASSUME NEW c \in Client, NEW e \in Client, c.is = e.is, c.hash = e.hash,
           c.cb = e.cb, c.url = e.url
    PROVE  c # Free /\ Alike(c, e)
BY ClientIs DEF Alike, Client, Free

(* A request of a client ends.                                             *)
LEMMA LessLive ==
    ASSUME NEW s \in State, Kind(s), NEW k \in Clients, s.client[k] \in Client,
           NEW c \in Client, c.is = s.client[k].is, c.hash = s.client[k].hash,
           c.cb = s.client[k].cb, c.url = s.client[k].url, c.live <= s.client[k].live,
           NEW r, r = [s EXCEPT !.client[k] = c]
    PROVE  /\ r \in State /\ Kind(r) /\ r.d = s.d /\ r.crashed = s.crashed
           /\ r.client[k] = c
           /\ Calmer(s, r)
<1>1. c # Free /\ s.client[k] # Free /\ Alike(c, s.client[k])
  BY AlikeClients
<1>2. /\ r \in State /\ r.d = s.d /\ r.crashed = s.crashed /\ r.client[k] = c
      /\ \A i \in Clients \ {k} : r.client[i] = s.client[i]
  BY SetClient
<1>3. \A i \in Clients : Alike(r.client[i], s.client[i])
  BY <1>1, <1>2 DEF Alike
<1>4. Kind(r)
  BY <1>2, <1>3, AlikeKind
<1>5. Calmer(s, r)
  <2>1. \A i \in Clients : s.client[i] # Free => s.client[i].live \in Nat
    BY StateIs, ClientIs DEF Client
  <2>. QED
    BY <1>1, <1>2, <2>1 DEF Calmer
<1>. QED
  BY <1>2, <1>4, <1>5

(* One step after the other.                                               *)
LEMMA CalmerSteps ==
    ASSUME NEW s \in State, NEW q \in State, NEW r \in State, Calmer(s, q), Calmer(q, r)
    PROVE  Calmer(s, r)
<1> SUFFICES ASSUME NEW i \in Clients, r.client[i] # Free, r.client[i].live > 0
             PROVE  s.client[i] # Free /\ r.client[i].live <= s.client[i].live
  BY DEF Calmer
<1>1. q.client[i] # Free /\ r.client[i].live <= q.client[i].live
  BY DEF Calmer
<1>2. /\ r.client[i].live \in Nat /\ q.client[i].live \in Nat
      /\ s.client[i] # Free => s.client[i].live \in Nat
  BY <1>1, StateIs, ClientIs DEF Client
<1>3. s.client[i] # Free /\ q.client[i].live <= s.client[i].live
  BY <1>1, <1>2 DEF Calmer
<1>. QED
  BY <1>1, <1>2, <1>3

(* What a state that is Kind and calmer, and a DHT that keeps still, make  *)
(* of a step.                                                              *)
LEMMA StepIs ==
    ASSUME DiscoveryInv, NEW s, Kind(s), UNCHANGED setup, Becomes(s),
           dht' # None => setup.dht # "none",
           d.destroyed => Calmer(Now, s) /\ (dht' # dht => dht' = None)
    PROVE  DiscoveryInv' /\ SilentStep
<1>1. s \in State
  BY DEF Kind
<1>2. /\ client' = s.client
      /\ s = [d |-> d', client |-> client', crashed |-> crashed']
  BY <1>1, BecomesIs
<1>3. Kind(Now)'
  BY <1>2, KindNext
<1>4. DiscoveryInv'
  BY <1>3 DEF DiscoveryInv
<1>5. SilentStep
  BY <1>2 DEF SilentStep, Calmer, Now
<1>. QED
  BY <1>4, <1>5

(* The state a step starts in.                                             *)
LEMMA NowIs ==
    ASSUME DiscoveryInv
    PROVE  /\ Now \in State /\ Kind(Now)
           /\ Now.d = d /\ Now.client = client /\ Now.crashed = crashed
           /\ Calmer(Now, Now)
<1>1. Now \in State /\ Kind(Now) /\ Now.d = d /\ Now.client = client /\ Now.crashed = crashed
  BY DEF DiscoveryInv, Kind, Now
<1>2. Calmer(Now, Now)
  BY <1>1, StateIs, ClientIs DEF Calmer, Client
<1>. QED
  BY <1>1, <1>2

(* One lemma for each action.                                              *)
LEMMA RequestStep ==
    ASSUME DiscoveryInv, NEW k \in Clients, Request(k)
    PROVE  DiscoveryInv' /\ SilentStep
<1> DEFINE c == [client[k] EXCEPT !.live = client[k].live + 1]
           r == [Now EXCEPT !.client[k] = c]
<1>1. /\ client[k].is = "up" /\ client[k].url
      /\ client' = [client EXCEPT ![k].live = client[k].live + 1]
      /\ UNCHANGED <<setup, d, dht, told, crashed>>
  BY DEF Request
<1>2. client[k] \in Client /\ client[k] # Free /\ ~d.destroyed
  BY <1>1, NowIs, StateIs, ClientIs DEF Kind, Gone
<1>3. /\ c \in Client /\ c.is = client[k].is /\ c.hash = client[k].hash
      /\ c.cb = client[k].cb /\ c.url = client[k].url
  BY <1>2 DEF Client
<1>4. c # Free /\ Alike(c, client[k])
  BY <1>2, <1>3, ClientIs DEF Alike
<1>5. client' = [client EXCEPT ![k] = c]
  BY <1>1
<1>6. r.d = d /\ r.client = client' /\ r.crashed = crashed
  BY <1>5, NowIs DEF Now
<1> HIDE DEF c
<1>7. r \in State /\ \A i \in Clients : Alike(r.client[i], client[i])
  <2>1. /\ r \in State /\ r.client[k] = c
        /\ \A i \in Clients \ {k} : r.client[i] = client[i]
    BY <1>3, NowIs, SetClient
  <2>. QED
    BY <1>4, <2>1 DEF Alike
<1> HIDE DEF r
<1>8. Kind(r)
  BY <1>6, <1>7, NowIs, AlikeKind
<1>9. Becomes(r)
  BY <1>1, <1>6 DEF Becomes
<1>. QED
  BY <1>1, <1>2, <1>8, <1>9, StepIs DEF DiscoveryInv

LEMMA AnsweredStep ==
    ASSUME DiscoveryInv, NEW k \in Clients, Answered(k)
    PROVE  DiscoveryInv' /\ SilentStep
<1> DEFINE c == [client[k] EXCEPT !.live = client[k].live - 1]
           s == [Now EXCEPT !.client[k] = c]
           last == c.is = "closing" /\ c.live = 0 /\ ~c.dead
           r == IF last THEN CallBack(WithClosed(s, k), client[k].cb) ELSE s
<1>1. /\ client[k].is \in {"up", "closing"} /\ client[k].live > 0 /\ ~crashed
      /\ UNCHANGED <<setup, dht, told>>
  BY DEF Answered
<1>2. client[k] \in Client
  BY <1>1, NowIs, StateIs, ClientIs
<1>3. /\ c \in Client /\ c.is = client[k].is /\ c.hash = client[k].hash
      /\ c.cb = client[k].cb /\ c.url = client[k].url /\ c.live <= client[k].live
  BY <1>1, <1>2 DEF Client
<1>4. s = [Now EXCEPT !.client[k].live = client[k].live - 1] /\ s.client[k] = c
  BY NowIs DEF State
<1>5. Becomes(r)
  <2> DEFINE q == [Now EXCEPT !.client[k].live = @ - 1]
  <2>1. Becomes(IF q.client[k].is = "closing" /\ q.client[k].live = 0 /\ ~q.client[k].dead
                THEN CallBack([q EXCEPT !.client[k].is = "closed"], client[k].cb)
                ELSE q)
    BY DEF Answered
  <2>2. q = s
    BY <1>4 DEF Now
  <2> HIDE DEF q, s
  <2>3. s.client[k] = c
    BY <1>4
  <2>. QED
    BY <2>1, <2>2, <2>3 DEF WithClosed
<1> HIDE DEF c
<1>6. /\ s \in State /\ Kind(s) /\ s.d = d /\ s.crashed = crashed
      /\ s.client[k].is = client[k].is /\ s.client[k].cb = client[k].cb
      /\ Calmer(Now, s)
  <2>1. /\ Now \in State /\ Kind(Now) /\ Now.client[k] \in Client
        /\ Now.d = d /\ Now.crashed = crashed /\ Now.client[k] = client[k]
    BY <1>2, NowIs
  <2>a. /\ c \in Client /\ c.is = Now.client[k].is /\ c.hash = Now.client[k].hash
        /\ c.cb = Now.client[k].cb /\ c.url = Now.client[k].url
        /\ c.live <= Now.client[k].live
    BY <1>3, <2>1
  <2>2. s = [Now EXCEPT !.client[k] = c]
    OBVIOUS
  <2> HIDE DEF s
  <2>3. Kind(s) /\ Calmer(Now, s)
    BY <2>1, <2>a, <2>2, LessLive
  <2>4. s \in State /\ s.d = Now.d /\ s.crashed = Now.crashed /\ s.client[k] = c
    BY <2>1, <2>a, <2>2, SetClient
  <2>. QED
    BY <1>3, <2>1, <2>3, <2>4
<1> HIDE DEF s
<1>7. Kind(r) /\ (d.destroyed => Calmer(Now, r))
  <2>1. CASE ~last
    BY <1>6, <2>1
  <2>2. CASE last
    <3>1. r = CallBack(WithClosed(s, k), s.client[k].cb)
      BY <1>6, <2>2
    <3>2. Kind(r) /\ (s.d.destroyed => r.d.destroyed /\ Calmer(s, r))
      BY <1>1, <1>3, <1>6, <2>2, <3>1, CallBackStep
    <3> HIDE DEF r
    <3>3. r \in State
      BY <3>2 DEF Kind
    <3>. QED
      BY <1>6, <3>2, <3>3, NowIs, CalmerSteps
  <2>. QED
    BY <2>1, <2>2
<1> HIDE DEF r
<1>. QED
  BY <1>1, <1>5, <1>7, StepIs DEF DiscoveryInv

LEMMA HttpErrorStep ==
    ASSUME DiscoveryInv, NEW k \in Clients, HttpError(k)
    PROVE  DiscoveryInv' /\ SilentStep
<1> DEFINE n == client[k].live - 1
           c == [client[k] EXCEPT !.live = n, !.dead = TRUE]
           r == [Now EXCEPT !.client[k] = c]
<1>1. /\ client[k].is \in {"up", "closing"} /\ client[k].live > 0
      /\ client' = [client EXCEPT ![k].live = @ - 1, ![k].dead = TRUE]
      /\ UNCHANGED <<setup, d, dht, told, crashed>>
  BY DEF HttpError
<1>2. client[k] \in Client
  BY <1>1, NowIs, StateIs, ClientIs
<1>3. /\ c \in Client /\ c.is = client[k].is /\ c.hash = client[k].hash
      /\ c.cb = client[k].cb /\ c.url = client[k].url /\ c.live <= client[k].live
  <2>1. n \in Nat /\ n <= client[k].live
    BY <1>1, <1>2 DEF Client
  <2> HIDE DEF n
  <2>. QED
    BY <1>2, <2>1 DEF Client
<1>4. client' = [client EXCEPT ![k] = c]
  BY <1>1, <1>2, NowIs DEF Client, State
<1>5. Becomes(r)
  BY <1>1, <1>4 DEF Becomes, Now
<1> HIDE DEF c
<1>6. Now \in State /\ Kind(Now) /\ Now.client[k] \in Client /\ Now.client[k] = client[k]
  BY <1>2, NowIs
<1>7. r = [Now EXCEPT !.client[k] = c]
  OBVIOUS
<1> HIDE DEF r
<1>a. /\ c.is = Now.client[k].is /\ c.hash = Now.client[k].hash
      /\ c.cb = Now.client[k].cb /\ c.url = Now.client[k].url
      /\ c.live <= Now.client[k].live
  BY <1>3, <1>6
<1>8. Kind(r) /\ Calmer(Now, r)
  BY <1>3, <1>a, <1>6, <1>7, LessLive
<1>. QED
  BY <1>1, <1>5, <1>8, StepIs DEF DiscoveryInv

LEMMA TimeoutStep ==
    ASSUME DiscoveryInv, NEW k \in Clients, DestroyTimeout(k)
    PROVE  DiscoveryInv' /\ SilentStep
<1> DEFINE c == [client[k] EXCEPT !.live = 0]
           e == [client[k] EXCEPT !.is = "closed", !.live = 0]
           s == [Now EXCEPT !.client[k] = c]
           r == CallBack(WithClosed(s, k), client[k].cb)
<1>1. client[k].is = "closing" /\ ~crashed /\ UNCHANGED <<setup, dht, told>>
  BY DEF DestroyTimeout
<1>2. client[k] \in Client
  BY <1>1, NowIs, StateIs, ClientIs
<1>3. /\ c \in Client /\ c.is = client[k].is /\ c.hash = client[k].hash
      /\ c.cb = client[k].cb /\ c.url = client[k].url /\ c.live <= client[k].live
      /\ e \in Client /\ [c EXCEPT !.is = "closed"] = e
  <2>1. /\ c \in Client /\ c.is = client[k].is /\ c.hash = client[k].hash
        /\ c.cb = client[k].cb /\ c.url = client[k].url
    BY <1>2 DEF Client
  <2>2. c.live <= client[k].live
    BY <1>2 DEF Client
  <2>3. e \in Client /\ [c EXCEPT !.is = "closed"] = e
    BY <1>2 DEF Client
  <2>. QED
    BY <2>1, <2>2, <2>3
<1>4. WithClosed(s, k) = [Now EXCEPT !.client[k].is = "closed", !.client[k].live = 0]
  <2>1. [Now EXCEPT !.client[k].is = "closed", !.client[k].live = 0] = [Now EXCEPT !.client[k] = e]
    BY NowIs DEF State
  <2> HIDE DEF c, e
  <2>2. s \in State /\ s.client[k] = c
    BY <1>3, NowIs, SetClient
  <2>3. WithClosed(s, k) = [s EXCEPT !.client[k] = e]
    BY <1>3, <2>2 DEF WithClosed, State
  <2>4. [s EXCEPT !.client[k] = e] = [Now EXCEPT !.client[k] = e]
    BY NowIs DEF State
  <2>. QED
    BY <2>1, <2>3, <2>4
<1>5. Becomes(r)
  BY <1>4 DEF DestroyTimeout
<1> HIDE DEF c, e
<1>6. /\ s \in State /\ Kind(s) /\ s.d = d /\ s.crashed = crashed
      /\ s.client[k].is = client[k].is /\ s.client[k].cb = client[k].cb
      /\ Calmer(Now, s)
  <2>1. /\ Now \in State /\ Kind(Now) /\ Now.client[k] \in Client
        /\ Now.d = d /\ Now.crashed = crashed /\ Now.client[k] = client[k]
    BY <1>2, NowIs
  <2>a. /\ c \in Client /\ c.is = Now.client[k].is /\ c.hash = Now.client[k].hash
        /\ c.cb = Now.client[k].cb /\ c.url = Now.client[k].url
        /\ c.live <= Now.client[k].live
    BY <1>3, <2>1
  <2>2. s = [Now EXCEPT !.client[k] = c]
    OBVIOUS
  <2> HIDE DEF s
  <2>3. Kind(s) /\ Calmer(Now, s)
    BY <2>1, <2>a, <2>2, LessLive
  <2>4. s \in State /\ s.d = Now.d /\ s.crashed = Now.crashed /\ s.client[k] = c
    BY <2>1, <2>a, <2>2, SetClient
  <2>. QED
    BY <1>3, <2>1, <2>3, <2>4
<1> HIDE DEF s
<1>7. Kind(r) /\ (d.destroyed => Calmer(Now, r))
  <2>1. r = CallBack(WithClosed(s, k), s.client[k].cb)
    BY <1>6
  <2>2. Kind(r) /\ (s.d.destroyed => r.d.destroyed /\ Calmer(s, r))
    BY <1>1, <1>6, <2>1, CallBackStep
  <2> HIDE DEF r
  <2>3. r \in State
    BY <2>2 DEF Kind
  <2>. QED
    BY <1>6, <2>2, <2>3, NowIs, CalmerSteps
<1> HIDE DEF r
<1>. QED
  BY <1>1, <1>5, <1>7, StepIs DEF DiscoveryInv

(* #dhtAnnounce on the way of a step.                                      *)
LEMMA AnnounceStep ==
    ASSUME DiscoveryInv, NEW s, Kind(s), ~d.destroyed, ~s.d.destroyed,
           UNCHANGED setup, DhtAnnounce(s)
    PROVE  DiscoveryInv' /\ SilentStep
<1>1. s \in State /\ Kept(s)
  BY DEF Kind
<1>2. CASE ~(s.d.dht /\ ~s.d.announcing)
  <2>1. Becomes(s) /\ dht' = dht
    BY <1>2 DEF DhtAnnounce
  <2>. QED
    BY <2>1, StepIs DEF DiscoveryInv
<1>3. CASE s.d.dht /\ ~s.d.announcing
  <2> DEFINE r == [s EXCEPT !.d.announcing = TRUE, !.d.timeout = FALSE]
  <2>1. Becomes(r)
    BY <1>3 DEF DhtAnnounce
  <2>2. setup.dht # "none"
    BY <1>1, <1>3 DEF Kept
  <2>3. /\ r \in State /\ r.crashed = s.crashed /\ r.client = s.client
        /\ r.d.destroyed = s.d.destroyed /\ ~r.d.timeout
        /\ r.d.announce = s.d.announce /\ r.d.dht = s.d.dht
        /\ r.d.tracker = s.d.tracker /\ r.d.trackerV2 = s.d.trackerV2
    BY <1>1 DEF State
  <2> HIDE DEF r
  <2>4. \A i \in Clients : Alike(r.client[i], s.client[i])
    BY <2>3 DEF Alike
  <2>5. Kept(r)
    BY <1>1, <2>3, <2>4, AlikeKept
  <2>6. Kind(r)
    BY <2>3, <2>5 DEF Kind
  <2>. QED
    BY <2>1, <2>2, <2>6, StepIs
<1>. QED
  BY <1>2, <1>3

LEMMA UpdatePortStep ==
    ASSUME DiscoveryInv, NEW p \in Ports, UpdatePort(p)
    PROVE  DiscoveryInv' /\ SilentStep
<1> DEFINE a == d.tracker
           b == d.trackerV2
           s == [Now EXCEPT !.d.port = p]
           q == Stop(s, a)
           r == Stop(q, b)
           t == IF setup.v2 THEN Close(r, b, "first", First) ELSE Close(r, a, "recreate", Recreate)
<1>1. ~d.destroyed /\ ~crashed /\ UNCHANGED setup /\ DhtAnnounce(t)
  BY DEF UpdatePort
<1>2. /\ Now \in State /\ Kept(Now) /\ Now.d = d /\ Now.crashed = crashed
      /\ d.timeout => setup.dht # "none"
  BY <1>1, NowIs DEF Kind
<1>3. a \in Clients /\ b \in Clients \cup {None}
  BY <1>2 DEF Kept, State
<1>4. /\ s \in State /\ s.crashed = crashed /\ s.client = Now.client
      /\ s.d.destroyed = d.destroyed /\ s.d.timeout = d.timeout
      /\ s.d.announce = d.announce /\ s.d.dht = d.dht
      /\ s.d.tracker = a /\ s.d.trackerV2 = b
  BY <1>2 DEF State
<1> HIDE DEF s
<1>5. \A i \in Clients : Alike(s.client[i], Now.client[i])
  BY <1>4 DEF Alike
<1>6. Kept(s)
  BY <1>2, <1>4, <1>5, AlikeKept
<1>7. /\ q \in State /\ q.d = s.d /\ q.crashed = s.crashed
      /\ \A i \in Clients : Alike(q.client[i], s.client[i])
  BY <1>3, <1>4, StopAlike
<1> HIDE DEF q
<1>8. Kept(q)
  BY <1>4, <1>6, <1>7, AlikeKept
<1>9. /\ r \in State /\ r.d = q.d /\ r.crashed = q.crashed
      /\ \A i \in Clients : Alike(r.client[i], q.client[i])
  BY <1>3, <1>7, StopAlike
<1> HIDE DEF r
<1>10. Kept(r)
  BY <1>7, <1>8, <1>9, AlikeKept
<1>11. /\ ~r.d.destroyed /\ r.d.tracker = a /\ r.d.trackerV2 = b /\ ~r.crashed
       /\ r.d.timeout = d.timeout
  BY <1>1, <1>4, <1>7, <1>9
<1>12. Stays(r, t) /\ Kept(t)
  <2>1. CASE setup.v2
    <3>1. t = Close(r, r.d.trackerV2, "first", First)
      BY <1>11, <2>1
    <3>. QED
      BY <1>9, <1>10, <1>11, <2>1, <3>1, CloseFirst
  <2>2. CASE ~setup.v2
    <3>1. t = Close(r, r.d.tracker, "recreate", Recreate)
      BY <1>11, <2>2
    <3>2. LastLeft(r)
      BY <1>9, <1>10, <2>2, OnlyLast
    <3>. QED
      BY <1>9, <3>1, <3>2, CloseLast
  <2>. QED
    BY <2>1, <2>2
<1> HIDE DEF t
<1>13. Kind(t) /\ ~t.d.destroyed
  BY <1>2, <1>11, <1>12 DEF Stays, Kind
<1>. QED
  BY <1>1, <1>13, AnnounceStep

LEMMA OthersClosedStep ==
    ASSUME DiscoveryInv, OthersClosed
    PROVE  DiscoveryInv' /\ SilentStep
<1> DEFINE r == TaskDone(Now)
<1>1. Becomes(r) /\ UNCHANGED <<setup, dht>>
  BY DEF OthersClosed
<1>2. /\ r \in State /\ r.crashed = Now.crashed /\ r.client = Now.client
      /\ r.d.destroyed = Now.d.destroyed /\ r.d.announce = Now.d.announce
      /\ r.d.dht = Now.d.dht /\ r.d.timeout = Now.d.timeout
      /\ r.d.tracker = Now.d.tracker /\ r.d.trackerV2 = Now.d.trackerV2
  BY NowIs, DoneTask
<1> HIDE DEF r
<1>3. \A i \in Clients : Alike(r.client[i], Now.client[i])
  BY <1>2 DEF Alike
<1>4. Kind(r) /\ Calmer(Now, r)
  BY <1>2, <1>3, NowIs, AlikeKind DEF Calmer
<1>. QED
  BY <1>1, <1>4, StepIs DEF DiscoveryInv

LEMMA DhtAnnouncedStep ==
    ASSUME DiscoveryInv, DhtAnnounced
    PROVE  DiscoveryInv' /\ SilentStep
<1>1. dht # None /\ ~crashed /\ UNCHANGED setup /\ setup.dht # "none"
  BY DEF DhtAnnounced, DiscoveryInv
<1>2. Now \in State /\ Kind(Now) /\ Now.d = d /\ Now.crashed = crashed /\ Now.client = client
  BY NowIs
<1>3. CASE dht.hash = "v1" /\ setup.v2 /\ d.dht
  <2>1. UNCHANGED <<d, client, crashed>>
    BY <1>3 DEF DhtAnnounced
  <2>2. Becomes(Now)
    BY <1>2, <2>1 DEF Becomes
  <2>3. ~d.destroyed
    BY <1>2, <1>3 DEF Kind, Gone
  <2>. QED
    BY <1>1, <1>2, <2>2, <2>3, StepIs
<1>4. CASE dht.hash = "v1" /\ setup.v2 /\ ~d.dht
  <2> DEFINE r == [Now EXCEPT !.crashed = TRUE]
  <2>1. crashed' = TRUE /\ UNCHANGED <<d, client>> /\ dht' = None
    BY <1>4 DEF DhtAnnounced
  <2>2. r \in State /\ r.d = d /\ r.client = client /\ r.crashed
    BY <1>2 DEF State
  <2>3. r.crashed = TRUE
    BY <1>2 DEF State
  <2> HIDE DEF r
  <2>4. Becomes(r)
    BY <2>1, <2>2, <2>3 DEF Becomes
  <2>5. d.destroyed /\ Gone(Now) /\ ~d.timeout
    BY <1>1, <1>2, <1>4 DEF Kind, Kept, Gone
  <2>6. Gone(r)
    BY <1>2, <2>2, <2>5 DEF Gone, Out
  <2>7. Kind(r) /\ Calmer(Now, r)
    BY <1>2, <1>4, <2>2, <2>5, <2>6, NowIs DEF Kind, Calmer
  <2>. QED
    BY <1>1, <2>1, <2>4, <2>7, StepIs
<1>5. CASE ~(dht.hash = "v1" /\ setup.v2)
  <2> DEFINE x == ~d.destroyed
             r == [Now EXCEPT !.d.announcing = FALSE, !.d.timeout = x]
  <2>1. dht' = None /\ Becomes(r)
    BY <1>5 DEF DhtAnnounced
  <2>2. x \in BOOLEAN /\ (x <=> ~d.destroyed)
    OBVIOUS
  <2> HIDE DEF x
  <2>3. /\ r \in State /\ r.crashed = crashed /\ r.client = Now.client
        /\ r.d.destroyed = d.destroyed /\ r.d.timeout = x
        /\ r.d.announce = d.announce /\ r.d.dht = d.dht
        /\ r.d.tracker = d.tracker /\ r.d.trackerV2 = d.trackerV2
    BY <1>2, <2>2 DEF State
  <2> HIDE DEF r
  <2>4. \A i \in Clients : Alike(r.client[i], Now.client[i])
    BY <2>3 DEF Alike
  <2>5. CASE d.destroyed
    <3>1. Gone(Now) /\ r.d.timeout = Now.d.timeout
      <4>1. Gone(Now) /\ ~Now.d.timeout /\ Now.d.timeout \in BOOLEAN
        BY <1>2, <2>5 DEF Kind, Gone, State
      <4>. QED
        BY <2>2, <2>3, <2>5, <4>1
    <3>2. Gone(r)
      BY <1>2, <2>3, <2>4, <3>1, AlikeGone
    <3>. QED
      BY <1>1, <1>2, <2>1, <2>3, <2>5, <3>2, NowIs, StepIs DEF Kind, Calmer
  <2>6. CASE ~d.destroyed
    <3>1. Kept(r)
      BY <1>2, <2>3, <2>4, <2>6, AlikeKept DEF Kind
    <3>2. Kind(r)
      BY <1>1, <1>2, <2>3, <2>6, <3>1 DEF Kind
    <3>. QED
      BY <1>1, <2>1, <2>6, <3>2, StepIs
  <2>. QED
    BY <2>5, <2>6
<1>. QED
  BY <1>3, <1>4, <1>5

LEMMA DhtTimeoutStep ==
    ASSUME DiscoveryInv, DhtTimeout
    PROVE  DiscoveryInv' /\ SilentStep
<1>1. d.timeout /\ UNCHANGED setup
  BY DEF DhtTimeout
<1>2. Kind(Now) /\ Now.d = d
  BY NowIs
<1>3. ~d.destroyed /\ d.dht
  BY <1>1, <1>2 DEF Kind, Gone, Kept
<1>4. DhtAnnounce(Now)
  BY <1>3 DEF DhtTimeout
<1>. QED
  BY <1>1, <1>2, <1>3, <1>4, AnnounceStep

-----------------------------------------------------------------------------
(* destroy.                                                                *)
(* The tasks destroy waits for.                                            *)
LEMMA HowMany ==
    ASSUME NEW a, NEW b
    PROVE  Cardinality({a, b} \ {None}) \in Nat
<1>1. IsFiniteSet({a, b})
  <2>1. IsFiniteSet({a}) /\ {a, b} = {a} \cup {b}
    BY FS_Singleton
  <2>. QED
    BY <2>1, FS_AddElement
<1>2. IsFiniteSet({a, b} \ {None})
  BY <1>1, FS_Difference
<1>. QED
  BY <1>2, FS_CardinalityType

(* The discovery's own clients were told to go: how each of them is left.  *)
Shut(s, r) ==
    /\ r \in State /\ r.crashed = s.crashed
    /\ r.d.destroyed = s.d.destroyed /\ r.d.timeout = s.d.timeout
    /\ \A i \in Clients :
          /\ r.client[i].is # "up"
          /\ r.client[i].is = "closing" =>
                /\ r.client[i].cb \in {"recreate", "first", "task"}
                /\ r.client[i].cb = "first" => setup.v2
                /\ r.client[i].cb = "recreate" => \A j \in Clients \ {i} : Out(r, j)

LEMMA ShutOne ==
    ASSUME NEW s \in State, Kept(s), ~setup.v2,
           NEW r, r = Close(Stop(s, s.d.tracker), s.d.tracker, "task", TaskDone)
    PROVE  Shut(s, r)
<1> DEFINE a == s.d.tracker
<1>1. a \in Clients /\ s.d.trackerV2 = None
  BY DEF Kept
<1>2. /\ r \in State /\ r.crashed = s.crashed
      /\ r.d.destroyed = s.d.destroyed /\ r.d.timeout = s.d.timeout
      /\ \A i \in Clients \ {a} : Alike(r.client[i], s.client[i])
      /\ \/ Out(r, a) \/ Closing(r, a, "task")
         \/ s.client[a].is = "closing" /\ Alike(r.client[a], s.client[a])
  BY <1>1, ShutTask
<1>3. \A i \in Clients \ {a} : Out(r, i) /\ r.client[i].is = "free"
  <2> SUFFICES ASSUME NEW i \in Clients \ {a} PROVE Out(r, i) /\ r.client[i].is = "free"
    OBVIOUS
  <2>1. s.client[i] = Free
    BY <1>1, DiscoveryAssumption DEF Kept
  <2>2. r.client[i] = Free
    BY <1>2, <2>1 DEF Alike
  <2>. QED
    BY <2>2 DEF Free, Out
<1>4. /\ r.client[a].is # "up"
      /\ r.client[a].is = "closing" => r.client[a].cb \in {"recreate", "task"}
  <2>1. s.client[a].is = "closing" => s.client[a].cb = "recreate" /\ s.client[a] # Free
    BY <1>1, ClientIs, StateIs DEF Kept, Up, Closing
  <2>. QED
    BY <1>2, <2>1 DEF Out, Closing, Alike
<1>5. \A i \in Clients :
         /\ r.client[i].is # "up"
         /\ r.client[i].is = "closing" =>
               /\ r.client[i].cb \in {"recreate", "task"}
               /\ \A j \in Clients \ {i} : Out(r, j)
  BY <1>3, <1>4
<1>. QED
  BY <1>2, <1>5 DEF Shut

(* The same with a second info hash.                                       *)
LEMMA ShutBoth ==
    ASSUME NEW s \in State, Kept(s), setup.v2,
           NEW q, q = Close(Stop(s, s.d.tracker), s.d.tracker, "task", TaskDone),
           NEW r, r = Close(Stop(q, s.d.trackerV2), s.d.trackerV2, "task", TaskDone)
    PROVE  Shut(s, r)
<1> DEFINE a == s.d.tracker
           b == s.d.trackerV2
<1>1. a \in Clients /\ b \in Clients /\ a # b
  BY DEF Kept
<1>2. /\ q \in State /\ q.crashed = s.crashed
      /\ q.d.destroyed = s.d.destroyed /\ q.d.timeout = s.d.timeout
      /\ \A i \in Clients \ {a} : Alike(q.client[i], s.client[i])
      /\ \/ Out(q, a) \/ Closing(q, a, "task")
         \/ s.client[a].is = "closing" /\ Alike(q.client[a], s.client[a])
  BY <1>1, ShutTask
<1>3. /\ r \in State /\ r.crashed = q.crashed
      /\ r.d.destroyed = q.d.destroyed /\ r.d.timeout = q.d.timeout
      /\ \A i \in Clients \ {b} : Alike(r.client[i], q.client[i])
      /\ \/ Out(r, b) \/ Closing(r, b, "task")
         \/ q.client[b].is = "closing" /\ Alike(r.client[b], q.client[b])
      /\ Out(q, b) => Out(r, b)
  BY <1>1, <1>2, ShutTask
<1>4. \A i \in Clients \ {a, b} : Out(r, i) /\ r.client[i].is = "free"
  <2> SUFFICES ASSUME NEW i \in Clients \ {a, b} PROVE Out(r, i) /\ r.client[i].is = "free"
    OBVIOUS
  <2>1. s.client[i] = Free
    BY DEF Kept
  <2>2. Alike(q.client[i], s.client[i]) /\ Alike(r.client[i], q.client[i])
    BY <1>2, <1>3
  <2>3. r.client[i] = Free
    BY <2>1, <2>2 DEF Alike
  <2>. QED
    BY <2>3 DEF Free, Out
<1>5. /\ r.client[a].is # "up"
      /\ r.client[a].is = "closing" =>
            /\ r.client[a].cb \in {"recreate", "task"}
            /\ r.client[a].cb = "recreate" => Out(r, b)
  <2>1. s.client[a].is = "closing" => /\ s.client[a].cb = "recreate" /\ s.client[a] # Free
                                      /\ Out(s, b)
    BY <1>1, ClientIs, StateIs DEF Kept, Up, Closing
  <2>2. Out(s, b) => Out(r, b)
    BY <1>1, <1>2, <1>3 DEF Alike, Out
  <2>3. Alike(r.client[a], q.client[a])
    BY <1>1, <1>3
  <2>4. CASE Out(q, a)
    BY <2>3, <2>4 DEF Alike, Out
  <2>5. CASE Closing(q, a, "task")
    <3>1. q.client[a] # Free
      BY <2>5 DEF Closing, Free
    <3>. QED
      BY <2>3, <2>5, <3>1 DEF Alike, Closing
  <2>6. CASE s.client[a].is = "closing" /\ Alike(q.client[a], s.client[a])
    BY <2>1, <2>2, <2>3, <2>6 DEF Alike
  <2>. QED
    BY <1>2, <2>4, <2>5, <2>6
<1>6. /\ r.client[b].is # "up"
      /\ r.client[b].is = "closing" => r.client[b].cb \in {"first", "task"}
  <2>1. s.client[b].is = "closing" => s.client[b].cb = "first" /\ s.client[b] # Free
    BY <1>1, ClientIs, StateIs DEF Kept, Up, Closing, Out
  <2>2. Alike(q.client[b], s.client[b])
    BY <1>1, <1>2
  <2>. QED
    BY <1>3, <2>1, <2>2 DEF Out, Closing, Alike
<1>7. \A i \in Clients :
         /\ r.client[i].is # "up"
         /\ r.client[i].is = "closing" =>
               /\ r.client[i].cb \in {"recreate", "first", "task"}
               /\ r.client[i].cb = "recreate" => \A j \in Clients \ {i} : Out(r, j)
  BY <1>4, <1>5, <1>6
<1>. QED
  BY <1>2, <1>3, <1>7 DEF Shut

LEMMA DestroyStep ==
    ASSUME DiscoveryInv, Destroy
    PROVE  DiscoveryInv' /\ SilentStep
<1> DEFINE n == Cardinality({d.tracker, d.trackerV2} \ {None})
                + ((IF setup.dht = "internal" THEN 1 ELSE 0) + (IF setup.lsd THEN 1 ELSE 0))
           s == [Leave(Now) EXCEPT !.d.tasks = n]
           q == Close(Stop(s, d.tracker), d.tracker, "task", TaskDone)
           t == IF setup.v2 THEN Close(Stop(q, d.trackerV2), d.trackerV2, "task", TaskDone) ELSE q
           r == [t EXCEPT !.d.dht = FALSE, !.d.tracker = None, !.d.trackerV2 = None,
                          !.d.announce = FALSE]
<1>1. ~d.destroyed /\ ~crashed /\ UNCHANGED <<setup, dht>> /\ Becomes(r)
  BY DEF Destroy
<1>2. /\ Now \in State /\ Kept(Now) /\ Now.d = d /\ Now.crashed = crashed
  BY <1>1, NowIs DEF Kind
<1>3. n \in Int
  <2>1. Cardinality({d.tracker, d.trackerV2} \ {None}) \in Nat
    BY HowMany
  <2>. QED
    BY <2>1
<1> HIDE DEF n
<1>4. /\ s \in State /\ s.crashed = crashed /\ s.client = Now.client
      /\ s.d.destroyed /\ ~s.d.timeout
      /\ s.d.announce = d.announce /\ s.d.dht = d.dht
      /\ s.d.tracker = d.tracker /\ s.d.trackerV2 = d.trackerV2
  BY <1>2, <1>3 DEF Leave, State
<1> HIDE DEF s
<1>5. \A i \in Clients : Alike(s.client[i], Now.client[i])
  BY <1>4 DEF Alike
<1>6. Kept(s)
  BY <1>2, <1>4, <1>5, AlikeKept
<1>7. Shut(s, t)
  <2>1. CASE setup.v2
    <3>1. q = Close(Stop(s, s.d.tracker), s.d.tracker, "task", TaskDone)
      BY <1>4
    <3>2. t = Close(Stop(q, s.d.trackerV2), s.d.trackerV2, "task", TaskDone)
      BY <1>4, <2>1
    <3> HIDE DEF q, t
    <3>. QED
      BY <1>4, <1>6, <2>1, <3>1, <3>2, ShutBoth
  <2>2. CASE ~setup.v2
    <3>1. t = Close(Stop(s, s.d.tracker), s.d.tracker, "task", TaskDone)
      BY <1>4, <2>2
    <3> HIDE DEF t
    <3>. QED
      BY <1>4, <1>6, <2>2, <3>1, ShutOne
  <2>. QED
    BY <2>1, <2>2
<1> HIDE DEF t
<1>8. /\ r \in State /\ r.crashed = t.crashed /\ r.client = t.client
      /\ r.d.destroyed = t.d.destroyed /\ r.d.timeout = t.d.timeout
      /\ ~r.d.announce /\ ~r.d.dht /\ r.d.tracker = None
  BY <1>7 DEF Shut, State
<1> HIDE DEF r
<1>9. Gone(r)
  BY <1>4, <1>7, <1>8 DEF Gone, Out, Shut
<1>10. Kind(r)
  BY <1>1, <1>4, <1>7, <1>8, <1>9 DEF Kind, Shut
<1>. QED
  BY <1>1, <1>10, StepIs DEF DiscoveryInv

-----------------------------------------------------------------------------
(* The invariant holds in every reachable state.                           *)
LEMMA DiscoveryInvInit == Init => DiscoveryInv
<1> SUFFICES ASSUME Init PROVE DiscoveryInv
  OBVIOUS
<1>1. setup \in Setup
  BY DiscoveryAssumption DEF Init
<1>2. PICK p \in Ports :
         LET blank == [d |-> [port |-> p, tracker |-> None, trackerV2 |-> None,
                              announce |-> TRUE, dht |-> setup.dht # "none",
                              announcing |-> setup.dht # "none", timeout |-> FALSE,
                              destroyed |-> FALSE, tasks |-> 0, called |-> FALSE,
                              cut |-> FALSE],
                       client |-> [i \in Clients |-> Free], crashed |-> FALSE]
             made  == MakeTrackers(blank)
         IN  /\ d = made.d /\ client = made.client /\ crashed = FALSE
             /\ dht = IF setup.dht = "none" THEN None ELSE [hash |-> "v1", port |-> p]
  BY DEF Init
<1> DEFINE x == setup.dht # "none"
           e == [port |-> p, tracker |-> None, trackerV2 |-> None,
                 announce |-> TRUE, dht |-> x, announcing |-> x, timeout |-> FALSE,
                 destroyed |-> FALSE, tasks |-> 0, called |-> FALSE, cut |-> FALSE]
           f == [i \in Clients |-> Free]
           s == [d |-> e, client |-> f, crashed |-> FALSE]
           r == MakeTrackers(s)
<1>3. d = r.d /\ client = r.client /\ ~crashed /\ crashed = FALSE /\ (dht # None => setup.dht # "none")
  BY <1>2
<1>4. x \in BOOLEAN /\ (x <=> setup.dht # "none") /\ f \in [Clients -> Client \cup {Free}]
  OBVIOUS
<1> HIDE DEF x
<1>5. s \in State /\ \A i \in Clients : s.client[i] = Free
  BY <1>4 DEF State
<1>6. /\ s.d.announce /\ s.d.dht = x /\ ~s.d.timeout /\ ~s.d.destroyed
      /\ s.d.trackerV2 = None /\ s.crashed = FALSE
  OBVIOUS
<1> HIDE DEF s
<1>7. Made(s, r)
  BY <1>5, MakesAll
<1> HIDE DEF r
<1>8. Kept(r)
  BY <1>4, <1>5, <1>6, <1>7, MadeKept
<1>9. Kind(r)
  BY <1>6, <1>7, <1>8 DEF Kind, Made
<1>10. r = Now
  <2>1. r \in State /\ r.crashed = FALSE
    BY <1>6, <1>7 DEF Made
  <2>. QED
    BY <1>3, <2>1 DEF Now, State
<1>. QED
  BY <1>1, <1>3, <1>9, <1>10 DEF DiscoveryInv

LEMMA DiscoveryInvStep == DiscoveryInv /\ [Next]_vars => DiscoveryInv' /\ [SilentStep]_vars
<1> SUFFICES ASSUME DiscoveryInv, [Next]_vars PROVE DiscoveryInv' /\ [SilentStep]_vars
  OBVIOUS
<1>1. ASSUME NEW p \in Ports, UpdatePort(p) PROVE DiscoveryInv' /\ SilentStep
  BY <1>1, UpdatePortStep
<1>2. CASE Destroy
  BY <1>2, DestroyStep
<1>3. CASE OthersClosed
  BY <1>3, OthersClosedStep
<1>4. ASSUME NEW k \in Clients, Request(k) PROVE DiscoveryInv' /\ SilentStep
  BY <1>4, RequestStep
<1>5. ASSUME NEW k \in Clients, Answered(k) PROVE DiscoveryInv' /\ SilentStep
  BY <1>5, AnsweredStep
<1>6. ASSUME NEW k \in Clients, HttpError(k) PROVE DiscoveryInv' /\ SilentStep
  BY <1>6, HttpErrorStep
<1>7. ASSUME NEW k \in Clients, DestroyTimeout(k) PROVE DiscoveryInv' /\ SilentStep
  BY <1>7, TimeoutStep
<1>8. CASE DhtAnnounced
  BY <1>8, DhtAnnouncedStep
<1>9. CASE DhtTimeout
  BY <1>9, DhtTimeoutStep
<1>10. CASE UNCHANGED vars
  <2>1. UNCHANGED <<setup, d, client, dht, crashed>>
    BY <1>10 DEF vars
  <2>2. Kind(Now)'
    <3>1. Kind(Now) /\ Now = [d |-> d', client |-> client', crashed |-> crashed']
      BY <2>1 DEF DiscoveryInv, Now
    <3>. QED
      BY <2>1, <3>1, KindNext
  <2>. QED
    BY <1>10, <2>1, <2>2 DEF DiscoveryInv
<1>. QED
  BY <1>1, <1>2, <1>3, <1>4, <1>5, <1>6, <1>7, <1>8, <1>9, <1>10 DEF Next

LEMMA DiscoveryInvQuiet == DiscoveryInv => NoClientLeft /\ CrashIsHybrid
<1> SUFFICES ASSUME DiscoveryInv PROVE NoClientLeft /\ CrashIsHybrid
  OBVIOUS
<1>1. Now \in State /\ Kind(Now) /\ Now.d = d /\ Now.client = client /\ Now.crashed = crashed
  BY NowIs
<1>2. CrashIsHybrid
  BY <1>1 DEF Kind, CrashIsHybrid
<1>3. ASSUME NEW k \in Clients, client[k].is = "up", client[k].url
      PROVE  /\ k \in {d.tracker, d.trackerV2} /\ ~d.destroyed
             /\ \A j \in Clients \ {k} :
                   client[j].is = "up" => client[j].hash # client[k].hash
  <2>1. ~d.destroyed /\ Kept(Now)
    BY <1>1, <1>3 DEF Kind, Gone
  <2>2. ASSUME NEW j \in Clients, client[j].is = "up"
        PROVE  /\ j \in {d.tracker, d.trackerV2}
               /\ client[j].hash = IF j = d.tracker THEN "v1" ELSE "v2"
    <3>1. client[j] # Free
      BY <2>2 DEF Free
    <3>2. j \in {d.tracker, d.trackerV2}
      BY <1>1, <2>1, <3>1 DEF Kept
    <3>. QED
      BY <1>1, <2>1, <2>2, <3>2, DiscoveryAssumption DEF Kept, Up, Closing, Out
  <2>. QED
    BY <1>3, <2>1, <2>2
<1>4. NoClientLeft
  BY <1>3 DEF NoClientLeft
<1>. QED
  BY <1>2, <1>4

(* However port updates, requests that fail or outlive their client,       *)
(* announces on the DHT and destroy follow each other: no tracker client   *)
(* is left behind, a callback meets a null field only in a hybrid torrent, *)
(* and nothing is announced after destroy.                                 *)
THEOREM AlwaysQuiet == Spec => Quiet
<1>1. Init => DiscoveryInv
  BY DiscoveryInvInit
<1>2. DiscoveryInv /\ [Next]_vars => DiscoveryInv' /\ [SilentStep]_vars
  BY DiscoveryInvStep
<1>3. DiscoveryInv => NoClientLeft /\ CrashIsHybrid
  BY DiscoveryInvQuiet
<1>. QED
  BY <1>1, <1>2, <1>3, PTL DEF Spec, Quiet, SilentAfterDestroy
=============================================================================
