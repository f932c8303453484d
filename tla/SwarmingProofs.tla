--------------------------- MODULE SwarmingProofs ---------------------------
(* What the torrent knows of its peers: theorems about Availability, for   *)
(* every set of wires and pieces, and about Pex, for every list of peers,  *)
(* batch size and interval.                                                *)
EXTENDS Availability, Pex, FiniteSetTheorems, SequenceTheorems, TLAPS

(* The values the variables range over; the counts are about finitely many *)
(* wires at any time.                                                      *)
AType ==
    /\ phase \in {"magnet", "metadata", "ready"} /\ missing \subseteq Pieces
    /\ swarm \subseteq Wires /\ lingering \subseteq Wires
    /\ IsFiniteSet(swarm) /\ IsFiniteSet(lingering)
    /\ life \in [Wires -> {"none", "open", "destroyed"}]
    /\ has \in [Wires -> SUBSET Pieces]
    /\ rarity \in [Ranked -> Nat]

(* A wire that is open is in torrent.wires, and whoever is there, counted, *)
(* or listened to has not closed; nobody is listened to before the torrent *)
(* knows its pieces; and from the metadata on every wire is counted.       *)
Places ==
    /\ Open \subseteq swarm
    /\ \A w \in Wires : life[w] = "none" => w \notin swarm \cup heeded
    /\ phase = "magnet" => counted = {}
    /\ phase # "magnet" => swarm \subseteq counted
    /\ lingering \subseteq counted

(* The inductive invariant of the interest, the seeders and the timers.    *)
AInv == AType /\ Places

Counts(ws, h) == [p \in Ranked |-> Cardinality({w \in ws : p \in h[w]})]

LEMMA CountsType ==
    ASSUME NEW ws, IsFiniteSet(ws), NEW h
    PROVE  Counts(ws, h) \in [Ranked -> Nat]
<1>. SUFFICES ASSUME NEW p \in Ranked PROVE Cardinality({w \in ws : p \in h[w]}) \in Nat
  BY DEF Counts
<1>1. {w \in ws : p \in h[w]} \in SUBSET ws
  OBVIOUS
<1>2. IsFiniteSet({w \in ws : p \in h[w]})
  BY <1>1, FS_Subset
<1>. QED
  BY <1>2, FS_CardinalityType

LEMMA OneWire ==
    ASSUME NEW w, AType
    PROVE  /\ IsFiniteSet(swarm \cup {w}) /\ IsFiniteSet(swarm \ {w})
           /\ IsFiniteSet(lingering \cup ({w} \cap counted)) /\ IsFiniteSet(lingering \ {w})
           /\ IsFiniteSet({})
<1>1. IsFiniteSet(lingering \cup {w}) /\ IsFiniteSet({})
  BY FS_AddElement, FS_EmptySet DEF AType
<1>2. lingering \cup ({w} \cap counted) \in SUBSET (lingering \cup {w})
  OBVIOUS
<1>. QED
  BY <1>1, <1>2, FS_AddElement, FS_RemoveElement, FS_Subset DEF AType

LEMMA NextAType ==
    ASSUME AType, [Next]_vars
    PROVE  AType'
<1>. USE DEF AType
<1>1. CASE UNCHANGED vars
  BY <1>1 DEF vars, torrentVars, wireVars, mapVars
<1>2. CASE OnMetadata
  <2>1. rarity' \in [Ranked -> Nat]
    BY <1>2, CountsType DEF OnMetadata, Recount, Counts
  <2>. QED
    BY <1>2, <2>1, FS_EmptySet DEF OnMetadata, Recount, wireVars
<1>3. CASE OnStore \/ \E p \in Pieces : Stored(p)
  BY <1>3 DEF OnStore, Stored, wireVars, mapVars
<1>4. ASSUME NEW w \in Wires, HandleWire(w) PROVE AType'
  <2>1. /\ swarm' = swarm \cup {w} /\ has' = has
        /\ UNCHANGED torrentVars /\ life' = [life EXCEPT ![w] = "open"]
    BY <1>4 DEF HandleWire
  <2>2. CASE phase = "magnet"
    <3>1. IsFiniteSet(swarm \cup {w})
      BY OneWire
    <3>. QED
      BY <1>4, <2>1, <2>2, <3>1 DEF HandleWire, mapVars, torrentVars
  <2>3. CASE phase # "magnet"
    <3>1. rarity' = Counts(swarm', has) /\ lingering' = {}
      BY <1>4, <2>3 DEF HandleWire, Recount, Counts
    <3>2. IsFiniteSet(swarm \cup {w})
      BY OneWire
    <3>3. rarity' \in [Ranked -> Nat]
      BY <2>1, <3>1, <3>2, CountsType
    <3>. QED
      BY <2>1, <3>1, <3>2, <3>3, FS_EmptySet DEF torrentVars
  <2>. QED
    BY <2>2, <2>3
<1>5. ASSUME NEW w \in Wires, NEW ps \in SUBSET Pieces, BitField(w, ps) PROVE AType'
  <2>1. /\ UNCHANGED <<phase, missing, swarm, life>>
        /\ has' = [has EXCEPT ![w] = ps]
    BY <1>5 DEF BitField, torrentVars, wireVars
  <2>2. CASE w \in counted
    <3>1. rarity' = Counts(swarm, has') /\ lingering' = {}
      BY <1>5, <2>2 DEF BitField, Recount, Counts
    <3>2. rarity' \in [Ranked -> Nat]
      BY <3>1, CountsType
    <3>. QED
      BY <2>1, <3>1, <3>2, FS_EmptySet
  <2>3. CASE w \notin counted
    BY <1>5, <2>1, <2>3 DEF BitField, mapVars
  <2>. QED
    BY <2>2, <2>3
<1>6. CASE \E w \in Wires : HaveAll(w) \/ HaveNone(w)
  BY <1>6 DEF HaveAll, HaveNone, torrentVars, wireVars, mapVars
<1>7. CASE \E w \in Wires, p \in Pieces : Have(w, p) \/ DontHave(w, p)
  BY <1>7 DEF Have, DontHave, torrentVars, wireVars, mapVars
<1>8. CASE \E w \in Wires : Choke(w) \/ Unchoke(w) \/ OnChokeTimeout(w)
  BY <1>8 DEF Choke, Unchoke, OnChokeTimeout, torrentVars, wireVars, mapVars
<1>9. ASSUME NEW w \in Wires, DestroyPeer(w) PROVE AType'
  BY <1>9, OneWire DEF DestroyPeer, torrentVars
<1>10. ASSUME NEW w \in Wires, Close(w) PROVE AType'
  <2>1. Lost(w) \in [Ranked -> Nat]
    BY DEF Lost
  <2>. QED
    BY <1>10, <2>1, OneWire DEF Close, torrentVars
<1>. QED
  BY <1>1, <1>2, <1>3, <1>4, <1>5, <1>6, <1>7, <1>8, <1>9, <1>10 DEF Next

LEMMA NextPlaces ==
    ASSUME AInv, [Next]_vars
    PROVE  Places'
<1>. USE DEF AInv, AType, Places, Open
<1>1. CASE UNCHANGED vars
  BY <1>1 DEF vars, torrentVars, wireVars, mapVars
<1>2. CASE OnMetadata
  BY <1>2 DEF OnMetadata, Recount, wireVars
<1>3. CASE OnStore \/ \E p \in Pieces : Stored(p)
  BY <1>3 DEF OnStore, Stored, Heed, wireVars, mapVars
<1>4. ASSUME NEW w \in Wires, HandleWire(w) PROVE Places'
  BY <1>4 DEF HandleWire, Heed, Recount, mapVars, torrentVars
<1>5. CASE \E w \in Wires : \E ps \in SUBSET Pieces : BitField(w, ps)
  BY <1>5 DEF BitField, Recount, torrentVars, wireVars, mapVars
<1>6. CASE \E w \in Wires : HaveAll(w) \/ HaveNone(w)
  BY <1>6 DEF HaveAll, HaveNone, torrentVars, wireVars, mapVars
<1>7. CASE \E w \in Wires, p \in Pieces : Have(w, p) \/ DontHave(w, p)
  BY <1>7 DEF Have, DontHave, torrentVars, wireVars, mapVars
<1>8. CASE \E w \in Wires : Choke(w) \/ Unchoke(w) \/ OnChokeTimeout(w)
  BY <1>8 DEF Choke, Unchoke, OnChokeTimeout, torrentVars, wireVars, mapVars
<1>9. ASSUME NEW w \in Wires, DestroyPeer(w) PROVE Places'
  BY <1>9 DEF DestroyPeer, torrentVars
<1>10. ASSUME NEW w \in Wires, Close(w) PROVE Places'
  BY <1>10 DEF Close, torrentVars
<1>. QED
  BY <1>1, <1>2, <1>3, <1>4, <1>5, <1>6, <1>7, <1>8, <1>9, <1>10 DEF Next

LEMMA InitAInv == Init => AInv
<1>1. IsFiniteSet({})
  BY FS_EmptySet
<1>. QED
  BY <1>1 DEF Init, AInv, AType, Places, Open

LEMMA AlwaysAInv == Spec => []AInv
<1>1. AInv /\ [Next]_vars => AInv'
  BY NextAType, NextPlaces DEF AInv
<1>. QED
  BY <1>1, InitAInv, PTL DEF Spec

-----------------------------------------------------------------------------
(* Interest and seeders: whatever changes what a wire has is judged.       *)
LEMMA NextInterest ==
    ASSUME AInv, InterestNeverMissed, [Next]_vars
    PROVE  InterestNeverMissed'
<1>. USE DEF AInv, AType, Places, Open, InterestNeverMissed, Useful, Judge, Listened
<1>1. CASE UNCHANGED vars
  BY <1>1 DEF vars, torrentVars, wireVars
<1>2. CASE OnMetadata
  BY <1>2 DEF OnMetadata, wireVars
<1>3. CASE OnStore \/ \E p \in Pieces : Stored(p)
  BY <1>3 DEF OnStore, Stored, Heed, wireVars
<1>4. ASSUME NEW w \in Wires, HandleWire(w) PROVE InterestNeverMissed'
  BY <1>4 DEF HandleWire, Heed, torrentVars
<1>5. CASE \E w \in Wires : \E ps \in SUBSET Pieces : BitField(w, ps)
  BY <1>5 DEF BitField, torrentVars, wireVars
<1>6. CASE \E w \in Wires : HaveAll(w) \/ HaveNone(w)
  BY <1>6 DEF HaveAll, HaveNone, torrentVars, wireVars
<1>7. CASE \E w \in Wires, p \in Pieces : Have(w, p) \/ DontHave(w, p)
  BY <1>7 DEF Have, DontHave, torrentVars, wireVars
<1>8. CASE \E w \in Wires : Choke(w) \/ Unchoke(w) \/ OnChokeTimeout(w)
  BY <1>8 DEF Choke, Unchoke, OnChokeTimeout, torrentVars, wireVars
<1>9. CASE \E w \in Wires : DestroyPeer(w) \/ Close(w)
  BY <1>9 DEF DestroyPeer, Close, torrentVars
<1>. QED
  BY <1>1, <1>2, <1>3, <1>4, <1>5, <1>6, <1>7, <1>8, <1>9 DEF Next

(* Choke timeouts: a timer that is not running belongs to a wire that does *)
(* not choke, is not listened to, or is gone.                              *)
LEMMA NextTimer ==
    ASSUME AInv, ChokeTimer, [Next]_vars
    PROVE  ChokeTimer'
<1>. USE DEF AInv, AType, Places, Open, ChokeTimer, Listened, Refuse
<1>1. CASE UNCHANGED vars
  BY <1>1 DEF vars, wireVars, chokeVars
<1>2. CASE OnMetadata \/ \E p \in Pieces : Stored(p)
  BY <1>2 DEF OnMetadata, Stored, wireVars, chokeVars
<1>3. CASE OnStore
  BY <1>3 DEF OnStore, Heed, wireVars
<1>4. ASSUME NEW w \in Wires, HandleWire(w) PROVE ChokeTimer'
  BY <1>4 DEF HandleWire, Heed
<1>5. CASE \E w \in Wires : \E ps \in SUBSET Pieces : BitField(w, ps)
  BY <1>5 DEF BitField, wireVars, chokeVars
<1>6. CASE \E w \in Wires : HaveAll(w) \/ HaveNone(w)
  BY <1>6 DEF HaveAll, HaveNone, wireVars, chokeVars
<1>7. CASE \E w \in Wires, p \in Pieces : Have(w, p) \/ DontHave(w, p)
  BY <1>7 DEF Have, DontHave, wireVars, chokeVars
<1>8. CASE \E w \in Wires : Choke(w) \/ Unchoke(w)
  BY <1>8 DEF Choke, Unchoke, wireVars
<1>9. ASSUME NEW w \in Wires, OnChokeTimeout(w) PROVE ChokeTimer'
  <2>1. heeded' = heeded
    BY <1>9 DEF OnChokeTimeout
  <2>2. CASE life' = [life EXCEPT ![w] = "destroyed"] /\ Refuse(w) /\ w \in Open
    BY <2>1, <2>2
  <2>3. CASE timers' = timers /\ UNCHANGED <<life, refusing>>
    BY <2>1, <2>3
  <2>4. CASE w \notin Open /\ timers' = timers \ {w} /\ UNCHANGED <<life, refusing>>
    BY <2>1, <2>4
  <2>. QED
    BY <1>9, <2>2, <2>3, <2>4 DEF OnChokeTimeout, Again
<1>10. ASSUME NEW w \in Wires, DestroyPeer(w) PROVE ChokeTimer'
  <2>1. /\ heeded' = heeded /\ life' = [life EXCEPT ![w] = "destroyed"] /\ w \in Open
        /\ refusing' = refusing \cup {w} /\ timers' = timers \cup (({w} \cap heeded) \cap Timed)
    BY <1>10 DEF DestroyPeer
  <2>. QED
    BY <2>1
<1>11. ASSUME NEW w \in Wires, Close(w) PROVE ChokeTimer'
  <2>1. /\ heeded' = heeded \ {w} /\ life' = [life EXCEPT ![w] = "none"]
        /\ refusing' = refusing \cup {w} /\ timers' = timers \ {w}
    BY <1>11 DEF Close
  <2>. QED
    BY <2>1
<1>. QED
  BY <1>1, <1>2, <1>3, <1>4, <1>5, <1>6, <1>7, <1>8, <1>9, <1>10, <1>11 DEF Next

(* The torrent knows what it can ask of whom, and every peer that keeps    *)
(* choking it is timed, in whatever order wires, metadata and messages     *)
(* come.                                                                   *)
THEOREM AlwaysKnown == Spec => []PeersKnown
<1>1. Init => PeersKnown
  BY DEF Init, PeersKnown, InterestNeverMissed, ChokeTimer, Open
<1>2. AInv /\ PeersKnown /\ [Next]_vars => PeersKnown'
  BY NextInterest, NextTimer DEF PeersKnown
<1>. QED
  BY <1>1, <1>2, AlwaysAInv, PTL DEF Spec

-----------------------------------------------------------------------------
(* The rarity map: the wires that count, and how the counts follow them.   *)
Kept == swarm \cup lingering

Holders(p) == {w \in Kept : p \in has[w]}

LEMMA HoldersFinite ==
    ASSUME AType, NEW p
    PROVE  IsFiniteSet(Holders(p)) /\ Cardinality(Holders(p)) \in Nat
<1>1. IsFiniteSet(Kept)
  BY FS_Union DEF AType, Kept
<1>2. Holders(p) \in SUBSET Kept
  BY DEF Holders
<1>. QED
  BY <1>1, <1>2, FS_Subset, FS_CardinalityType

(* A recount is exact by itself.                                           *)
LEMMA RecountExact ==
    ASSUME Recount(swarm', has')
    PROVE  RarityExact'
  BY DEF Recount, RarityExact

LEMMA NextRarity ==
    ASSUME AInv, RarityExact, [Next]_vars
    PROVE  RarityExact'
<1>. USE DEF AInv
<1>1. CASE UNCHANGED vars
  BY <1>1 DEF vars, torrentVars, wireVars, mapVars, RarityExact
<1>2. CASE OnMetadata
  BY <1>2, RecountExact DEF OnMetadata, wireVars, Recount
<1>3. CASE OnStore \/ \E p \in Pieces : Stored(p)
  BY <1>3 DEF OnStore, Stored, wireVars, mapVars, RarityExact
<1>4. ASSUME NEW w \in Wires, HandleWire(w) PROVE RarityExact'
  <2>1. CASE phase = "magnet"
    BY <1>4, <2>1 DEF HandleWire, torrentVars, RarityExact
  <2>2. CASE phase # "magnet"
    BY <1>4, <2>2, RecountExact DEF HandleWire, Recount
  <2>. QED
    BY <2>1, <2>2
<1>5. ASSUME NEW w \in Wires, NEW ps \in SUBSET Pieces, BitField(w, ps) PROVE RarityExact'
  <2>1. CASE w \in counted
    BY <1>5, <2>1, RecountExact DEF BitField, wireVars, Recount
  <2>2. CASE w \notin counted
    BY <1>5, <2>2 DEF BitField, torrentVars, wireVars, mapVars, RarityExact, AType, Places, Open
  <2>. QED
    BY <2>1, <2>2
<1>6. ASSUME NEW w \in Wires, HaveAll(w) PROVE RarityExact'
  BY <1>6 DEF HaveAll, torrentVars, wireVars, RarityExact, AType, Places, Open
<1>7. CASE \E w \in Wires : HaveNone(w) \/ Choke(w) \/ Unchoke(w)
  BY <1>7 DEF HaveNone, Choke, Unchoke, torrentVars, wireVars, mapVars, RarityExact
<1>8. CASE \E w \in Wires : OnChokeTimeout(w)
  BY <1>8 DEF OnChokeTimeout, torrentVars, mapVars, RarityExact
<1>9. ASSUME NEW w \in Wires, NEW p \in Pieces, Have(w, p) PROVE RarityExact'
  <2>. SUFFICES ASSUME phase # "magnet", ~skewed, NEW q \in Ranked
                PROVE  rarity'[q] = Cardinality(Holders(q)')
    BY <1>9 DEF Have, torrentVars, RarityExact, Holders, Kept
  <2>1. w \in counted /\ w \in Kept
    BY <1>9 DEF Have, AType, Places, Open, Kept
  <2>2. rarity[q] = Cardinality(Holders(q)) /\ rarity \in [Ranked -> Nat]
    BY DEF RarityExact, Holders, Kept, AType
  <2>3. UNCHANGED <<swarm, lingering>> /\ has' = [has EXCEPT ![w] = @ \cup {p}]
    BY <1>9 DEF Have, wireVars
  <2>4. CASE q = p
    <3>1. Holders(q)' = Holders(q) \cup {w} /\ w \notin Holders(q)
      BY <1>9, <2>1, <2>3, <2>4 DEF Have, AType, Holders, Kept
    <3>2. rarity'[q] = rarity[q] + 1
      BY <1>9, <2>1, <2>2, <2>4 DEF Have
    <3>. QED
      BY <2>2, <3>1, <3>2, HoldersFinite, FS_AddElement
  <2>5. CASE q # p
    <3>1. Holders(q)' = Holders(q)
      BY <2>3, <2>5 DEF AType, Holders, Kept
    <3>2. rarity'[q] = rarity[q]
      BY <1>9, <2>2, <2>5 DEF Have
    <3>. QED
      BY <2>2, <3>1, <3>2
  <2>. QED
    BY <2>4, <2>5
<1>10. ASSUME NEW w \in Wires, NEW p \in Pieces, DontHave(w, p) PROVE RarityExact'
  BY <1>10 DEF DontHave, torrentVars, wireVars, RarityExact, AType, Places, Open
<1>11. ASSUME NEW w \in Wires, DestroyPeer(w) PROVE RarityExact'
  <2>1. phase # "magnet" => swarm' \cup lingering' = swarm \cup lingering
    BY <1>11 DEF DestroyPeer, AType, Places, Open
  <2>. QED
    BY <1>11, <2>1 DEF DestroyPeer, torrentVars, RarityExact
<1>12. ASSUME NEW w \in Wires, Close(w) PROVE RarityExact'
  <2>. SUFFICES ASSUME phase # "magnet", ~skewed', NEW q \in Ranked
                PROVE  rarity'[q] = Cardinality(Holders(q)')
    BY <1>12 DEF Close, torrentVars, RarityExact, Holders, Kept
  <2>1. ~skewed /\ (w \in counted => w \in Kept) /\ (w \in Kept => w \in counted)
    BY <1>12 DEF Close, AType, Places, Kept
  <2>2. rarity[q] = Cardinality(Holders(q)) /\ rarity \in [Ranked -> Nat]
    BY <2>1 DEF RarityExact, Holders, Kept, AType
  <2>3. Holders(q)' = Holders(q) \ {w}
    BY <1>12 DEF Close, AType, Holders, Kept
  <2>4. rarity'[q] = IF w \in Holders(q) /\ rarity[q] > 0 THEN rarity[q] - 1 ELSE rarity[q]
    BY <1>12, <2>1 DEF Close, Lost, Holders
  <2>5. w \in Holders(q) => Cardinality(Holders(q)) # 0
    BY HoldersFinite, FS_EmptySet
  <2>6. /\ IsFiniteSet(Holders(q)) /\ Cardinality(Holders(q)) \in Nat
        /\ Cardinality(Holders(q) \ {w}) = IF w \in Holders(q) THEN Cardinality(Holders(q)) - 1
                                           ELSE Cardinality(Holders(q))
    BY HoldersFinite, FS_RemoveElement
  <2>. HIDE DEF AInv
  <2>. QED
    BY <2>2, <2>3, <2>4, <2>5, <2>6
<1>. QED
  BY <1>1, <1>2, <1>3, <1>4, <1>5, <1>6, <1>7, <1>8, <1>9, <1>10, <1>11, <1>12 DEF Next

(* The counts of the rarity map are those of the wires, with the ones that *)
(* are still to close, until one of the named events makes them differ.    *)
THEOREM AlwaysCounted == Spec => []RarityExact
<1>1. Init => RarityExact
  BY DEF Init, RarityExact
<1>. QED
  BY <1>1, NextRarity, AlwaysAInv, PTL DEF Spec

-----------------------------------------------------------------------------
(* Peer exchange.                                                          *)

(* The elements of a list are distinct.                                    *)
NoDup(s) == \A i, j \in DOMAIN s : s[i] = s[j] => i = j

(* A list of the set S with distinct elements.                             *)
Lists(S) == {s \in Seq(S) : NoDup(s)}

(* Contains is membership in the elements.                                 *)
LEMMA ContainsElement ==
    ASSUME NEW S, NEW s \in Seq(S), NEW p
    PROVE  Contains(s, p) <=> p \in ToSet(s)
BY DEF Contains, ToSet

(* A key that is added comes last.                                         *)
LEMMA KeyedAdds ==
    ASSUME NEW S, NEW s \in Lists(S), NEW p \in S
    PROVE  /\ Keyed(s, p) \in Lists(S)
           /\ ToSet(Keyed(s, p)) = ToSet(s) \cup {p}
<1>1. CASE Contains(s, p)
  BY <1>1, ContainsElement DEF Keyed, Lists
<1>2. CASE ~Contains(s, p)
  <2>1. s \in Seq(S) /\ NoDup(s) /\ Keyed(s, p) = Append(s, p)
    BY <1>2 DEF Keyed, Lists
  <2>2. \A i \in 1 .. Len(s) : s[i] # p
    BY <1>2 DEF Contains
  <2>3. NoDup(Append(s, p))
    BY <2>1, <2>2 DEF NoDup
  <2>4. ToSet(Append(s, p)) = ToSet(s) \cup {p}
    BY <2>1 DEF ToSet
  <2>. QED
    BY <2>1, <2>3, <2>4 DEF Lists
<1>. QED
  BY <1>1, <1>2

(* A key that is removed is gone, and no other is.                         *)
LEMMA RemoveRemoves ==
    ASSUME NEW S, NEW s \in Lists(S), NEW p
    PROVE  /\ RemoveFirst(s, p) \in Lists(S)
           /\ ToSet(RemoveFirst(s, p)) = ToSet(s) \ {p}
<1>0. s \in Seq(S) /\ NoDup(s)
  BY DEF Lists
<1>1. CASE ~\E i \in 1 .. Len(s) : s[i] = p
  BY <1>0, <1>1 DEF RemoveFirst, ToSet
<1>2. ASSUME NEW k \in 1 .. Len(s), s[k] = p
      PROVE  /\ RemoveFirst(s, p) \in Lists(S)
             /\ ToSet(RemoveFirst(s, p)) = ToSet(s) \ {p}
  <2>1. {i \in 1 .. Len(s) : s[i] = p} = {k}
    BY <1>0, <1>2 DEF NoDup
  <2>2. Min({k}) = k
    BY DEF Min
  <2>3. SelectInSeq(s, LAMBDA v : v = p) = k
    BY <2>1, <2>2 DEF SelectInSeq
  <2>4. RemoveFirst(s, p) = RemoveAt(s, k)
    BY <1>2, <2>3 DEF RemoveFirst
  <2> DEFINE r == SubSeq(s, 1, k - 1) \o SubSeq(s, k + 1, Len(s))
  <2>6. RemoveFirst(s, p) = r
    BY <2>4 DEF RemoveAt
  <2>a. /\ SubSeq(s, 1, k - 1) \in Seq(S) /\ Len(SubSeq(s, 1, k - 1)) = k - 1
        /\ \A i \in 1 .. k - 1 : SubSeq(s, 1, k - 1)[i] = s[i]
    BY <1>0, <1>2
  <2>b. /\ SubSeq(s, k + 1, Len(s)) \in Seq(S) /\ Len(SubSeq(s, k + 1, Len(s))) = Len(s) - k
        /\ \A i \in 1 .. Len(s) - k : SubSeq(s, k + 1, Len(s))[i] = s[k + i]
    BY <1>0, <1>2
  <2> DEFINE front == SubSeq(s, 1, k - 1)
             back == SubSeq(s, k + 1, Len(s))
  <2>c. r = front \o back
    OBVIOUS
  <2> HIDE DEF r, front, back
  <2>d. /\ front \in Seq(S) /\ Len(front) = k - 1 /\ \A i \in 1 .. k - 1 : front[i] = s[i]
        /\ back \in Seq(S) /\ Len(back) = Len(s) - k
        /\ \A i \in 1 .. Len(s) - k : back[i] = s[k + i]
    BY <2>a, <2>b DEF front, back
  <2> DEFINE n == Len(s)
  <2>e. n \in Nat /\ k \in 1 .. n
    BY <1>0, <1>2
  <2>f. /\ r \in Seq(S) /\ Len(r) = Len(front) + Len(back)
        /\ \A i \in 1 .. Len(front) + Len(back) :
              r[i] = IF i <= Len(front) THEN front[i] ELSE back[i - Len(front)]
    BY <2>c, <2>d, ConcatProperties
  <2>g. Len(front) + Len(back) = n - 1
    BY <2>d, <2>e
  <2>h. ASSUME NEW i \in 1 .. n - 1 PROVE r[i] = IF i < k THEN s[i] ELSE s[i + 1]
    <3>1. CASE i < k
      <4>1. i \in 1 .. k - 1 /\ i <= k - 1
        BY <2>e, <3>1
      <4>2. r[i] = front[i]
        BY <2>d, <2>f, <2>g, <4>1
      <4>. QED
        BY <2>d, <3>1, <4>1, <4>2
    <3>2. CASE ~(i < k)
      <4>1. i - (k - 1) \in 1 .. n - k /\ k + (i - (k - 1)) = i + 1
        BY <2>e, <3>2
      <4>2. r[i] = back[i - (k - 1)]
        BY <2>d, <2>e, <2>f, <2>g, <3>2
      <4>. QED
        BY <2>d, <3>2, <4>1, <4>2
    <3>. QED
      BY <3>1, <3>2
  <2>5. /\ r \in Seq(S) /\ Len(r) = Len(s) - 1
        /\ \A i \in 1 .. Len(s) - 1 : r[i] = IF i < k THEN s[i] ELSE s[i + 1]
    BY <2>f, <2>g, <2>h
  <2>7. NoDup(r)
    <3> SUFFICES ASSUME NEW i \in 1 .. n - 1, NEW j \in 1 .. n - 1, r[i] = r[j] PROVE i = j
      BY <2>5 DEF NoDup, n
    <3> DEFINE f == IF i < k THEN i ELSE i + 1
               g == IF j < k THEN j ELSE j + 1
    <3>1. f \in 1 .. n /\ g \in 1 .. n /\ (f = g => i = j)
      BY <2>e
    <3>2. s[f] = s[g]
      BY <2>h
    <3>. QED
      BY <1>0, <3>1, <3>2 DEF NoDup, n
  <2>8. ToSet(r) \subseteq ToSet(s) \ {p}
    BY <1>0, <1>2, <2>5 DEF NoDup, ToSet
  <2>9. ASSUME NEW i \in 1 .. Len(s), s[i] # p PROVE s[i] \in ToSet(r)
    <3>1. CASE i < k
      BY <1>0, <1>2, <2>5, <3>1 DEF ToSet
    <3>2. CASE i > k
      <4>1. i - 1 \in 1 .. Len(s) - 1 /\ ~(i - 1 < k) /\ r[i - 1] = s[i]
        BY <1>0, <1>2, <2>5, <3>2
      <4>. QED
        BY <2>5, <4>1 DEF ToSet
    <3>. QED
      BY <1>2, <2>9, <3>1, <3>2
  <2>. QED
    <3>1. ToSet(s) \ {p} \subseteq ToSet(r)
      BY <1>0, <2>9 DEF ToSet
    <3>. QED
      BY <2>5, <2>6, <2>7, <2>8, <3>1 DEF Lists
<1>. QED
  BY <1>1, <1>2

(* A message holds the first peers of a list, the others stay.             *)
LEMMA BatchSplits ==
    ASSUME NEW S, NEW s \in Lists(S)
    PROVE  /\ Batch(s) \in Seq(S) /\ Rest(s) \in Lists(S)
           /\ ToSet(s) = ToSet(Batch(s)) \cup ToSet(Rest(s))
<1>0. s \in Seq(S) /\ NoDup(s) /\ MaxPeers \in Nat
  BY PexAssumption DEF Lists
<1> DEFINE n == IF Len(s) < MaxPeers THEN Len(s) ELSE MaxPeers
<1>1. n \in 0 .. Len(s)
  BY <1>0
<1>2. Batch(s) = SubSeq(s, 1, n)
  BY DEF Batch
<1> HIDE DEF n
<1>3. /\ Batch(s) \in Seq(S) /\ Len(Batch(s)) = n
      /\ \A i \in 1 .. n : Batch(s)[i] = s[i]
  BY <1>0, <1>1, <1>2
<1>4. Rest(s) = SubSeq(s, n + 1, Len(s))
  BY <1>3 DEF Rest
<1>5. /\ Rest(s) \in Seq(S) /\ Len(Rest(s)) = Len(s) - n
      /\ \A i \in 1 .. Len(s) - n : Rest(s)[i] = s[n + i]
  BY <1>0, <1>1, <1>4
<1> DEFINE a == Batch(s)
           b == Rest(s)
           m == Len(s)
<1>b. m \in Nat /\ n \in 0 .. m /\ DOMAIN s = 1 .. m
  BY <1>0, <1>1
<1>c. a \in Seq(S) /\ Len(a) = n /\ \A i \in 1 .. n : a[i] = s[i]
  BY <1>3
<1>d. b \in Seq(S) /\ Len(b) = m - n /\ \A i \in 1 .. m - n : b[i] = s[n + i]
  BY <1>5
<1> HIDE DEF a, b
<1>a. DOMAIN a = 1 .. n /\ DOMAIN b = 1 .. m - n
  BY <1>b, <1>c, <1>d
<1>6. NoDup(b)
  <2>1. SUFFICES ASSUME NEW i \in 1 .. m - n, NEW j \in 1 .. m - n, b[i] = b[j] PROVE i = j
    BY <1>a DEF NoDup
  <2>2. n + i \in 1 .. m /\ n + j \in 1 .. m /\ s[n + i] = s[n + j]
    BY <1>b, <1>d, <2>1
  <2>3. n + i = n + j
    BY <1>0, <1>b, <2>2 DEF NoDup
  <2>. QED
    BY <1>b, <2>3
<1>7. ToSet(a) \subseteq ToSet(s) /\ ToSet(b) \subseteq ToSet(s)
  <2>1. \A i \in 1 .. n : i \in 1 .. m
    BY <1>b
  <2>2. \A i \in 1 .. m - n : n + i \in 1 .. m
    BY <1>b
  <2>3. ASSUME NEW x \in ToSet(a) PROVE x \in ToSet(s)
    <3>1. PICK i \in 1 .. n : a[i] = x
      BY <1>a DEF ToSet
    <3>. QED
      BY <1>b, <1>c, <2>1, <3>1 DEF ToSet
  <2>4. ASSUME NEW x \in ToSet(b) PROVE x \in ToSet(s)
    <3>1. PICK i \in 1 .. m - n : b[i] = x
      BY <1>a DEF ToSet
    <3>2. n + i \in DOMAIN s /\ s[n + i] = x
      BY <1>b, <1>d, <2>2, <3>1
    <3>. QED
      BY <3>2 DEF ToSet
  <2>. QED
    BY <2>3, <2>4
<1>8. ASSUME NEW i \in 1 .. Len(s) PROVE s[i] \in ToSet(Batch(s)) \cup ToSet(Rest(s))
  <2>1. CASE i <= n
    BY <1>0, <1>1, <1>3, <2>1 DEF ToSet
  <2>2. CASE i > n
    <3>1. i - n \in 1 .. Len(s) - n /\ Rest(s)[i - n] = s[i]
      BY <1>0, <1>1, <1>5, <2>2
    <3>. QED
      BY <1>5, <3>1 DEF ToSet
  <2>. QED
    BY <1>1, <2>1, <2>2
<1>9. ToSet(s) \subseteq ToSet(a) \cup ToSet(b)
  BY <1>b, <1>8 DEF ToSet, a, b
<1>. QED
  BY <1>3, <1>5, <1>6, <1>7, <1>9 DEF Lists, a, b

-----------------------------------------------------------------------------
(* The peers there are.                                                    *)
Addresses == known["a"] \cup known["b"]

UtPex == [localAdded : Lists(Addresses), localDropped : Lists(Addresses),
          remoteAdded : SUBSET Addresses, remoteDropped : SUBSET Addresses,
          timer : {Off} \cup 0 .. Interval, since : 0 .. MinInterval]

Message == [added : Seq(Addresses), dropped : Seq(Addresses), age : 0 .. MaxDelay]

(* At most one message of an end is on its way.                            *)
PexType ==
    /\ pex \in [Ends -> UtPex]
    /\ sent \in [Ends -> {<< >>} \cup {<<m>> : m \in Message}]
    /\ open \in BOOLEAN
    /\ members \in [Ends -> SUBSET Addresses]
    /\ crossed \in [Ends -> SUBSET Addresses]

(* A message is as old as the timer is past the beginning, or older: it    *)
(* was sent before the timer was set.                                      *)
SentBefore ==
    \A e \in Ends : sent[e] # << >> /\ pex[e].timer # Off =>
        sent[e][1].age + pex[e].timer >= Interval

ToAdd(e) == ToSet(pex[e].localAdded)
ToDrop(e) == ToSet(pex[e].localDropped)
SentAdded(e) == IF sent[e] = << >> THEN {} ELSE ToSet(sent[e][1].added)
SentDropped(e) == IF sent[e] = << >> THEN {} ELSE ToSet(sent[e][1].dropped)

(* No peer is to be added and dropped by the same end or message.          *)
AddOrDrop ==
    \A e \in Ends : ToAdd(e) \cap ToDrop(e) = {} /\ SentAdded(e) \cap SentDropped(e) = {}

(* What the other end knows when all messages have come.                   *)
WillKnow(e) ==
    (((pex[Other(e)].remoteAdded \cup SentAdded(e)) \ SentDropped(e)) \cup ToAdd(e)) \ ToDrop(e)

TruthTold ==
    open => \A e \in Ends : \A p \in known[e] \ crossed[e] : p \in WillKnow(e) <=> p \in members[e]

(* The other end has waited long enough when a message is on its way, and  *)
(* will have when the next one comes.                                      *)
Paced ==
    Interval >= MinInterval + MaxDelay =>
        /\ open
        /\ \A e \in Ends :
              LET since == pex[Other(e)].since
                  timer == pex[e].timer
              IN  /\ sent[e] # << >> => since = MinInterval
                  /\ sent[e] = << >> /\ timer # Off =>
                        since = MinInterval \/ since + MaxDelay + timer >= Interval

PexInv == PexType /\ SentBefore /\ AddOrDrop /\ TruthTold /\ Paced

LEMMA OtherEnd ==
    ASSUME NEW e \in Ends
    PROVE  Other(e) \in Ends /\ Other(e) # e /\ Other(Other(e)) = e
BY DEF Other, Ends

LEMMA PexInitInv == PexInit => PexInv
<1> SUFFICES ASSUME PexInit PROVE PexInv
  OBVIOUS
<1>0. /\ Interval \in Nat /\ MinInterval \in Nat /\ MaxDelay \in Nat /\ MaxDelay < Interval
  BY PexAssumption
<1>1. << >> \in Lists(Addresses) /\ ToSet(<< >>) = {}
  BY DEF Lists, NoDup, ToSet
<1>2. NewPex \in UtPex
  BY <1>0, <1>1 DEF NewPex, UtPex
<1>3. PexType
  BY <1>2 DEF PexInit, PexType
<1>4. \A e \in Ends : /\ pex[e] = NewPex /\ sent[e] = << >> /\ members[e] = {}
                      /\ pex[Other(e)] = NewPex
  BY OtherEnd DEF PexInit
<1>5. SentBefore /\ AddOrDrop
  BY <1>1, <1>4 DEF SentBefore, AddOrDrop, ToAdd, ToDrop, SentAdded, SentDropped, NewPex
<1>6. TruthTold
  BY <1>1, <1>4 DEF TruthTold, WillKnow, ToAdd, ToDrop, SentAdded, SentDropped, NewPex
<1>7. Paced
  BY <1>0, <1>4 DEF Paced, NewPex, PexInit, Off
<1>. QED
  BY <1>3, <1>5, <1>6, <1>7 DEF PexInv

(* What is still to be told of the peers says the same as LastWord.        *)
LEMMA LastWordIs ==
    ASSUME PexInv, NEW e \in Ends, NEW p
    PROVE  LastWord(e, p) = "added" <=> p \in WillKnow(e)
<1>0. /\ pex[e].localAdded \in Seq(Addresses) /\ pex[e].localDropped \in Seq(Addresses)
      /\ sent[e] \in {<< >>} \cup {<<m>> : m \in Message}
      /\ ToAdd(e) \cap ToDrop(e) = {} /\ SentAdded(e) \cap SentDropped(e) = {}
  BY DEF PexInv, PexType, UtPex, Lists, AddOrDrop
<1>1. /\ Contains(pex[e].localAdded, p) <=> p \in ToAdd(e)
      /\ Contains(pex[e].localDropped, p) <=> p \in ToDrop(e)
  BY <1>0, ContainsElement DEF ToAdd, ToDrop
<1>2. /\ Underway(e, p, "added") <=> p \in SentAdded(e)
      /\ Underway(e, p, "dropped") <=> p \in SentDropped(e)
  <2>1. CASE sent[e] = << >>
    BY <2>1 DEF Underway, SentAdded, SentDropped
  <2>2. ASSUME NEW m \in Message, sent[e] = <<m>>
        PROVE  /\ Underway(e, p, "added") <=> p \in SentAdded(e)
               /\ Underway(e, p, "dropped") <=> p \in SentDropped(e)
    <3>1. m.added \in Seq(Addresses) /\ m.dropped \in Seq(Addresses)
      BY DEF Message
    <3>2. /\ Contains(m.added, p) <=> p \in ToSet(m.added)
          /\ Contains(m.dropped, p) <=> p \in ToSet(m.dropped)
      BY <3>1, ContainsElement
    <3>3. DOMAIN sent[e] = {1} /\ sent[e][1] = m /\ sent[e] # << >>
      BY <2>2
    <3>. QED
      BY <3>2, <3>3 DEF Underway, SentAdded, SentDropped
  <2>. QED
    BY <1>0, <2>1, <2>2
<1>3. CASE p \in ToAdd(e)
  BY <1>0, <1>1, <1>3 DEF LastWord, WillKnow
<1>4. CASE p \notin ToAdd(e) /\ p \in ToDrop(e)
  BY <1>1, <1>4 DEF LastWord, WillKnow
<1>5. CASE p \notin ToAdd(e) /\ p \notin ToDrop(e) /\ p \in SentAdded(e)
  <2>1. LastWord(e, p) = "added"
    BY <1>1, <1>2, <1>5 DEF LastWord
  <2>. QED
    BY <1>0, <1>5, <2>1 DEF WillKnow
<1>6. CASE p \notin ToAdd(e) /\ p \notin ToDrop(e) /\ p \notin SentAdded(e) /\ p \in SentDropped(e)
  <2>1. LastWord(e, p) = "dropped"
    BY <1>1, <1>2, <1>6 DEF LastWord
  <2>. QED
    BY <1>6, <2>1 DEF WillKnow
<1>7. CASE /\ p \notin ToAdd(e) /\ p \notin ToDrop(e)
           /\ p \notin SentAdded(e) /\ p \notin SentDropped(e)
  <2>1. LastWord(e, p) = IF p \in pex[Other(e)].remoteAdded THEN "added" ELSE "dropped"
    BY <1>1, <1>2, <1>7 DEF LastWord
  <2>. QED
    BY <1>7, <2>1 DEF WillKnow
<1>. QED
  BY <1>3, <1>4, <1>5, <1>6, <1>7

(* The action of one end leaves the messages and what was told alone.      *)
LEMMA StartStopStep ==
    ASSUME PexInv, NEW e \in Ends, Start(e) \/ Stop(e)
    PROVE  PexInv'
<1>0. /\ Interval \in Nat /\ MinInterval \in Nat /\ MaxDelay \in Nat /\ MaxDelay < Interval
  BY PexAssumption
<1>1. /\ pex \in [Ends -> UtPex] /\ open /\ UNCHANGED <<known, sent, open, members, crossed>>
      /\ \E t \in {Interval, Off} : pex' = [pex EXCEPT ![e].timer = t]
  BY DEF PexInv, PexType, Start, Stop
<1>2. PICK t \in {Interval, Off} : pex' = [pex EXCEPT ![e].timer = t]
  BY <1>1
<1>3. pex'[e] = [pex[e] EXCEPT !.timer = t] /\ \A f \in Ends \ {e} : pex'[f] = pex[f]
  BY <1>1, <1>2
<1>4. UtPex' = UtPex /\ Message' = Message /\ Addresses' = Addresses
  BY <1>1 DEF UtPex, Message, Addresses
<1>5. \A f \in Ends : /\ pex'[f].localAdded = pex[f].localAdded
                      /\ pex'[f].localDropped = pex[f].localDropped
                      /\ pex'[f].remoteAdded = pex[f].remoteAdded
                      /\ pex'[f].since = pex[f].since
                      /\ (pex'[f].timer = pex[f].timer \/ pex'[f].timer = t)
  BY <1>1, <1>3 DEF UtPex
<1>6. PexType'
  <2>1. pex'[e] \in UtPex
    BY <1>0, <1>1, <1>3 DEF UtPex
  <2>2. pex' \in [Ends -> UtPex]
    BY <1>1, <1>2, <2>1
  <2>. QED
    BY <1>1, <1>4, <2>2 DEF PexInv, PexType
<1>7. SentBefore'
  <2>1. \A f \in Ends : sent[f] # << >> => sent[f][1].age \in Nat
    BY DEF PexInv, PexType, Message
  <2>. QED
    BY <1>0, <1>1, <1>5, <2>1 DEF PexInv, SentBefore
<1>8. \A f \in Ends : /\ ToAdd(f)' = ToAdd(f) /\ ToDrop(f)' = ToDrop(f)
                      /\ SentAdded(f)' = SentAdded(f) /\ SentDropped(f)' = SentDropped(f)
                      /\ WillKnow(f)' = WillKnow(f)
  BY <1>1, <1>5, OtherEnd DEF ToAdd, ToDrop, SentAdded, SentDropped, WillKnow
<1>9. AddOrDrop' /\ TruthTold'
  BY <1>1, <1>8 DEF PexInv, AddOrDrop, TruthTold
<1>10. Paced'
  <2>1. \A f \in Ends : pex[f].since \in Nat
    BY <1>0, <1>1 DEF UtPex
  <2>. QED
    BY <1>0, <1>1, <1>5, <2>1, OtherEnd DEF PexInv, Paced, Off
<1>. QED
  BY <1>6, <1>7, <1>9, <1>10 DEF PexInv

(* The user of an end connects to a peer or drops it.                      *)
LEMMA UserStep ==
    ASSUME PexInv, NEW e \in Ends, NEW p \in known[e], Connect(e, p) \/ Disconnect(e, p)
    PROVE  PexInv'
<1>1. /\ pex \in [Ends -> UtPex] /\ open /\ UNCHANGED <<known, sent, open>>
      /\ members \in [Ends -> SUBSET Addresses] /\ crossed \in [Ends -> SUBSET Addresses]
      /\ p \in Addresses
  BY DEF PexInv, PexType, Connect, Disconnect, Addresses, Ends
<1>2. UtPex' = UtPex /\ Message' = Message /\ Addresses' = Addresses
  BY <1>1 DEF UtPex, Message, Addresses
<1> DEFINE x == pex[e]
<1>3. /\ x.localAdded \in Lists(Addresses) /\ x.localDropped \in Lists(Addresses)
      /\ AddPeer(x, p) = [x EXCEPT !.localDropped = RemoveFirst(x.localDropped, p),
                                   !.localAdded = Keyed(x.localAdded, p)]
      /\ DropPeer(x, p) = [x EXCEPT !.localAdded = RemoveFirst(x.localAdded, p),
                                    !.localDropped = Keyed(x.localDropped, p)]
  BY <1>1 DEF UtPex, AddPeer, DropPeer
<1>4. /\ AddPeer(x, p) \in UtPex /\ DropPeer(x, p) \in UtPex
      /\ AddPeer(x, p) = [x EXCEPT !.localAdded = AddPeer(x, p).localAdded,
                                   !.localDropped = AddPeer(x, p).localDropped]
      /\ DropPeer(x, p) = [x EXCEPT !.localAdded = DropPeer(x, p).localAdded,
                                    !.localDropped = DropPeer(x, p).localDropped]
      /\ ToSet(AddPeer(x, p).localAdded) = ToSet(x.localAdded) \cup {p}
      /\ ToSet(AddPeer(x, p).localDropped) = ToSet(x.localDropped) \ {p}
      /\ ToSet(DropPeer(x, p).localAdded) = ToSet(x.localAdded) \ {p}
      /\ ToSet(DropPeer(x, p).localDropped) = ToSet(x.localDropped) \cup {p}
  <2>1. /\ Keyed(x.localAdded, p) \in Lists(Addresses)
        /\ Keyed(x.localDropped, p) \in Lists(Addresses)
        /\ ToSet(Keyed(x.localAdded, p)) = ToSet(x.localAdded) \cup {p}
        /\ ToSet(Keyed(x.localDropped, p)) = ToSet(x.localDropped) \cup {p}
    BY <1>1, <1>3, KeyedAdds
  <2>2. /\ RemoveFirst(x.localAdded, p) \in Lists(Addresses)
        /\ RemoveFirst(x.localDropped, p) \in Lists(Addresses)
        /\ ToSet(RemoveFirst(x.localAdded, p)) = ToSet(x.localAdded) \ {p}
        /\ ToSet(RemoveFirst(x.localDropped, p)) = ToSet(x.localDropped) \ {p}
    BY <1>3, RemoveRemoves
  <2>3. x \in UtPex
    BY <1>1
  <2> HIDE DEF x
  <2>. QED
    BY <1>3, <2>1, <2>2, <2>3 DEF UtPex
<1>5. PICK y \in UtPex :
        /\ pex' = [pex EXCEPT ![e] = y]
        /\ y = [x EXCEPT !.localAdded = y.localAdded, !.localDropped = y.localDropped]
        /\ \/ y = x /\ crossed' = [crossed EXCEPT ![e] = @ \cup {p}]
           \/ /\ crossed' = [crossed EXCEPT ![e] = @ \ {p}]
              /\ \/ /\ p \notin members[e] /\ members' = [members EXCEPT ![e] = @ \cup {p}]
                    /\ ToSet(y.localAdded) = ToSet(x.localAdded) \cup {p}
                    /\ ToSet(y.localDropped) = ToSet(x.localDropped) \ {p}
                 \/ /\ members' = [members EXCEPT ![e] = @ \ {p}]
                    /\ ToSet(y.localAdded) = ToSet(x.localAdded) \ {p}
                    /\ ToSet(y.localDropped) = ToSet(x.localDropped) \cup {p}
        /\ \E m \in SUBSET Addresses :
              m \ {p} = members[e] \ {p} /\ members' = [members EXCEPT ![e] = m]
  <2>1. CASE Connect(e, p) /\ p \in x.remoteAdded
    <3>1. /\ pex' = [pex EXCEPT ![e] = x] /\ x \in UtPex
          /\ crossed' = [crossed EXCEPT ![e] = @ \cup {p}]
          /\ members' = [members EXCEPT ![e] = members[e] \cup {p}]
          /\ x = [x EXCEPT !.localAdded = x.localAdded, !.localDropped = x.localDropped]
      BY <1>1, <2>1 DEF Connect, UtPex
    <3>2. members[e] \cup {p} \in SUBSET Addresses
      BY <1>1
    <3>. QED
      BY <3>1, <3>2
  <2>2. CASE Connect(e, p) /\ p \notin x.remoteAdded
    <3>1. /\ pex' = [pex EXCEPT ![e] = AddPeer(x, p)] /\ p \notin members[e]
          /\ crossed' = [crossed EXCEPT ![e] = @ \ {p}]
          /\ members' = [members EXCEPT ![e] = members[e] \cup {p}]
      BY <1>1, <2>2 DEF Connect
    <3>2. members[e] \cup {p} \in SUBSET Addresses
      BY <1>1
    <3>. QED
      BY <1>4, <3>1, <3>2
  <2>3. CASE Disconnect(e, p) /\ p \in x.remoteDropped
    <3>1. /\ pex' = [pex EXCEPT ![e] = x] /\ x \in UtPex
          /\ crossed' = [crossed EXCEPT ![e] = @ \cup {p}]
          /\ members' = [members EXCEPT ![e] = members[e] \ {p}]
          /\ x = [x EXCEPT !.localAdded = x.localAdded, !.localDropped = x.localDropped]
      BY <1>1, <2>3 DEF Disconnect, UtPex
    <3>2. members[e] \ {p} \in SUBSET Addresses
      BY <1>1
    <3>. QED
      BY <3>1, <3>2
  <2>4. CASE Disconnect(e, p) /\ p \notin x.remoteDropped
    <3>1. /\ pex' = [pex EXCEPT ![e] = DropPeer(x, p)]
          /\ crossed' = [crossed EXCEPT ![e] = @ \ {p}]
          /\ members' = [members EXCEPT ![e] = members[e] \ {p}]
      BY <1>1, <2>4 DEF Disconnect
    <3>2. members[e] \ {p} \in SUBSET Addresses
      BY <1>1
    <3>. QED
      BY <1>4, <3>1, <3>2
  <2>. QED
    BY <2>1, <2>2, <2>3, <2>4
<1>6. /\ pex'[e] = y /\ \A f \in Ends \ {e} : pex'[f] = pex[f]
      /\ y.remoteAdded = x.remoteAdded /\ y.since = x.since /\ y.timer = x.timer
  BY <1>1, <1>5 DEF UtPex
<1>7. /\ \A f \in Ends : /\ pex'[f].remoteAdded = pex[f].remoteAdded
                         /\ pex'[f].since = pex[f].since /\ pex'[f].timer = pex[f].timer
  BY <1>6
<1>8. PexType'
  <2>1. crossed' \in [Ends -> SUBSET Addresses] /\ members' \in [Ends -> SUBSET Addresses]
    BY <1>1, <1>5
  <2>2. pex' \in [Ends -> UtPex]
    BY <1>1, <1>5
  <2>. QED
    BY <1>1, <1>2, <2>1, <2>2 DEF PexInv, PexType
<1>9. SentBefore' /\ Paced'
  BY <1>1, <1>7, OtherEnd DEF PexInv, SentBefore, Paced
<1>10. /\ \A f \in Ends \ {e} : ToAdd(f)' = ToAdd(f) /\ ToDrop(f)' = ToDrop(f)
       /\ \A f \in Ends : /\ SentAdded(f)' = SentAdded(f) /\ SentDropped(f)' = SentDropped(f)
                          /\ pex'[Other(f)].remoteAdded = pex[Other(f)].remoteAdded
       /\ ToAdd(e)' = ToSet(y.localAdded) /\ ToDrop(e)' = ToSet(y.localDropped)
  BY <1>1, <1>6, <1>7, OtherEnd DEF ToAdd, ToDrop, SentAdded, SentDropped
<1>11. \/ ToAdd(e)' = ToAdd(e) /\ ToDrop(e)' = ToDrop(e) /\ crossed'[e] = crossed[e] \cup {p}
       \/ /\ ToAdd(e)' = ToAdd(e) \cup {p} /\ ToDrop(e)' = ToDrop(e) \ {p}
          /\ crossed'[e] = crossed[e] \ {p} /\ p \in members'[e]
       \/ /\ ToAdd(e)' = ToAdd(e) \ {p} /\ ToDrop(e)' = ToDrop(e) \cup {p}
          /\ crossed'[e] = crossed[e] \ {p} /\ p \notin members'[e]
  BY <1>1, <1>5, <1>10 DEF ToAdd, ToDrop
<1>12. AddOrDrop'
  BY <1>10, <1>11 DEF PexInv, AddOrDrop
<1>13. /\ \A f \in Ends \ {e} : /\ members'[f] = members[f] /\ crossed'[f] = crossed[f]
                                /\ WillKnow(f)' = WillKnow(f)
       /\ members'[e] \ {p} = members[e] \ {p}
  <2>1. /\ \A f \in Ends \ {e} : members'[f] = members[f] /\ crossed'[f] = crossed[f]
        /\ members'[e] \ {p} = members[e] \ {p}
    BY <1>1, <1>5
  <2>. QED
    BY <1>10, <2>1 DEF WillKnow
<1>14. TruthTold'
  <2> SUFFICES ASSUME NEW f \in Ends, NEW q \in known[f] \ crossed'[f]
               PROVE  q \in WillKnow(f)' <=> q \in members'[f]
    BY <1>1 DEF TruthTold
  <2>1. CASE f # e
    BY <1>1, <1>13, <2>1 DEF PexInv, TruthTold
  <2>2. CASE f = e /\ q = p
    BY <1>5, <1>11, <2>2 DEF WillKnow
  <2>3. CASE f = e /\ q # p
    <3>1. q \in known[e] \ crossed[e]
      BY <1>11, <2>3
    <3>2. q \in WillKnow(e) <=> q \in members[e]
      BY <1>1, <3>1 DEF PexInv, TruthTold
    <3>3. q \in ToAdd(e)' <=> q \in ToAdd(e)
      BY <1>11, <2>3
    <3>4. q \in ToDrop(e)' <=> q \in ToDrop(e)
      BY <1>11, <2>3
    <3>5. q \in WillKnow(e)' <=> q \in WillKnow(e)
      BY <1>10, <3>3, <3>4 DEF WillKnow
    <3>. QED
      BY <1>13, <2>3, <3>2, <3>5
  <2>. QED
    BY <2>1, <2>2, <2>3
<1>. QED
  BY <1>8, <1>9, <1>12, <1>14 DEF PexInv

(* The interval is over: the last message has come.                        *)
LEMMA SendStep ==
    ASSUME PexInv, NEW e \in Ends, SendMessage(e)
    PROVE  PexInv'
<1>0. /\ Interval \in Nat /\ MinInterval \in Nat /\ MaxDelay \in Nat /\ MaxDelay < Interval
  BY PexAssumption
<1> DEFINE x == pex[e]
           y == [x EXCEPT !.timer = Interval, !.localAdded = Rest(x.localAdded),
                          !.localDropped = Rest(x.localDropped)]
           m == [added |-> Batch(x.localAdded), dropped |-> Batch(x.localDropped), age |-> 0]
<1>1. /\ pex \in [Ends -> UtPex] /\ open /\ UNCHANGED <<known, open, members, crossed>>
      /\ sent \in [Ends -> {<< >>} \cup {<<n>> : n \in Message}]
      /\ x \in UtPex /\ x.timer = 0 /\ pex' = [pex EXCEPT ![e] = y]
  BY DEF PexInv, PexType, SendMessage
<1>2. UtPex' = UtPex /\ Message' = Message /\ Addresses' = Addresses
  BY <1>1 DEF UtPex, Message, Addresses
<1>3. /\ Batch(x.localAdded) \in Seq(Addresses) /\ Rest(x.localAdded) \in Lists(Addresses)
      /\ ToSet(x.localAdded) = ToSet(Batch(x.localAdded)) \cup ToSet(Rest(x.localAdded))
      /\ Batch(x.localDropped) \in Seq(Addresses) /\ Rest(x.localDropped) \in Lists(Addresses)
      /\ ToSet(x.localDropped) = ToSet(Batch(x.localDropped)) \cup ToSet(Rest(x.localDropped))
  BY <1>1, BatchSplits DEF UtPex
<1>4. sent[e] = << >>
  <2>1. SUFFICES ASSUME NEW n \in Message, sent[e] = <<n>> PROVE FALSE
    BY <1>1
  <2>2. sent[e] # << >> /\ sent[e][1] = n /\ x.timer # Off
    BY <1>1, <2>1 DEF Off
  <2>3. n.age + x.timer >= Interval
    BY <2>2 DEF PexInv, SentBefore
  <2>. QED
    BY <1>0, <1>1, <2>3 DEF Message
<1>5. m \in Message /\ y \in UtPex
  <2> DEFINE ra == Rest(x.localAdded)
             rd == Rest(x.localDropped)
  <2>1. m \in Message
    BY <1>0, <1>3 DEF Message
  <2>2. y = [x EXCEPT !.timer = Interval, !.localAdded = ra, !.localDropped = rd]
    OBVIOUS
  <2>3. ra \in Lists(Addresses) /\ rd \in Lists(Addresses) /\ Interval \in {Off} \cup 0 .. Interval
    BY <1>0, <1>3
  <2>4. x \in UtPex
    BY <1>1
  <2> HIDE DEF ra, rd, x, y
  <2>5. y \in UtPex
    BY <2>2, <2>3, <2>4 DEF UtPex
  <2>. QED
    BY <2>1, <2>5
<1>6. /\ pex'[e] = y /\ \A f \in Ends \ {e} : pex'[f] = pex[f]
      /\ y.remoteAdded = x.remoteAdded /\ y.since = x.since /\ y.timer = Interval
      /\ y.localAdded = Rest(x.localAdded) /\ y.localDropped = Rest(x.localDropped)
  BY <1>1, <1>5 DEF UtPex
<1>7. /\ \A f \in Ends \ {e} : sent'[f] = sent[f]
      /\ \/ sent'[e] = <<m>>
         \/ sent'[e] = << >> /\ x.localAdded = << >> /\ x.localDropped = << >>
      /\ sent' \in [Ends -> {<< >>} \cup {<<n>> : n \in Message}]
  <2>1. CASE x.localAdded = <<>> /\ x.localDropped = <<>>
    BY <1>1, <1>4, <2>1 DEF SendMessage
  <2>2. CASE ~(x.localAdded = <<>> /\ x.localDropped = <<>>)
    <3>1. sent' = [sent EXCEPT ![e] = Append(sent[e], m)]
      BY <2>2 DEF SendMessage
    <3>2. sent' = [sent EXCEPT ![e] = <<m>>]
      BY <1>4, <3>1
    <3> HIDE DEF m
    <3>. QED
      BY <1>1, <1>5, <3>2
  <2>. QED
    BY <2>1, <2>2
<1>8. PexType'
  <2>1. pex' \in [Ends -> UtPex]
    BY <1>1, <1>5
  <2>. QED
    BY <1>1, <1>2, <1>7, <2>1 DEF PexInv, PexType
<1>9. SentBefore'
  <2> SUFFICES ASSUME NEW f \in Ends, sent'[f] # << >>, pex'[f].timer # Off
               PROVE  sent'[f][1].age + pex'[f].timer >= Interval
    BY DEF SentBefore
  <2>1. CASE f = e
    <3>1. sent'[e][1].age = 0 /\ pex'[e].timer = Interval
      BY <1>6, <1>7, <2>1
    <3>. QED
      BY <1>0, <2>1, <3>1
  <2>2. CASE f # e
    BY <1>6, <1>7, <2>2 DEF PexInv, SentBefore
  <2>. QED
    BY <2>1, <2>2
<1>10. Paced'
  <2> SUFFICES ASSUME Interval >= MinInterval + MaxDelay
               PROVE  /\ open'
                      /\ \A f \in Ends :
                            /\ sent'[f] # << >> => pex'[Other(f)].since = MinInterval
                            /\ sent'[f] = << >> /\ pex'[f].timer # Off =>
                                  \/ pex'[Other(f)].since = MinInterval
                                  \/ pex'[Other(f)].since + MaxDelay + pex'[f].timer >= Interval
    BY DEF Paced
  <2>1. \A f \in Ends : pex'[f].since = pex[f].since /\ pex[f].since \in 0 .. MinInterval
    BY <1>1, <1>6 DEF UtPex
  <2>2. pex[Other(e)].since = MinInterval
    <3>1. \/ pex[Other(e)].since = MinInterval
          \/ pex[Other(e)].since + MaxDelay + x.timer >= Interval
      BY <1>1, <1>4 DEF PexInv, Paced, Off
    <3>2. Other(e) \in Ends
      BY OtherEnd
    <3>. QED
      BY <1>0, <1>1, <2>1, <3>1, <3>2
  <2>3. ASSUME NEW f \in Ends, f # e
        PROVE  /\ sent'[f] # << >> => pex'[Other(f)].since = MinInterval
               /\ sent'[f] = << >> /\ pex'[f].timer # Off =>
                     \/ pex'[Other(f)].since = MinInterval
                     \/ pex'[Other(f)].since + MaxDelay + pex'[f].timer >= Interval
    <3>1. sent'[f] = sent[f] /\ pex'[f] = pex[f] /\ pex'[Other(f)].since = pex[Other(f)].since
      BY <1>6, <1>7, <2>1, <2>3, OtherEnd
    <3>. QED
      BY <3>1 DEF PexInv, Paced
  <2>. QED
    BY <1>1, <2>1, <2>2, <2>3, OtherEnd
<1>11. /\ \A f \in Ends \ {e} : /\ ToAdd(f)' = ToAdd(f) /\ ToDrop(f)' = ToDrop(f)
                                /\ SentAdded(f)' = SentAdded(f) /\ SentDropped(f)' = SentDropped(f)
       /\ \A f \in Ends : pex'[Other(f)].remoteAdded = pex[Other(f)].remoteAdded
       /\ ToAdd(e)' = ToSet(Rest(x.localAdded)) /\ ToDrop(e)' = ToSet(Rest(x.localDropped))
       /\ SentAdded(e) = {} /\ SentDropped(e) = {}
  BY <1>4, <1>6, <1>7, OtherEnd DEF ToAdd, ToDrop, SentAdded, SentDropped
<1>12. /\ ToAdd(e) = ToAdd(e)' \cup SentAdded(e)' /\ ToDrop(e) = ToDrop(e)' \cup SentDropped(e)'
  <2>1. CASE sent'[e] = <<m>>
    <3>1. SentAdded(e)' = ToSet(m.added) /\ SentDropped(e)' = ToSet(m.dropped)
      BY <2>1 DEF SentAdded, SentDropped
    <3>. QED
      BY <1>3, <1>11, <3>1 DEF ToAdd, ToDrop
  <2>2. CASE sent'[e] = << >> /\ x.localAdded = << >> /\ x.localDropped = << >>
    <3>1. ToAdd(e) = {} /\ ToDrop(e) = {} /\ SentAdded(e)' = {} /\ SentDropped(e)' = {}
      BY <2>2 DEF ToAdd, ToDrop, SentAdded, SentDropped, ToSet
    <3>. QED
      BY <1>3, <1>11, <3>1 DEF ToAdd, ToDrop
  <2>. QED
    BY <1>7, <2>1, <2>2
<1>13. AddOrDrop'
  BY <1>11, <1>12 DEF PexInv, AddOrDrop
<1>14. \A f \in Ends : WillKnow(f)' = WillKnow(f)
  <2>1. \A f \in Ends \ {e} : WillKnow(f)' = WillKnow(f)
    BY <1>11 DEF WillKnow
  <2>2. ToAdd(e) \cap ToDrop(e) = {}
    BY DEF PexInv, AddOrDrop
  <2>3. WillKnow(e)' = WillKnow(e)
    BY <1>11, <1>12, <2>2 DEF WillKnow
  <2>. QED
    BY <2>1, <2>3
<1>15. TruthTold'
  BY <1>1, <1>14 DEF PexInv, TruthTold
<1>. QED
  BY <1>8, <1>9, <1>10, <1>13, <1>15 DEF PexInv

(* A message comes; or it comes too soon, and the wire is closed.          *)
LEMMA ReceiveStep ==
    ASSUME PexInv, NEW e \in Ends, OnMessage(e)
    PROVE  PexInv'
<1>0. /\ Interval \in Nat /\ MinInterval \in Nat /\ MaxDelay \in Nat /\ MaxDelay < Interval
  BY PexAssumption
<1> DEFINE o == Other(e)
<1>1. /\ pex \in [Ends -> UtPex] /\ open /\ UNCHANGED <<known, members, crossed>>
      /\ sent \in [Ends -> {<< >>} \cup {<<n>> : n \in Message}]
      /\ o \in Ends /\ o # e /\ Other(o) = e /\ Ends = {e, o} /\ sent[o] # << >>
  BY OtherEnd DEF PexInv, PexType, OnMessage, Ends
<1>2. UtPex' = UtPex /\ Message' = Message /\ Addresses' = Addresses
  BY <1>1 DEF UtPex, Message, Addresses
<1>3. CASE pex[e].since < MinInterval
  <2>1. /\ open' = FALSE /\ pex' = [d \in Ends |-> Reset(pex[d])] /\ sent' = [d \in Ends |-> <<>>]
    BY <1>3 DEF OnMessage
  <2>2. << >> \in Lists(Addresses) /\ ToSet(<< >>) = {}
    BY DEF Lists, NoDup, ToSet
  <2>3. \A d \in Ends : /\ Reset(pex[d]) \in UtPex
                        /\ Reset(pex[d]).localAdded = << >> /\ Reset(pex[d]).localDropped = << >>
    BY <1>0, <1>1, <2>2 DEF Reset, NewPex, UtPex
  <2>4. PexType'
    BY <1>1, <1>2, <2>1, <2>3 DEF PexInv, PexType
  <2>5. SentBefore' /\ AddOrDrop' /\ TruthTold'
    BY <2>1, <2>2, <2>3 DEF SentBefore, AddOrDrop, TruthTold, ToAdd, ToDrop, SentAdded, SentDropped
  <2>6. Paced'
    <3>1. ~(Interval >= MinInterval + MaxDelay)
      <4>1. SUFFICES ASSUME Interval >= MinInterval + MaxDelay PROVE FALSE
        OBVIOUS
      <4>2. pex[e].since = MinInterval
        BY <1>1, <4>1 DEF PexInv, Paced
      <4>. QED
        BY <1>0, <1>3, <4>2
    <3>. QED
      BY <3>1 DEF Paced
  <2>. QED
    BY <2>4, <2>5, <2>6 DEF PexInv
<1>4. CASE ~(pex[e].since < MinInterval)
  <2>1. PICK m \in Message : sent[o] = <<m>>
    BY <1>1
  <2> DEFINE y == Told(pex[e], m)
  <2>2. Head(sent[o]) = m /\ Tail(sent[o]) = << >> /\ sent[o][1] = m
    BY <2>1
  <2>3. pex' = [pex EXCEPT ![e] = y] /\ sent' = [sent EXCEPT ![o] = << >>] /\ open' = open
    BY <1>4, <2>2 DEF OnMessage
  <2>4. ToSet(m.added) \subseteq Addresses /\ ToSet(m.dropped) \subseteq Addresses
    BY DEF Message, ToSet
  <2>5. /\ y = [pex[e] EXCEPT !.since = 0,
                   !.remoteAdded = (pex[e].remoteAdded \cup ToSet(m.added)) \ ToSet(m.dropped),
                   !.remoteDropped = (pex[e].remoteDropped \ ToSet(m.added)) \cup ToSet(m.dropped)]
    BY DEF Told
  <2>6. /\ y \in UtPex /\ y.localAdded = pex[e].localAdded /\ y.localDropped = pex[e].localDropped
        /\ y.timer = pex[e].timer /\ y.since = 0
        /\ y.remoteAdded = (pex[e].remoteAdded \cup ToSet(m.added)) \ ToSet(m.dropped)
    <3> DEFINE x == pex[e]
               added == ToSet(m.added)
               dropped == ToSet(m.dropped)
    <3>1. /\ x \in UtPex /\ added \subseteq Addresses /\ dropped \subseteq Addresses
          /\ 0 \in 0 .. MinInterval
          /\ y = [x EXCEPT !.since = 0, !.remoteAdded = (x.remoteAdded \cup added) \ dropped,
                           !.remoteDropped = (x.remoteDropped \ added) \cup dropped]
      BY <1>0, <1>1, <2>4, <2>5
    <3> HIDE DEF x, added, dropped, y
    <3>2. /\ y \in UtPex /\ y.localAdded = x.localAdded /\ y.localDropped = x.localDropped
          /\ y.timer = x.timer /\ y.since = 0
          /\ y.remoteAdded = (x.remoteAdded \cup added) \ dropped
      BY <3>1 DEF UtPex
    <3>. QED
      BY <3>2 DEF x, added, dropped
  <2> HIDE DEF y
  <2>7. pex'[e] = y /\ pex'[o] = pex[o] /\ sent'[o] = << >> /\ sent'[e] = sent[e]
    BY <1>1, <2>3
  <2>8. PexType'
    BY <1>1, <1>2, <2>3, <2>6 DEF PexInv, PexType
  <2>9. SentBefore'
    BY <1>1, <2>6, <2>7 DEF PexInv, SentBefore
  <2>10. /\ \A f \in Ends : ToAdd(f)' = ToAdd(f) /\ ToDrop(f)' = ToDrop(f)
         /\ SentAdded(o)' = {} /\ SentDropped(o)' = {}
         /\ SentAdded(e)' = SentAdded(e) /\ SentDropped(e)' = SentDropped(e)
         /\ SentAdded(o) = ToSet(m.added) /\ SentDropped(o) = ToSet(m.dropped)
    BY <1>1, <2>2, <2>6, <2>7 DEF ToAdd, ToDrop, SentAdded, SentDropped
  <2>11. AddOrDrop'
    BY <1>1, <2>10 DEF PexInv, AddOrDrop
  <2>12. WillKnow(e)' = WillKnow(e)
    BY <1>1, <2>7, <2>10 DEF WillKnow
  <2>13. WillKnow(o)' = WillKnow(o)
    BY <1>1, <2>6, <2>7, <2>10 DEF WillKnow
  <2>14. TruthTold'
    BY <1>1, <2>3, <2>12, <2>13 DEF PexInv, TruthTold
  <2>15. Paced'
    <3> SUFFICES ASSUME Interval >= MinInterval + MaxDelay
                 PROVE  /\ open'
                        /\ \A f \in Ends :
                              /\ sent'[f] # << >> => pex'[Other(f)].since = MinInterval
                              /\ sent'[f] = << >> /\ pex'[f].timer # Off =>
                                    \/ pex'[Other(f)].since = MinInterval
                                    \/ pex'[Other(f)].since + MaxDelay + pex'[f].timer >= Interval
      BY DEF Paced
    <3>1. pex[o].timer # Off => m.age + pex[o].timer >= Interval
      BY <1>1, <2>2 DEF PexInv, SentBefore
    <3>2. m.age \in 0 .. MaxDelay /\ pex[o].timer \in {Off} \cup 0 .. Interval
      BY <1>1 DEF Message, UtPex
    <3>3. pex'[o].timer # Off => pex'[e].since + MaxDelay + pex'[o].timer >= Interval
      BY <1>0, <2>6, <2>7, <3>1, <3>2
    <3>4. /\ sent'[e] # << >> => pex'[o].since = MinInterval
          /\ sent'[e] = << >> /\ pex'[e].timer # Off =>
                \/ pex'[o].since = MinInterval
                \/ pex'[o].since + MaxDelay + pex'[e].timer >= Interval
      BY <1>1, <2>6, <2>7 DEF PexInv, Paced
    <3>. QED
      BY <1>1, <2>3, <2>7, <3>3, <3>4
  <2>. QED
    BY <2>8, <2>9, <2>11, <2>14, <2>15 DEF PexInv
<1>. QED
  BY <1>3, <1>4

(* A tick, for which nothing is due.                                       *)
LEMMA TickStep ==
    ASSUME PexInv, Tick
    PROVE  PexInv'
<1>0. /\ Interval \in Nat /\ MinInterval \in Nat /\ MaxDelay \in Nat /\ MaxDelay < Interval
  BY PexAssumption
<1>1. /\ pex \in [Ends -> UtPex] /\ open /\ UNCHANGED <<known, open, members, crossed>>
      /\ sent \in [Ends -> {<< >>} \cup {<<n>> : n \in Message}]
      /\ \A e \in Ends : pex[e].timer # 0
      /\ \A e \in Ends : \A i \in DOMAIN sent[e] : sent[e][i].age < MaxDelay
  BY DEF PexInv, PexType, Tick
<1>2. UtPex' = UtPex /\ Message' = Message /\ Addresses' = Addresses
  BY <1>1 DEF UtPex, Message, Addresses
<1> DEFINE y(x) == [x EXCEPT !.timer = IF x.timer = Off THEN Off ELSE x.timer - 1,
                             !.since = IF x.since < MinInterval THEN x.since + 1 ELSE x.since]
           older(m) == [m EXCEPT !.age = m.age + 1]
<1>3. ASSUME NEW x \in UtPex, x.timer # 0
      PROVE  /\ y(x) \in UtPex /\ y(x).localAdded = x.localAdded
             /\ y(x).localDropped = x.localDropped /\ y(x).remoteAdded = x.remoteAdded
             /\ y(x).timer = (IF x.timer = Off THEN Off ELSE x.timer - 1)
             /\ y(x).since = (IF x.since < MinInterval THEN x.since + 1 ELSE x.since)
  <2>1. /\ (IF x.timer = Off THEN Off ELSE x.timer - 1) \in {Off} \cup 0 .. Interval
        /\ (IF x.since < MinInterval THEN x.since + 1 ELSE x.since) \in 0 .. MinInterval
    BY <1>0, <1>3 DEF UtPex, Off
  <2>. QED
    BY <2>1 DEF UtPex
<1>4. \A e \in Ends : pex'[e] = y(pex[e])
  BY DEF Tick
<1>5. pex' \in [Ends -> UtPex]
  <2>1. pex' = [e \in Ends |-> y(pex[e])]
    BY DEF Tick
  <2> HIDE DEF y
  <2>. QED
    BY <1>1, <1>3, <2>1
<1>6. ASSUME NEW e \in Ends, sent[e] = << >> PROVE sent'[e] = << >>
  <2>1. sent'[e] = [i \in DOMAIN sent[e] |-> [sent[e][i] EXCEPT !.age = @ + 1]]
    BY DEF Tick
  <2>2. DOMAIN sent[e] = {}
    BY <1>6
  <2>3. sent'[e] = [i \in {} |-> [sent[e][i] EXCEPT !.age = @ + 1]]
    BY <2>1, <2>2
  <2>4. sent'[e] \in Seq({}) /\ Len(sent'[e]) = 0
    <3>1. 1 .. 0 = {}
      OBVIOUS
    <3>2. sent'[e] \in [1 .. 0 -> {}]
      BY <2>3, <3>1
    <3>. QED
      BY <3>2
  <2>. QED
    BY <2>4
<1>7. ASSUME NEW e \in Ends, NEW m \in Message, sent[e] = <<m>>
      PROVE  /\ sent'[e] = <<older(m)>> /\ older(m) \in Message
             /\ older(m).age = m.age + 1
             /\ older(m).added = m.added /\ older(m).dropped = m.dropped
  <2>1. m.age < MaxDelay
    BY <1>1, <1>7
  <2>2. sent'[e] = [i \in DOMAIN sent[e] |-> [sent[e][i] EXCEPT !.age = @ + 1]]
    BY DEF Tick
  <2>3. DOMAIN sent[e] = 1 .. 1 /\ sent[e][1] = m
    BY <1>7
  <2>4. sent'[e] = [i \in 1 .. 1 |-> older(m)]
    BY <2>2, <2>3
  <2>5. sent'[e] = <<older(m)>>
    BY <2>4
  <2>6. m.age + 1 \in 0 .. MaxDelay
    BY <1>0, <2>1 DEF Message
  <2>. QED
    BY <2>5, <2>6 DEF Message
<1> HIDE DEF y, older
<1>8. PexType'
  <2>1. \A e \in Ends : sent'[e] \in {<< >>} \cup {<<n>> : n \in Message}
    BY <1>1, <1>6, <1>7
  <2>2. sent' \in [Ends -> {<< >>} \cup {<<n>> : n \in Message}]
    <3>1. sent' = [e \in Ends |-> sent'[e]]
      BY DEF Tick
    <3>. QED
      BY <2>1, <3>1
  <2>. QED
    BY <1>1, <1>2, <1>5, <2>2 DEF PexInv, PexType
<1>9. \A e \in Ends : /\ pex'[e].localAdded = pex[e].localAdded
                      /\ pex'[e].localDropped = pex[e].localDropped
                      /\ pex'[e].remoteAdded = pex[e].remoteAdded
                      /\ pex'[e].timer = (IF pex[e].timer = Off THEN Off ELSE pex[e].timer - 1)
                      /\ pex'[e].since = (IF pex[e].since < MinInterval THEN pex[e].since + 1
                                          ELSE pex[e].since)
                      /\ pex[e].timer \in {Off} \cup 1 .. Interval /\ pex[e].since \in 0 .. MinInterval
  <2>1. \A e \in Ends : /\ pex[e] \in UtPex /\ pex[e].timer # 0
                        /\ pex[e].timer \in {Off} \cup 0 .. Interval /\ pex[e].since \in 0 .. MinInterval
    BY <1>1 DEF UtPex
  <2>2. \A e \in Ends : pex[e].timer \in {Off} \cup 1 .. Interval
    BY <1>0, <2>1
  <2>. QED
    BY <1>3, <1>4, <2>1, <2>2
<1>10. SentBefore'
  <2> SUFFICES ASSUME NEW e \in Ends, sent'[e] # << >>, pex'[e].timer # Off
               PROVE  sent'[e][1].age + pex'[e].timer >= Interval
    BY DEF SentBefore
  <2>1. PICK m \in Message : sent[e] = <<m>>
    BY <1>1, <1>6
  <2>2. sent'[e][1].age = m.age + 1 /\ m.age \in 0 .. MaxDelay /\ sent[e][1] = m
    BY <1>7, <2>1 DEF Message
  <2>3. pex[e].timer # Off /\ pex'[e].timer = pex[e].timer - 1 /\ pex[e].timer \in 1 .. Interval
    BY <1>9
  <2>4. m.age + pex[e].timer >= Interval
    <3>1. sent[e] # << >> /\ sent[e][1].age = m.age
      BY <2>1, <2>2
    <3>2. sent[e] # << >> /\ pex[e].timer # Off => sent[e][1].age + pex[e].timer >= Interval
      BY DEF PexInv, SentBefore
    <3>. QED
      BY <2>3, <3>1, <3>2
  <2>. QED
    BY <1>0, <2>2, <2>3, <2>4
<1>11. \A e \in Ends : /\ ToAdd(e)' = ToAdd(e) /\ ToDrop(e)' = ToDrop(e)
                       /\ SentAdded(e)' = SentAdded(e) /\ SentDropped(e)' = SentDropped(e)
  <2> SUFFICES ASSUME NEW e \in Ends
               PROVE  /\ ToAdd(e)' = ToAdd(e) /\ ToDrop(e)' = ToDrop(e)
                      /\ SentAdded(e)' = SentAdded(e) /\ SentDropped(e)' = SentDropped(e)
    OBVIOUS
  <2>1. ToAdd(e)' = ToAdd(e) /\ ToDrop(e)' = ToDrop(e)
    BY <1>9 DEF ToAdd, ToDrop
  <2>2. CASE sent[e] = << >>
    BY <1>6, <2>1, <2>2 DEF SentAdded, SentDropped
  <2>3. ASSUME NEW m \in Message, sent[e] = <<m>>
        PROVE  SentAdded(e)' = SentAdded(e) /\ SentDropped(e)' = SentDropped(e)
    BY <1>7, <2>3 DEF SentAdded, SentDropped
  <2>. QED
    BY <1>1, <2>1, <2>2, <2>3
<1>12. AddOrDrop'
  BY <1>11 DEF PexInv, AddOrDrop
<1>13. TruthTold'
  <2>1. \A e \in Ends : WillKnow(e)' = WillKnow(e)
    BY <1>9, <1>11, OtherEnd DEF WillKnow
  <2>. QED
    BY <1>1, <2>1 DEF PexInv, TruthTold
<1>14. Paced'
  <2> SUFFICES ASSUME Interval >= MinInterval + MaxDelay, NEW e \in Ends
               PROVE  /\ sent'[e] # << >> => pex'[Other(e)].since = MinInterval
                      /\ sent'[e] = << >> /\ pex'[e].timer # Off =>
                            \/ pex'[Other(e)].since = MinInterval
                            \/ pex'[Other(e)].since + MaxDelay + pex'[e].timer >= Interval
    BY <1>1 DEF Paced
  <2>1. /\ pex[Other(e)].since \in 0 .. MinInterval
        /\ pex'[Other(e)].since = (IF pex[Other(e)].since < MinInterval THEN pex[Other(e)].since + 1
                                   ELSE pex[Other(e)].since)
    BY <1>9, OtherEnd
  <2>2. sent'[e] = << >> <=> sent[e] = << >>
    BY <1>1, <1>6, <1>7
  <2>3. /\ sent[e] # << >> => pex[Other(e)].since = MinInterval
        /\ sent[e] = << >> /\ pex[e].timer # Off =>
              \/ pex[Other(e)].since = MinInterval
              \/ pex[Other(e)].since + MaxDelay + pex[e].timer >= Interval
    BY DEF PexInv, Paced
  <2>4. /\ pex'[e].timer = (IF pex[e].timer = Off THEN Off ELSE pex[e].timer - 1)
        /\ pex[e].timer \in {Off} \cup 1 .. Interval
    BY <1>9
  <2>. QED
    BY <1>0, <2>1, <2>2, <2>3, <2>4 DEF Off
<1>. QED
  BY <1>8, <1>10, <1>12, <1>13, <1>14 DEF PexInv

(* The two ends keep each other up to date and keep the wire.              *)
THEOREM AlwaysExchanged == PexSpec => []PeersExchanged
<1>1. PexInit => PexInv
  BY PexInitInv
<1>2. PexInv /\ [PexNext]_pexVars => PexInv'
  <2> SUFFICES ASSUME PexInv, [PexNext]_pexVars PROVE PexInv'
    OBVIOUS
  <2>1. CASE Tick
    BY <2>1, TickStep
  <2>2. CASE \E e \in Ends : Start(e) \/ Stop(e)
    BY <2>2, StartStopStep
  <2>3. CASE \E e \in Ends : SendMessage(e)
    BY <2>3, SendStep
  <2>4. CASE \E e \in Ends : OnMessage(e)
    BY <2>4, ReceiveStep
  <2>5. CASE \E e \in Ends : \E p \in known[e] : Connect(e, p) \/ Disconnect(e, p)
    BY <2>5, UserStep
  <2>6. CASE UNCHANGED pexVars
    BY <2>6 DEF pexVars, PexInv, PexType, SentBefore, AddOrDrop, TruthTold, Paced, ToAdd, ToDrop,
                SentAdded, SentDropped, WillKnow, UtPex, Message, Addresses
  <2>. QED
    BY <2>1, <2>2, <2>3, <2>4, <2>5, <2>6 DEF PexNext
<1>3. PexInv => PeersExchanged
  <2> SUFFICES ASSUME PexInv PROVE PeersExchanged
    OBVIOUS
  <2>1. Truthful
    BY LastWordIs DEF PexInv, AddOrDrop, TruthTold, Truthful, ToAdd, ToDrop
  <2>2. NeverTooOften
    BY DEF PexInv, Paced, NeverTooOften
  <2>. QED
    BY <2>1, <2>2 DEF PeersExchanged
<1>. QED
  BY <1>1, <1>2, <1>3, PTL DEF PexSpec
=============================================================================
