--------------------------- MODULE TorrentProofs ---------------------------
(* Theorems about Torrent, for every value of its constants, and what the  *)
(* methods of Piece return and preserve, for every piece size.  The second *)
(* half is about the blocks of the Piece objects: none is lost between the *)
(* peers but through the known causes (LossIsExplained is inductive        *)
(* relative to the invariant of the first half), a flushed piece is        *)
(* complete, and with peers only a block is asked of one peer at a time.   *)
EXTENDS Torrent, FiniteSetTheorems, SequenceTheorems, WellFoundedInduction, TLAPS

(* A new object is well formed and holds nothing.                          *)
LEMMA NewPieceType ==
    ASSUME NEW n \in Nat \ {0}, NEW id \in Nat \ {0}
    PROVE  NewPiece(id, n) \in PieceType(n)
<1>1. << >> \in Seq(0 .. n - 1)
  OBVIOUS
<1>. QED
  BY <1>1 DEF NewPiece, PieceType, None

(* The members of a cancellation stack are block numbers.                  *)
LEMMA MembersType ==
    ASSUME NEW n \in Nat, NEW s \in Seq(0 .. n - 1)
    PROVE  Members(s) \subseteq 0 .. n - 1
  BY ElementOfSeq DEF Members

(* reserve() hands out a block of the piece and leaves the object well     *)
(* formed.                                                                 *)
LEMMA ReserveType ==
    ASSUME NEW n \in Nat \ {0}, NEW pc \in PieceType(n), CanReserve(pc)
    PROVE  /\ ReservedBlock(pc) \in 0 .. n - 1
           /\ Reserve(pc) \in PieceType(n)
<1>. DEFINE s == pc.cancellations
<1>1. /\ s \in Seq(0 .. n - 1) /\ pc.reservations \in 0 .. n /\ pc.chunks = n
  BY DEF PieceType
<1>2. CASE s # << >>
  <2>1. Len(s) \in 1 .. Len(s)
    BY <1>1, <1>2, EmptySeq, LenProperties
  <2>2. s[Len(s)] \in 0 .. n - 1
    BY <1>1, <2>1, ElementOfSeq
  <2>3. SubSeq(s, 1, Len(s) - 1) \in Seq(0 .. n - 1)
    BY <1>1, <2>1, SubSeqProperties, LenProperties
  <2>. QED
    BY <1>1, <1>2, <2>2, <2>3 DEF ReservedBlock, Reserve, PieceType
<1>3. CASE s = << >>
  BY <1>1, <1>3 DEF CanReserve, ReservedBlock, Reserve, PieceType
<1>. QED
  BY <1>2, <1>3

(* reserveRemaining() starts the tail at a block of the piece, at or below *)
(* the mark and at or below every cancelled block.                         *)
LEMMA ReserveRemainingType ==
    ASSUME NEW n \in Nat \ {0}, NEW pc \in PieceType(n), CanReserve(pc)
    PROVE  /\ RemainingFrom(pc) \in 0 .. n - 1
           /\ RemainingFrom(pc) \in Members(pc.cancellations) \cup {pc.reservations}
           /\ \A c \in Members(pc.cancellations) \cup {pc.reservations} : RemainingFrom(pc) <= c
           /\ ReserveRemaining(pc) \in PieceType(n)
<1>. DEFINE open == Members(pc.cancellations) \cup {pc.reservations}
<1>1. /\ pc.cancellations \in Seq(0 .. n - 1)
      /\ pc.reservations \in 0 .. n
      /\ pc.chunks = n
  BY DEF PieceType
<1>2. Members(pc.cancellations) \subseteq 0 .. n - 1
  BY <1>1, MembersType
<1>3. /\ open \subseteq Nat
      /\ open # {}
  BY <1>1, <1>2
<1>4. \E b \in open : \A c \in open : b <= c
  <2>. DEFINE less == OpToRel(<, Nat)
  <2>1. IsWellFoundedOn(less, Nat)
    BY NatLessThanWellFounded
  <2>2. \A x, y \in Nat : <<y, x>> \in less <=> y < x
    BY DEF OpToRel
  <2>. HIDE DEF less, open
  <2>3. PICK x \in open : \A y \in open : <<y, x>> \notin less
    BY <1>3, <2>1, WFMin
  <2>4. ASSUME NEW c \in open PROVE x <= c
    <3>1. x \in Nat /\ c \in Nat
      BY <1>3
    <3>2. ~(c < x)
      BY <2>2, <2>3, <3>1
    <3>. QED
      BY <3>1, <3>2
  <2>. QED
    BY <2>4
<1>5. /\ RemainingFrom(pc) \in open
      /\ \A c \in open : RemainingFrom(pc) <= c
  BY <1>4 DEF RemainingFrom
<1>6. \E c \in open : c < n
  <2>1. CASE pc.cancellations # << >>
    <3>1. pc.cancellations[1] \in Members(pc.cancellations)
      BY <1>1, <2>1, EmptySeq, LenProperties DEF Members
    <3>. QED
      BY <3>1, <1>2
  <2>2. CASE pc.cancellations = << >>
    BY <2>2, <1>1 DEF CanReserve
  <2>. QED
    BY <2>1, <2>2
<1>7. RemainingFrom(pc) \in 0 .. n - 1
  BY <1>3, <1>5, <1>6
<1>8. ReserveRemaining(pc) \in PieceType(n)
  <2>1. << >> \in Seq(0 .. n - 1)
    OBVIOUS
  <2>2. pc.chunks \in 0 .. n
    BY <1>1
  <2>. QED
    BY <2>1, <2>2 DEF ReserveRemaining, PieceType
<1>. QED
  BY <1>5, <1>7, <1>8

(* cancel() and cancelRemaining() keep the object well formed.             *)
LEMMA CancelType ==
    ASSUME NEW n \in Nat \ {0}, NEW pc \in PieceType(n), NEW b \in 0 .. n - 1
    PROVE  /\ Cancel(pc, b) \in PieceType(n)
           /\ CancelRemaining(pc, b) \in PieceType(n)
<1>1. pc.cancellations \in Seq(0 .. n - 1)
  BY DEF PieceType
<1>2. Append(pc.cancellations, b) \in Seq(0 .. n - 1)
  BY <1>1, AppendProperties
<1>3. Cancel(pc, b) \in PieceType(n)
  BY <1>2 DEF Cancel, PieceType
<1>4. CancelRemaining(pc, b) \in PieceType(n)
  BY DEF CancelRemaining, PieceType
<1>. QED
  BY <1>3, <1>4

(* set() keeps the object well formed.                                     *)
LEMMA SetBlocksType ==
    ASSUME NEW n \in Nat \ {0}, NEW pc \in PieceType(n), NEW range \in SUBSET (0 .. n - 1),
           NEW data \in Content
    PROVE  SetBlocks(pc, range, data) \in PieceType(n)
<1>1. /\ Blocks(pc) = 0 .. n - 1
      /\ pc.buffered \in Nat
      /\ pc.buffer \in [0 .. n - 1 -> {None} \cup Content]
  BY DEF PieceType, Blocks
<1>2. Cardinality(Missing(pc, range)) \in Nat
  <2>1. IsFiniteSet(0 .. n - 1)
    BY FS_Interval
  <2>2. Missing(pc, range) \subseteq 0 .. n - 1
    BY DEF Missing
  <2>3. IsFiniteSet(Missing(pc, range))
    BY <2>1, <2>2, FS_Subset
  <2>. QED
    BY <2>3, FS_CardinalityType
<1>3. pc.buffered + Cardinality(Missing(pc, range)) \in Nat
  BY <1>1, <1>2
<1>4. [b \in Blocks(pc) |-> IF b \in Missing(pc, range) THEN data ELSE pc.buffer[b]]
        \in [0 .. n - 1 -> {None} \cup Content]
  BY <1>1
<1>. QED
  BY <1>3, <1>4 DEF SetBlocks, PieceType

(* flush() keeps the object well formed.                                   *)
LEMMA FlushType ==
    ASSUME NEW n \in Nat \ {0}, NEW pc \in PieceType(n)
    PROVE  Flush(pc) \in PieceType(n)
<1>1. << >> \in Seq(0 .. n - 1)
  OBVIOUS
<1>. QED
  BY <1>1 DEF Flush, PieceType

(* Pushing and popping a cancellation.                                     *)
LEMMA MembersAppend ==
    ASSUME NEW n \in Nat, NEW s \in Seq(0 .. n - 1), NEW b \in 0 .. n - 1
    PROVE  Members(Append(s, b)) = Members(s) \cup {b}
<1>1. /\ Len(s) \in Nat /\ Len(Append(s, b)) = Len(s) + 1
      /\ \A i \in 1 .. Len(s) : Append(s, b)[i] = s[i]
      /\ Append(s, b)[Len(s) + 1] = b
  BY AppendProperties, LenProperties
<1>2. 1 .. Len(s) + 1 = (1 .. Len(s)) \cup {Len(s) + 1}
  BY <1>1
<1>. QED
  BY <1>1, <1>2 DEF Members

LEMMA MembersPop ==
    ASSUME NEW n \in Nat, NEW s \in Seq(0 .. n - 1), s # << >>
    PROVE  Members(s) = Members(SubSeq(s, 1, Len(s) - 1)) \cup {s[Len(s)]}
<1>1. Len(s) \in Nat \ {0}
  BY EmptySeq, LenProperties
<1>. DEFINE m == Len(s) - 1
            t == SubSeq(s, 1, m)
<1>2. /\ Len(t) = IF 1 <= m THEN m - 1 + 1 ELSE 0
      /\ \A i \in 1 .. m - 1 + 1 : t[i] = s[1 + i - 1]
  <2>1. m \in Int /\ 1 \in Int /\ \A i \in 1 .. m : s[i] \in 0 .. n - 1
    BY <1>1, ElementOfSeq
  <2>. HIDE DEF m
  <2>. QED
    BY <2>1, SubSeqProperties
<1>. HIDE DEF t
<1>3. Len(t) = m /\ \A i \in 1 .. m : t[i] = s[i]
  <2>1. m \in Nat
    BY <1>1
  <2>. HIDE DEF m
  <2>2. Len(t) = m
    BY <1>2, <2>1
  <2>3. ASSUME NEW i \in 1 .. m PROVE t[i] = s[i]
    <3>1. i \in 1 .. m - 1 + 1 /\ 1 + i - 1 = i
      BY <2>1
    <3>. QED
      BY <1>2, <3>1
  <2>. QED
    BY <2>2, <2>3
<1>4. 1 .. Len(s) = (1 .. m) \cup {Len(s)}
  BY <1>1
<1>5. Members(s) = Members(t) \cup {s[Len(s)]}
  BY <1>1, <1>3, <1>4 DEF Members
<1>. QED
  BY <1>5 DEF t

(* reserve() removes nothing from the open blocks but the one it returns.  *)
LEMMA ReserveKeeps ==
    ASSUME NEW n \in Nat \ {0}, NEW pc \in PieceType(n), CanReserve(pc)
    PROVE  /\ Members(pc.cancellations)
                 \subseteq Members(Reserve(pc).cancellations) \cup {ReservedBlock(pc)}
           /\ \A b \in 0 .. n - 1 : b < Reserve(pc).reservations /\ b # ReservedBlock(pc)
                                      => b < pc.reservations
           /\ Reserve(pc).buffer = pc.buffer /\ Reserve(pc).flushed = pc.flushed
           /\ Reserve(pc).id = pc.id
<1>1. /\ pc.cancellations \in Seq(0 .. n - 1) /\ pc.reservations \in 0 .. n
  BY DEF PieceType
<1>2. CASE pc.cancellations # << >>
  <2>1. Reserve(pc) = [pc EXCEPT !.cancellations = SubSeq(@, 1, Len(@) - 1)]
    BY <1>2 DEF Reserve
  <2>. QED
    BY <1>1, <1>2, <2>1, MembersPop DEF ReservedBlock, PieceType
<1>3. CASE pc.cancellations = << >>
  <2>1. Reserve(pc) = [pc EXCEPT !.reservations = @ + 1]
    BY <1>3 DEF Reserve
  <2>. QED
    BY <1>1, <1>3, <2>1 DEF ReservedBlock, PieceType
<1>. QED
  BY <1>2, <1>3

-----------------------------------------------------------------------------

(* Type correctness needs the request sets finite: a free slot is found by *)
(* counting.                                                               *)
Typed == TypeOK /\ IsFiniteSet(requests) /\ IsFiniteSet(deferred)

(* The inductive invariant: a replaced object is read through .id, so type *)
(* correctness needs to know where an object stands.                       *)
IInv == Typed /\ Agreement

(* A wire below its pipeline limit has a slot none of its requests uses.   *)
LEMMA FreeSlotType ==
    ASSUME Typed, NEW w \in Wires, Cardinality(RequestsOf(w)) < Pipeline(w)
    PROVE  FreeSlot(w) \in Slots
<1>. DEFINE used == {r.slot : r \in RequestsOf(w)}
<1>1. IsFiniteSet(RequestsOf(w)) /\ Cardinality(RequestsOf(w)) \in Nat
  <2>1. RequestsOf(w) \subseteq requests /\ IsFiniteSet(requests)
    BY DEF Typed, RequestsOf
  <2>2. IsFiniteSet(RequestsOf(w))
    BY <2>1, FS_Subset
  <2>. QED
    BY <2>2, FS_CardinalityType
<1>2. Pipeline(w) <= PeerPipeline + WebPipeline /\ Pipeline(w) \in Nat
  BY BoundsAssumption DEF Pipeline
<1>3. IsFiniteSet(Slots) /\ Cardinality(Slots) = PeerPipeline + WebPipeline
  BY BoundsAssumption, FS_Interval DEF Slots
<1>4. IsFiniteSet(used) /\ Cardinality(used) <= Cardinality(RequestsOf(w))
  <2>. DEFINE f == [r \in RequestsOf(w) |-> r.slot]
  <2>1. f \in Surjection(RequestsOf(w), used)
    BY DEF Surjection
  <2>. HIDE DEF f, used
  <2>. QED
    BY <1>1, <2>1, FS_Surjection
<1>5. ~(Slots \subseteq used)
  <2>1. SUFFICES ASSUME Slots \subseteq used PROVE FALSE
    OBVIOUS
  <2>. HIDE DEF used
  <2>2. Cardinality(Slots) <= Cardinality(used)
    BY <1>4, <2>1, FS_Subset
  <2>3. Cardinality(used) \in Nat
    BY <1>4, FS_CardinalityType
  <2>. QED
    BY <1>1, <1>2, <1>3, <1>4, <2>2, <2>3, BoundsAssumption
<1>6. \E s \in Slots : \A r \in RequestsOf(w) : r.slot # s
  BY <1>5
<1>. QED
  BY <1>6 DEF FreeSlot

-----------------------------------------------------------------------------
(* Type correctness, part by part.  Most actions leave the objects alone.  *)

(* Writing a well-formed object at an index keeps the pieces well formed.  *)
LEMMA PiecesExcept ==
    ASSUME PiecesType, NEW q \in Pieces, NEW x,
           x = NoPiece \/ x \in PieceType(Chunks[q]),
           pieces' = [pieces EXCEPT ![q] = x]
    PROVE  /\ pieces' = [p \in Pieces |-> pieces'[p]]
           /\ \A p \in Pieces : pieces'[p] = NoPiece \/ pieces'[p] \in PieceType(Chunks[p])
  BY DEF PiecesType

LEMMA InitIInv == Init => IInv
<1>. SUFFICES ASSUME Init PROVE IInv
  OBVIOUS
<1>1. \A p \in Pieces : pieces[p] \in PieceType(Chunks[p])
  <2>1. 1 \in Nat \ {0}
    OBVIOUS
  <2>. QED
    BY <2>1, ChunksAssumption, NewPieceType DEF Init
<1>2. PiecesType
  BY <1>1 DEF Init, PiecesType
<1>3. RequestsType /\ WiresType /\ FlagsType
  BY DEF Init, RequestsType, WiresType, FlagsType
<1>4. IsFiniteSet({})
  BY FS_EmptySet
<1>5. Agreement
  BY <1>1, NoPieceAssumption DEF Init, Agreement
<1>. QED
  BY <1>2, <1>3, <1>4, <1>5 DEF Init, IInv, Typed, TypeOK

LEMMA MarkStoredIInv ==
    ASSUME IInv, NEW p \in Pieces, MarkStored(p)
    PROVE  IInv'
<1>. USE DEF IInv, Typed, TypeOK, MarkStored
<1>1. /\ RequestsType' /\ WiresType' /\ FlagsType'
      /\ IsFiniteSet(requests') /\ IsFiniteSet(deferred')
  BY DEF RequestsType, WiresType, FlagsType, wireVars, lifeVars
<1>2. CASE stored[p] = Good
  <2>1. PiecesType'
    BY <1>2, PiecesExcept DEF PiecesType
  <2>2. Agreement'
    BY <1>2 DEF Agreement, PiecesType, lifeVars
  <2>. QED
    BY <1>1, <2>1, <2>2
<1>3. CASE stored[p] # Good
  <2>. DEFINE x == NewPiece(pieces[p].id + 1, Chunks[p])
  <2>1. pieces[p] \in PieceType(Chunks[p])
    BY DEF Agreement, PiecesType
  <2>2. x \in PieceType(Chunks[p])
    <3>1. pieces[p].id + 1 \in Nat \ {0}
      BY <2>1 DEF PieceType
    <3>. QED
      BY <3>1, NewPieceType, ChunksAssumption
  <2>3. x # NoPiece
    BY <2>2, NoPieceAssumption
  <2>. HIDE DEF x
  <2>4. pieces' = [pieces EXCEPT ![p] = x]
    BY <1>3 DEF x
  <2>5. PiecesType'
    BY <1>3, <2>2, <2>4, PiecesExcept DEF PiecesType
  <2>6. Agreement'
    BY <1>3, <2>3, <2>4 DEF Agreement, PiecesType, lifeVars
  <2>. QED
    BY <1>1, <2>5, <2>6
<1>. QED
  BY <1>2, <1>3

LEMMA OnStoreIInv ==
    ASSUME IInv, OnStore
    PROVE  IInv'
<1>. USE DEF IInv, Typed, TypeOK, OnStore
<1>1. PiecesType' /\ WiresType'
  BY DEF PiecesType, WiresType, pieceVars, storeVars, wireVars
<1>2. FlagsType'
  BY DEF FlagsType, CheckDone, CheckIdle, Idles
<1>. DEFINE parked == {d \in deferred : Usable(d.wire)}
            again  == {[r EXCEPT !.id = 0] : r \in parked}
<1>3. \A r \in parked : [r EXCEPT !.id = 0] \in Request /\ r.first < Chunks[r.piece]
  BY DEF RequestsType, Request
<1>4. RequestsType'
  BY <1>3 DEF RequestsType, Request
<1>5. IsFiniteSet(requests') /\ IsFiniteSet(deferred')
  <2>1. IsFiniteSet(parked)
    BY FS_Subset
  <2>2. IsFiniteSet(again)
    <3>. DEFINE f == [r \in parked |-> [r EXCEPT !.id = 0]]
    <3>1. f \in Surjection(parked, again)
      BY DEF Surjection
    <3>. HIDE DEF f, parked, again
    <3>. QED
      BY <2>1, <3>1, FS_Surjection
  <2>3. IsFiniteSet(requests \cup again)
    <3>. HIDE DEF again
    <3>. QED
      BY <2>2, FS_Union
  <2>. QED
    BY <2>3, FS_EmptySet
<1>6. Agreement'
  BY DEF Agreement, CheckDone, pieceVars, storeVars
<1>. QED
  BY <1>1, <1>2, <1>4, <1>5, <1>6

(* The wire handlers change nothing the invariant relates.                 *)
LEMMA WireIInv ==
    ASSUME IInv, NEW w \in Wires,
           \/ HandleWire(w) \/ OnHave(w) \/ OnUnchoke(w) \/ OnChoke(w) \/ OnEnd(w)
           \/ \E p \in Pieces : OnDontHave(w, p)
    PROVE  IInv'
<1>. USE DEF IInv, Typed, TypeOK
<1>1. OnlyWires
  BY DEF HandleWire, OnHave, OnUnchoke, OnChoke, OnEnd, OnDontHave
<1>2. /\ PiecesType' /\ RequestsType' /\ Agreement'
      /\ IsFiniteSet(requests') /\ IsFiniteSet(deferred')
  BY <1>1 DEF OnlyWires, PiecesType, RequestsType, Agreement, pieceVars, storeVars, startVars,
              lifeVars, eventVars
<1>3. WiresType'
  BY DEF HandleWire, OnHave, OnUnchoke, OnChoke, OnEnd, OnDontHave, WiresType
<1>4. FlagsType'
  <2>1. updateQueued' \in BOOLEAN
    BY DEF HandleWire, OnHave, OnUnchoke, OnChoke, OnEnd, OnDontHave, FlagsType
  <2>. QED
    BY <1>1, <2>1 DEF OnlyWires, FlagsType, lifeVars, eventVars
<1>. QED
  BY <1>2, <1>3, <1>4

LEMMA SendRequestIInv ==
    ASSUME IInv, NEW w \in Wires, NEW p \in Pieces, SendRequest(w, p)
    PROVE  IInv'
<1>. USE DEF IInv, Typed, TypeOK
<1>. DEFINE pc == pieces[p]
            x  == IF w \in WebSeeds THEN ReserveRemaining(pc) ELSE Reserve(pc)
            b  == IF w \in WebSeeds THEN RemainingFrom(pc) ELSE ReservedBlock(pc)
            r  == [wire |-> w, slot |-> FreeSlot(w), piece |-> p, id |-> pc.id, first |-> b]
<1>1. pc \in PieceType(Chunks[p]) /\ CanReserve(pc) /\ Chunks[p] \in Nat \ {0}
  BY ChunksAssumption DEF SendRequest, CanRequest, PiecesType
<1>2. x \in PieceType(Chunks[p]) /\ b \in 0 .. Chunks[p] - 1
  BY <1>1, ReserveType, ReserveRemainingType
<1>3. x # NoPiece /\ pc.flushed = FALSE
  BY <1>1, <1>2, NoPieceAssumption DEF CanReserve, PieceType
<1>4. pc.id \in Nat
  BY <1>1 DEF PieceType
<1>5. FreeSlot(w) \in Slots
  BY FreeSlotType DEF SendRequest, CanRequest
<1>6. r \in Request /\ r.first < Chunks[r.piece] /\ r.piece = p
  BY <1>1, <1>2, <1>4, <1>5 DEF Request
<1>7. pieces' = [pieces EXCEPT ![p] = x] /\ requests' = requests \cup {r}
  BY DEF SendRequest
<1>8. WiresType' /\ FlagsType'
  BY DEF SendRequest, WiresType, FlagsType, wireVars, lifeVars, eventVars
<1>. HIDE DEF x, r
<1>9. PiecesType'
  BY <1>2, <1>7, PiecesExcept DEF SendRequest, PiecesType, storeVars, startVars
<1>10. RequestsType'
  BY <1>6, <1>7 DEF SendRequest, RequestsType, startVars
<1>11. IsFiniteSet(requests') /\ IsFiniteSet(deferred')
  <2>1. IsFiniteSet(requests) /\ IsFiniteSet(deferred)
    OBVIOUS
  <2>2. IsFiniteSet(requests \cup {r})
    BY <2>1, FS_AddElement
  <2>3. deferred' = deferred
    BY DEF SendRequest, startVars
  <2>. QED
    BY <1>7, <2>1, <2>2, <2>3
<1>12. Agreement'
  BY <1>1, <1>3, <1>7, NoPieceAssumption
     DEF Agreement, SendRequest, PiecesType, storeVars, startVars, lifeVars, eventVars
<1>. QED
  BY <1>8, <1>9, <1>10, <1>11, <1>12

LEMMA EndUpdateIInv ==
    ASSUME IInv, EndUpdate
    PROVE  IInv'
<1>. USE DEF IInv, Typed, TypeOK, EndUpdate
<1>1. /\ PiecesType' /\ RequestsType' /\ WiresType' /\ Agreement'
      /\ IsFiniteSet(requests') /\ IsFiniteSet(deferred')
  BY DEF PiecesType, RequestsType, WiresType, Agreement, pieceVars, storeVars, startVars,
         wireVars, lifeVars
<1>2. FlagsType'
  BY DEF FlagsType, CheckIdle, Idles, lifeVars
<1>. QED
  BY <1>1, <1>2

-----------------------------------------------------------------------------
(* Answers.                                                                *)

(* A callback replaces the object at one index: not if it was flushed, and *)
(* flushing it starts a hash.                                              *)
Replaces(p, x) ==
    /\ pieces' = [pieces EXCEPT ![p] = x]
    /\ pieces[p].flushed => x = pieces[p]
    /\ \/ job' = job /\ x.flushed = pieces[p].flushed
       \/ job' = [job EXCEPT ![p] = "hash"] /\ x.flushed = TRUE

(* What a callback that changes at most one object leaves.                 *)
LEMMA AnswerIInv ==
    ASSUME IInv, NEW r \in requests, OnlyAnswer(r), NEW x,
           pieces[r.piece] # NoPiece, ready,
           x \in PieceType(Chunks[r.piece]),
           Replaces(r.piece, x),
           leaky' \subseteq Pieces, deferred' = deferred, updateQueued' \in BOOLEAN
    PROVE  IInv'
<1>. USE DEF IInv, Typed, TypeOK, OnlyAnswer, Replaces
<1>1. r.piece \in Pieces
  BY DEF RequestsType, Request
<1>2. x # NoPiece
  BY <1>1, NoPieceAssumption
<1>3. WiresType' /\ FlagsType'
  BY DEF WiresType, FlagsType, wireVars, lifeVars, eventVars
<1>4. PiecesType'
  BY <1>1, PiecesExcept DEF PiecesType, storeVars
<1>5. RequestsType'
  BY DEF RequestsType
<1>6. IsFiniteSet(requests') /\ IsFiniteSet(deferred')
  BY FS_Subset
<1>7. Agreement'
  BY <1>1, <1>2 DEF Agreement, PiecesType, storeVars, lifeVars, eventVars
<1>. QED
  BY <1>3, <1>4, <1>5, <1>6, <1>7

LEMMA ParkIInv ==
    ASSUME IInv, NEW r \in requests, Park(r), OnlyAnswer(r)
    PROVE  IInv'
<1>. USE DEF IInv, Typed, TypeOK, OnlyAnswer, Park
<1>1. WiresType' /\ FlagsType'
  BY DEF WiresType, FlagsType, wireVars, lifeVars, eventVars
<1>2. r.piece \in Pieces
  BY DEF RequestsType, Request
<1>3. PiecesType'
  BY <1>2 DEF PiecesType, storeVars
<1>4. RequestsType'
  BY DEF RequestsType
<1>5. IsFiniteSet(requests') /\ IsFiniteSet(deferred')
  BY FS_Subset, FS_AddElement
<1>6. Agreement'
  BY DEF Agreement, storeVars, lifeVars, eventVars
<1>. QED
  BY <1>1, <1>3, <1>4, <1>5, <1>6

LEMMA OnPieceIInv ==
    ASSUME IInv, NEW r \in requests, OnPiece(r)
    PROVE  IInv'
<1>1. OnlyAnswer(r)
  BY DEF OnPiece
<1>2. CASE Ignored(r)
  BY <1>1, <1>2, ParkIInv DEF OnPiece
<1>3. CASE ~Ignored(r)
  <2>. DEFINE p == r.piece
              pc(data) == SetBlocks(pieces[p], Covers(r), data)
              x(data) == IF Complete(pc(data)) THEN Flush(pc(data)) ELSE pc(data)
  <2>1. PICK data \in Content :
          /\ pieces' = [pieces EXCEPT ![p] = x(data)]
          /\ job' = IF Complete(pc(data)) THEN [job EXCEPT ![p] = "hash"] ELSE job
          /\ updateQueued' = (updateQueued \/ ~Complete(pc(data)))
          /\ UNCHANGED <<deferred, leaky>>
    BY <1>3 DEF OnPiece
  <2>2. p \in Pieces /\ pieces[p] # NoPiece /\ ready
    BY <1>3 DEF IInv, Typed, TypeOK, RequestsType, Request, Ignored, Current
  <2>3. pieces[p] \in PieceType(Chunks[p]) /\ Chunks[p] \in Nat \ {0}
    BY <2>2, ChunksAssumption DEF IInv, Typed, TypeOK, PiecesType
  <2>4. Covers(r) \in SUBSET (0 .. Chunks[p] - 1)
    BY <2>3 DEF IInv, Typed, TypeOK, RequestsType, Request, Covers
  <2>5. pc(data) \in PieceType(Chunks[p])
    BY <2>3, <2>4, SetBlocksType
  <2>6. Flush(pc(data)) \in PieceType(Chunks[p])
    BY <2>3, <2>5, FlushType
  <2>7. x(data) \in PieceType(Chunks[p])
    BY <2>5, <2>6
  <2>8. pc(data).flushed = pieces[p].flushed
    BY <2>3 DEF SetBlocks, PieceType
  <2>9. Flush(pc(data)).flushed = TRUE
    BY <2>5 DEF Flush, PieceType
  <2>10. leaky' \subseteq Pieces /\ updateQueued' \in BOOLEAN
    BY <2>1 DEF IInv, Typed, TypeOK, PiecesType, FlagsType
  <2>11. pieces[p].flushed => x(data) = pieces[p]
    BY <2>8 DEF SetBlocks, Complete
  <2>12. Replaces(p, x(data))
    BY <2>1, <2>8, <2>9, <2>11 DEF Replaces
  <2>. HIDE DEF pc, x
  <2>. QED
    BY <1>1, <2>1, <2>2, <2>7, <2>10, <2>12, AnswerIInv
<1>. QED
  BY <1>2, <1>3

LEMMA OnErrorIInv ==
    ASSUME IInv, NEW r \in requests, OnError(r)
    PROVE  IInv'
<1>1. OnlyAnswer(r)
  BY DEF OnError
<1>2. CASE Ignored(r)
  BY <1>1, <1>2, ParkIInv DEF OnError
<1>3. CASE ~Ignored(r)
  <2>. DEFINE p == r.piece
              x == IF r.wire \in WebSeeds THEN CancelRemaining(pieces[p], r.first)
                                         ELSE Cancel(pieces[p], r.first)
  <2>1. /\ pieces' = [pieces EXCEPT ![p] = x]
        /\ updateQueued' = TRUE
        /\ UNCHANGED <<deferred, job>>
        /\ leaky' \subseteq leaky \cup {p}
    BY <1>3 DEF OnError
  <2>2. p \in Pieces /\ pieces[p] # NoPiece /\ ready
    BY <1>3 DEF IInv, Typed, TypeOK, RequestsType, Request, Ignored, Current
  <2>3. pieces[p] \in PieceType(Chunks[p]) /\ Chunks[p] \in Nat \ {0}
    BY <2>2, ChunksAssumption DEF IInv, Typed, TypeOK, PiecesType
  <2>4. r.first \in 0 .. Chunks[p] - 1
    BY <2>3 DEF IInv, Typed, TypeOK, RequestsType, Request
  <2>5. x \in PieceType(Chunks[p])
    BY <2>3, <2>4, CancelType
  <2>6. x.flushed = pieces[p].flushed
    BY <2>3 DEF Cancel, CancelRemaining, PieceType
  <2>7. leaky' \subseteq Pieces
    BY <2>1, <2>2 DEF IInv, Typed, TypeOK, PiecesType
  <2>8. pieces[p].flushed => x = pieces[p]
    BY DEF Cancel, CancelRemaining
  <2>9. Replaces(p, x)
    BY <2>1, <2>6, <2>8 DEF Replaces
  <2>. HIDE DEF x
  <2>. QED
    BY <1>1, <2>1, <2>2, <2>5, <2>7, <2>9, AnswerIInv
<1>. QED
  BY <1>2, <1>3

-----------------------------------------------------------------------------
(* Hashing and storing.                                                    *)

LEMMA OnHashIInv ==
    ASSUME IInv, NEW p \in Pieces, OnHash(p) \/ OnHashError(p)
    PROVE  IInv'
<1>. USE DEF IInv, Typed, TypeOK
<1>1. /\ WiresType' /\ RequestsType'
      /\ IsFiniteSet(requests') /\ IsFiniteSet(deferred')
  BY DEF OnHash, OnHashError, WiresType, RequestsType, wireVars, startVars
<1>2. FlagsType'
  BY DEF OnHash, OnHashError, FlagsType, lifeVars, eventVars
<1>3. CASE pieces' = pieces
  <2>1. PiecesType'
    BY <1>3 DEF OnHash, OnHashError, PiecesType, storeVars, startVars
  <2>2. Agreement'
    BY <1>3 DEF OnHash, OnHashError, Agreement, PiecesType, storeVars, startVars, lifeVars,
                eventVars
  <2>. QED
    BY <1>1, <1>2, <2>1, <2>2
<1>4. CASE pieces' # pieces
  <2>. DEFINE x == NewPiece(pieces[p].id + 1, pieces[p].chunks)
  <2>1. /\ OnHash(p) /\ job' = [job EXCEPT ![p] = "none"]
        /\ pieces' = [pieces EXCEPT ![p] = x]
    BY <1>4 DEF OnHash, OnHashError
  <2>2. pieces[p] \in PieceType(Chunks[p])
    BY <2>1 DEF OnHash, Agreement, PiecesType
  <2>3. pieces[p].id + 1 \in Nat \ {0} /\ pieces[p].chunks = Chunks[p]
    BY <2>2 DEF PieceType
  <2>4. x \in PieceType(Chunks[p])
    BY <2>3, NewPieceType, ChunksAssumption
  <2>5. x # NoPiece
    BY <2>4, NoPieceAssumption
  <2>. HIDE DEF x
  <2>6. PiecesType'
    BY <2>1, <2>4, PiecesExcept DEF OnHash, PiecesType, storeVars, startVars
  <2>7. Agreement'
    BY <2>1, <2>5 DEF OnHash, Agreement, PiecesType, storeVars, startVars, lifeVars, eventVars
  <2>. QED
    BY <1>1, <1>2, <2>6, <2>7
<1>. QED
  BY <1>3, <1>4

LEMMA OnStoredIInv ==
    ASSUME IInv, NEW p \in Pieces, OnStored(p)
    PROVE  IInv'
<1>. USE DEF IInv, Typed, TypeOK, OnStored
<1>1. /\ WiresType' /\ RequestsType'
      /\ IsFiniteSet(requests') /\ IsFiniteSet(deferred')
  BY DEF WiresType, RequestsType, wireVars, startVars
<1>2. FlagsType'
  BY DEF FlagsType, lifeVars, eventVars, CheckDone, CheckIdle, Idles
<1>3. PiecesType'
  BY PiecesExcept DEF PiecesType, startVars, Content
<1>4. Agreement'
  <2>1. \A q \in Pieces :
          /\ pieces'[q] = NoPiece <=> q \in bitfield' \ unchecked'
          /\ job'[q] # "none" => ready' /\ pieces'[q] # NoPiece /\ pieces'[q].flushed
    BY DEF Agreement, PiecesType, startVars, lifeVars
  <2>2. \A f \in fileDone' : Files[f] \subseteq bitfield'
    BY DEF Agreement, CheckDone, eventVars
  <2>. QED
    BY <2>1, <2>2 DEF Agreement, startVars, lifeVars
<1>. QED
  BY <1>1, <1>2, <1>3, <1>4

(* Destroying the torrent leaves the objects and the bitfield alone.       *)
LEMMA DestroyIInv ==
    ASSUME IInv, Destroy \/ \E p \in Pieces : OnStoreError(p)
    PROVE  IInv'
<1>. USE DEF IInv, Typed, TypeOK
<1>1. DestroyTorrent
  BY DEF Destroy, OnStoreError
<1>2. /\ WiresType' /\ RequestsType' /\ FlagsType'
      /\ IsFiniteSet(requests') /\ IsFiniteSet(deferred')
  BY <1>1 DEF DestroyTorrent, WiresType, RequestsType, FlagsType, startVars, eventVars
<1>3. \/ job' = job /\ stored' = stored
      \/ \E p \in Pieces : /\ job' = [job EXCEPT ![p] = "none"]
                           /\ \E data \in Content : stored' = [stored EXCEPT ![p] = data]
  BY DEF Destroy, OnStoreError
<1>4. PiecesType'
  BY <1>1, <1>3 DEF DestroyTorrent, PiecesType, startVars
<1>5. Agreement'
  BY <1>1, <1>3 DEF DestroyTorrent, Agreement, PiecesType, startVars, eventVars
<1>. QED
  BY <1>2, <1>4, <1>5

-----------------------------------------------------------------------------
LEMMA ApiIInv ==
    ASSUME IInv, NEW p \in Pieces,
           Select(p) \/ Deselect(p) \/ \E w \in Wires : Serve(w, p)
    PROVE  IInv'
<1>. USE DEF IInv, Typed, TypeOK, Select, Deselect, Serve
<1>1. /\ WiresType' /\ RequestsType'
      /\ IsFiniteSet(requests') /\ IsFiniteSet(deferred')
  BY DEF WiresType, RequestsType, wireVars, startVars
<1>2. PiecesType'
  BY DEF PiecesType, pieceVars, storeVars, startVars
<1>3. FlagsType'
  BY DEF FlagsType, PiecesType, lifeVars, eventVars
<1>4. Agreement'
  BY DEF Agreement, pieceVars, storeVars, startVars, lifeVars, eventVars
<1>. QED
  BY <1>1, <1>2, <1>3, <1>4

LEMMA StutterIInv ==
    ASSUME IInv, UNCHANGED vars
    PROVE  IInv'
  BY DEF IInv, Typed, TypeOK, Agreement, PiecesType, RequestsType, WiresType, FlagsType, vars,
         pieceVars, storeVars, startVars, wireVars, lifeVars, eventVars

LEMMA NextIInv == IInv /\ [Next]_vars => IInv'
<1>. SUFFICES ASSUME IInv, [Next]_vars PROVE IInv'
  OBVIOUS
<1>1. CASE UNCHANGED vars
  BY <1>1, StutterIInv
<1>2. CASE \E p \in Pieces : MarkStored(p)
  BY <1>2, MarkStoredIInv
<1>3. CASE OnStore
  BY <1>3, OnStoreIInv
<1>4. CASE \E w \in Wires : HandleWire(w) \/ OnHave(w) \/ OnUnchoke(w) \/ OnChoke(w) \/ OnEnd(w)
  BY <1>4, WireIInv
<1>5. CASE \E w \in Wires, p \in Pieces : OnDontHave(w, p)
  BY <1>5, WireIInv
<1>6. CASE \E w \in Wires, p \in Pieces : SendRequest(w, p)
  BY <1>6, SendRequestIInv
<1>7. CASE EndUpdate
  BY <1>7, EndUpdateIInv
<1>8. CASE \E r \in requests : OnPiece(r) \/ OnError(r)
  BY <1>8, OnPieceIInv, OnErrorIInv
<1>9. CASE \E p \in Pieces : OnHash(p) \/ OnHashError(p)
  BY <1>9, OnHashIInv
<1>10. CASE \E p \in Pieces : OnStored(p)
  BY <1>10, OnStoredIInv
<1>11. CASE Destroy \/ \E p \in Pieces : OnStoreError(p)
  BY <1>11, DestroyIInv
<1>12. CASE \E p \in Pieces : Select(p) \/ Deselect(p) \/ \E w \in Wires : Serve(w, p)
  BY <1>12, ApiIInv
<1>. QED
  BY <1>1, <1>2, <1>3, <1>4, <1>5, <1>6, <1>7, <1>8, <1>9, <1>10, <1>11, <1>12 DEF Next

THEOREM Invariance == Spec => []IInv
  BY InitIInv, NextIInv, PTL DEF Spec

(* Every variable keeps its type, and every request names a block of its   *)
(* piece, in every reachable state of every instance.                      *)
THEOREM TypeCorrect == Spec => []TypeOK
<1>1. IInv => TypeOK
  BY DEF IInv, Typed
<1>. QED
  BY <1>1, Invariance, PTL

(* The object at an index, the bitfield, the pending promise and the file  *)
(* flags agree in every reachable state of every instance.                 *)
THEOREM AlwaysAgree == Spec => []Agreement
<1>1. IInv => Agreement
  BY DEF IInv
<1>. QED
  BY <1>1, Invariance, PTL

-----------------------------------------------------------------------------
(* Torrent implements Download: every step is a step of Download or        *)
(* changes nothing Download sees.                                          *)

Seen == <<bitfield, unchecked, stored, served, done>>

LEMMA MarkStoredRefines ==
    ASSUME IInv, NEW p \in Pieces, MarkStored(p)
    PROVE  [D!Next]_D!vars
<1>. USE DEF IInv, Typed, TypeOK, PiecesType, MarkStored
<1>1. CASE stored[p] = Good
  <2>1. /\ p \notin bitfield \ unchecked
        /\ bitfield' \ unchecked' = (bitfield \ unchecked) \cup {p}
    BY <1>1
  <2>2. stored' = [stored EXCEPT ![p] = "good"]
    BY <1>1 DEF Good
  <2>3. D!Verify(p)
    BY <2>1, <2>2 DEF D!Verify
  <2>. QED
    BY <2>3 DEF D!Next
<1>2. CASE stored[p] # Good
  <2>1. bitfield' \ unchecked' = bitfield \ unchecked
    BY <1>2
  <2>. QED
    BY <2>1 DEF D!vars
<1>. QED
  BY <1>1, <1>2

(* #checkDone announces only what Download may announce.                   *)
LEMMA CheckDoneRefines ==
    ASSUME IInv, NEW bf, bitfield \subseteq bf, CheckDone(bf)
    PROVE  done' = done \/ (done' = TRUE /\ D!Complete(bf))
<1>1. \A f \in fileDone' : Files[f] \subseteq bf
  BY DEF CheckDone, IInv, Agreement
<1>2. CASE fileDone' = DOMAIN Files
  BY <1>1, <1>2 DEF CheckDone, D!Complete, IInv, Typed, TypeOK, FlagsType
<1>3. CASE fileDone' # DOMAIN Files
  BY <1>3 DEF CheckDone, IInv, Typed, TypeOK, FlagsType
<1>. QED
  BY <1>2, <1>3

LEMMA OnStoreRefines ==
    ASSUME IInv, OnStore
    PROVE  [D!Next]_D!vars
<1>1. /\ bitfield' = bitfield /\ unchecked' = unchecked /\ stored' = stored
      /\ served' = served /\ bitfield \ unchecked = bitfield
  BY DEF OnStore, storeVars, IInv, Agreement
<1>2. CheckDone(bitfield)
  BY DEF OnStore
<1>3. done' = done \/ (done' = TRUE /\ D!Complete(bitfield))
  BY <1>2, CheckDoneRefines
<1>4. CASE done' = done
  BY <1>1, <1>4 DEF D!vars
<1>5. CASE done' = TRUE /\ D!Complete(bitfield)
  BY <1>1, <1>5 DEF D!Next, D!Announce
<1>. QED
  BY <1>3, <1>4, <1>5

LEMMA OnStoredRefines ==
    ASSUME IInv, NEW p \in Pieces, OnStored(p)
    PROVE  [D!Next]_D!vars
<1>1. /\ unchecked = {} /\ unchecked' = {} /\ p \notin bitfield
      /\ bitfield' = bitfield \cup {p} /\ served' = served
      /\ stored' = [stored EXCEPT ![p] = "good"]
  BY DEF OnStored, IInv, Agreement, startVars, Good
<1>2. done' = done \/ (done' = TRUE /\ D!Complete(bitfield'))
  <2>1. CASE destroyed
    BY <2>1 DEF OnStored, eventVars
  <2>2. CASE ~destroyed
    <3>1. CheckDone(bitfield')
      BY <2>2 DEF OnStored
    <3>. QED
      BY <1>1, <3>1, CheckDoneRefines
  <2>. QED
    BY <2>1, <2>2
<1>3. done' \in {done, done \/ D!Complete(bitfield')}
  BY <1>2
<1>4. D!Verify(p)
  BY <1>1, <1>3 DEF D!Verify
<1>. QED
  BY <1>4 DEF D!Next

LEMMA OnStoreErrorRefines ==
    ASSUME IInv, NEW p \in Pieces, OnStoreError(p)
    PROVE  [D!Next]_D!vars
<1>1. /\ p \notin bitfield \ unchecked
      /\ bitfield' \ unchecked' = bitfield \ unchecked
      /\ served' = served /\ done' = done
  BY DEF OnStoreError, DestroyTorrent, IInv, Agreement, startVars, eventVars
<1>2. \E bytes \in {"good", "bad"} : stored' = [stored EXCEPT ![p] = bytes]
  BY DEF OnStoreError, Content, Good, Bad
<1>3. D!Spoil(p)
  BY <1>1, <1>2 DEF D!Spoil
<1>. QED
  BY <1>3 DEF D!Next

LEMMA ServeRefines ==
    ASSUME IInv, NEW w \in Wires, NEW p \in Pieces, Serve(w, p)
    PROVE  [D!Next]_D!vars
<1>1. /\ p \in bitfield \ unchecked
      /\ bitfield' \ unchecked' = bitfield \ unchecked
      /\ served' = served \cup {stored[p]} /\ stored' = stored /\ done' = done
  BY DEF Serve, IInv, Agreement, storeVars, startVars, eventVars
<1>2. D!Upload(p)
  BY <1>1 DEF D!Upload
<1>. QED
  BY <1>2 DEF D!Next

(* The other actions change nothing that Download sees.                    *)
LEMMA UnseenRefines ==
    ASSUME UNCHANGED Seen
    PROVE  [D!Next]_D!vars
  BY DEF Seen, D!vars

LEMMA NextRefines == IInv /\ [Next]_vars => [D!Next]_D!vars
<1>. SUFFICES ASSUME IInv, [Next]_vars PROVE [D!Next]_D!vars
  OBVIOUS
<1>. USE DEF Seen, storeVars, startVars, eventVars
<1>1. CASE UNCHANGED vars
  BY <1>1, UnseenRefines DEF vars
<1>2. CASE \E p \in Pieces : MarkStored(p)
  BY <1>2, MarkStoredRefines
<1>3. CASE OnStore
  BY <1>3, OnStoreRefines
<1>4. CASE \E w \in Wires : HandleWire(w) \/ OnHave(w) \/ OnUnchoke(w) \/ OnChoke(w) \/ OnEnd(w)
  BY <1>4, UnseenRefines DEF HandleWire, OnHave, OnUnchoke, OnChoke, OnEnd, OnlyWires
<1>5. CASE \E w \in Wires, p \in Pieces : OnDontHave(w, p) \/ SendRequest(w, p)
  BY <1>5, UnseenRefines DEF OnDontHave, OnlyWires, SendRequest
<1>6. CASE \E w \in Wires, p \in Pieces : Serve(w, p)
  BY <1>6, ServeRefines
<1>7. CASE EndUpdate
  BY <1>7, UnseenRefines DEF EndUpdate
<1>8. CASE \E r \in requests : OnPiece(r) \/ OnError(r)
  BY <1>8, UnseenRefines DEF OnPiece, OnError, OnlyAnswer, Park
<1>9. CASE \E p \in Pieces : OnHash(p) \/ OnHashError(p)
  BY <1>9, UnseenRefines DEF OnHash, OnHashError
<1>10. CASE \E p \in Pieces : OnStored(p)
  BY <1>10, OnStoredRefines
<1>11. CASE \E p \in Pieces : OnStoreError(p)
  BY <1>11, OnStoreErrorRefines
<1>12. CASE Destroy
  BY <1>12, UnseenRefines DEF Destroy, DestroyTorrent
<1>13. CASE \E p \in Pieces : Select(p) \/ Deselect(p)
  BY <1>13, UnseenRefines DEF Select, Deselect
<1>. QED
  BY <1>1, <1>2, <1>3, <1>4, <1>5, <1>6, <1>7, <1>8, <1>9, <1>10, <1>11, <1>12, <1>13 DEF Next

(* The engine keeps the promises of Download in every instance: pieces     *)
(* become available one by one and for good, with the right bytes in the   *)
(* store; only they are uploaded; done is emitted when every file is there. *)
THEOREM Refinement == Spec => Downloads
<1>1. Init => D!Init
  BY DEF Init, D!Init, Content, Good, Bad
<1>. QED
  BY <1>1, NextRefines, Invariance, PTL DEF Spec, Downloads, D!Spec

(* So only the right bytes are announced and uploaded, and 'done' means    *)
(* that every file is in the store, in every instance of Torrent.          *)
THEOREM AlwaysIntegral == Spec => []D!Integrity
<1>1. D!Init => D!Integrity
  BY DEF D!Init, D!Integrity
<1>. DEFINE have == bitfield \ unchecked
            Stored == stored \in [Pieces -> {"good", "bad"}] /\ have \subseteq Pieces
<1>2. D!Init => Stored
  BY DEF D!Init
<1>3. Stored /\ [D!Next]_D!vars => Stored'
  BY DEF D!Next, D!Verify, D!Spoil, D!Announce, D!Upload, D!vars
<1>4. ASSUME Stored, D!Integrity, [D!Next]_D!vars PROVE D!Integrity'
  <2>. USE <1>4
  <2>1. CASE D!Announce
    BY <2>1 DEF D!Announce, D!Integrity
  <2>2. ASSUME NEW p \in Pieces, D!Verify(p) PROVE D!Integrity'
    <3>1. \A q \in have' : stored'[q] = "good"
      BY <2>2 DEF D!Verify, D!Integrity
    <3>2. done' => D!Complete(have')
      BY <2>2 DEF D!Verify, D!Integrity, D!Complete
    <3>. QED
      BY <2>2, <3>1, <3>2 DEF D!Verify, D!Integrity
  <2>3. ASSUME NEW p \in Pieces, D!Spoil(p) PROVE D!Integrity'
    BY <2>3 DEF D!Spoil, D!Integrity
  <2>4. ASSUME NEW p \in Pieces, D!Upload(p) PROVE D!Integrity'
    BY <2>4 DEF D!Upload, D!Integrity
  <2>5. CASE UNCHANGED D!vars
    BY <2>5 DEF D!vars, D!Integrity
  <2>. QED
    BY <2>1, <2>2, <2>3, <2>4, <2>5 DEF D!Next
<1>. QED
  BY <1>1, <1>2, <1>3, <1>4, Refinement, PTL DEF Downloads, D!Spec

-----------------------------------------------------------------------------

(* A piece whose object stays, whose requests in flight stay and that      *)
(* stays accounted as leaky loses nothing.                                 *)
LEMMA Frame ==
    ASSUME LossIsExplained, NEW q \in Pieces,
           pieces'[q] = pieces[q], q \in leaky => q \in leaky', destroyed => destroyed',
           \A r \in requests : r.piece = q /\ Current(r) => r \in requests'
    PROVE  \A b \in 0 .. Chunks[q] - 1 : Lost(q, b)' => q \in leaky'
<1>. SUFFICES ASSUME NEW b \in 0 .. Chunks[q] - 1, Lost(q, b)' PROVE q \in leaky'
  OBVIOUS
<1>1. InFlight(q, b) => InFlight(q, b)'
  BY DEF InFlight, Current, Covers
<1>2. Lost(q, b)
  BY <1>1 DEF Lost
<1>. QED
  BY <1>2 DEF LossIsExplained

(* An action that changes one object, in a way that loses nothing.         *)
LEMMA OneObject ==
    ASSUME IInv, LossIsExplained, NEW p \in Pieces, NEW x,
           pieces' = [pieces EXCEPT ![p] = x],
           leaky \ {p} \subseteq leaky', destroyed => destroyed',
           \A r \in requests : r.piece # p /\ Current(r) => r \in requests',
           \A b \in 0 .. Chunks[p] - 1 : Lost(p, b)' => p \in leaky'
    PROVE  LossIsExplained'
<1>1. \A q \in Pieces \ {p} : pieces'[q] = pieces[q]
  BY DEF IInv, Typed, TypeOK, PiecesType
<1>2. ASSUME NEW q \in Pieces \ {p}, NEW b \in 0 .. Chunks[q] - 1, Lost(q, b)'
      PROVE  q \in leaky'
  <2>1. \A r \in requests : r.piece = q /\ Current(r) => r \in requests'
    OBVIOUS
  <2>2. q \in leaky => q \in leaky'
    OBVIOUS
  <2>3. \A c \in 0 .. Chunks[q] - 1 : Lost(q, c)' => q \in leaky'
    BY <1>1, <2>1, <2>2, Frame
  <2>. QED
    BY <1>2, <2>3
<1>. QED
  BY <1>2 DEF LossIsExplained

(* A new object has given out no block.                                    *)
LEMMA NewObject ==
    ASSUME IInv, LossIsExplained, NEW p \in Pieces, NEW id,
           pieces' = [pieces EXCEPT ![p] = NewPiece(id, Chunks[p])],
           leaky' = leaky \ {p}, destroyed' = destroyed, requests' = requests
    PROVE  LossIsExplained'
<1>. DEFINE x == NewPiece(id, Chunks[p])
<1>1. pieces'[p] = x
  BY DEF IInv, Typed, TypeOK, PiecesType
<1>2. x.reservations = 0
  BY DEF NewPiece
<1>3. \A b \in 0 .. Chunks[p] - 1 : ~Lost(p, b)'
  BY <1>1, <1>2, ChunksAssumption DEF Lost
<1>. HIDE DEF x
<1>4. pieces' = [pieces EXCEPT ![p] = x]
  BY DEF x
<1>. QED
  BY <1>3, <1>4, OneObject

(* A verified piece has no object that could lose a block.                 *)
LEMMA DropObject ==
    ASSUME IInv, LossIsExplained, NEW p \in Pieces,
           pieces' = [pieces EXCEPT ![p] = NoPiece],
           leaky \ {p} \subseteq leaky', destroyed' = destroyed, requests' = requests
    PROVE  LossIsExplained'
<1>1. pieces'[p] = NoPiece
  BY DEF IInv, Typed, TypeOK, PiecesType
<1>2. \A b \in 0 .. Chunks[p] - 1 : ~Lost(p, b)'
  BY <1>1 DEF Lost
<1>. QED
  BY <1>2, OneObject

(* Actions that touch no object lose nothing if no request disappears.     *)
LEMMA SameObjects ==
    ASSUME LossIsExplained, pieces' = pieces, leaky \subseteq leaky', destroyed => destroyed',
           \A r \in requests : Current(r) => r \in requests'
    PROVE  LossIsExplained'
<1>1. ASSUME NEW q \in Pieces PROVE \A b \in 0 .. Chunks[q] - 1 : Lost(q, b)' => q \in leaky'
  BY Frame
<1>. QED
  BY <1>1 DEF LossIsExplained

-----------------------------------------------------------------------------
LEMMA SendRequestLoss ==
    ASSUME IInv, LossIsExplained, NEW w \in Wires, NEW p \in Pieces, SendRequest(w, p)
    PROVE  LossIsExplained'
<1>. DEFINE pc == pieces[p]
            x  == IF w \in WebSeeds THEN ReserveRemaining(pc) ELSE Reserve(pc)
            b  == IF w \in WebSeeds THEN RemainingFrom(pc) ELSE ReservedBlock(pc)
<1>1. /\ pc \in PieceType(Chunks[p]) /\ pc # NoPiece
      /\ CanReserve(pc) /\ Chunks[p] \in Nat \ {0}
  BY ChunksAssumption DEF SendRequest, CanRequest, IInv, Typed, TypeOK, PiecesType
<1>. PICK r : r = [wire |-> w, slot |-> FreeSlot(w), piece |-> p, id |-> pc.id, first |-> b]
  OBVIOUS
<1>2. /\ pieces' = [pieces EXCEPT ![p] = x] /\ requests' = requests \cup {r}
      /\ leaky' = leaky /\ destroyed' = destroyed
  BY DEF SendRequest, lifeVars
<1>3. pieces'[p] = x
  BY <1>2 DEF IInv, Typed, TypeOK, PiecesType
<1>4. x.id = pc.id /\ x.buffer = pc.buffer /\ x.flushed = pc.flushed
  BY <1>1, ReserveKeeps DEF ReserveRemaining, PieceType
<1>5. x # NoPiece
  BY <1>1, ReserveType, ReserveRemainingType, NoPieceAssumption
<1>6. ASSUME NEW c \in 0 .. Chunks[p] - 1, Lost(p, c)'
      PROVE  p \in leaky'
  <2>1. c \notin Members(x.cancellations) /\ c < x.reservations /\ pc.buffer[c] = None
    BY <1>3, <1>4, <1>6 DEF Lost
  <2>2. c \notin Covers(r) /\ ~InFlight(p, c)
    <3>1. Current(r)' /\ r.piece = p /\ r \in requests'
      BY <1>2, <1>3, <1>4, <1>5 DEF Current
    <3>2. c \notin Covers(r)'
      BY <1>6, <3>1 DEF Lost, InFlight
    <3>3. ~InFlight(p, c)
      BY <1>2, <1>3, <1>4, <1>5, <1>6 DEF Lost, InFlight, Current, Covers
    <3>. QED
      BY <3>2, <3>3 DEF Covers
  <2>3. c \notin Members(pc.cancellations) /\ c < pc.reservations
    <3>1. CASE w \in WebSeeds
      <4>1. /\ b \in 0 .. Chunks[p] - 1
            /\ \A d \in Members(pc.cancellations) \cup {pc.reservations} : b <= d
        BY <1>1, <3>1, ReserveRemainingType
      <4>2. c < b
        BY <2>2, <3>1, <4>1, <1>1 DEF Covers
      <4>3. Members(pc.cancellations) \subseteq 0 .. Chunks[p] - 1 /\ pc.reservations \in Nat
        BY <1>1, MembersType DEF PieceType
      <4>. QED
        BY <4>1, <4>2, <4>3
    <3>2. CASE w \notin WebSeeds
      <4>1. c # b
        BY <2>2, <3>2 DEF Covers
      <4>. QED
        BY <1>1, <2>1, <3>2, <4>1, ReserveKeeps
    <3>. QED
      BY <3>1, <3>2
  <2>4. Lost(p, c)
    BY <1>1, <1>2, <1>6, <2>1, <2>2, <2>3 DEF Lost, CanReserve
  <2>. QED
    BY <1>2, <2>4 DEF LossIsExplained
<1>. HIDE DEF x
<1>7. \A s \in requests : s.piece # p /\ Current(s) => s \in requests'
  BY <1>2
<1>. QED
  BY <1>2, <1>6, <1>7, OneObject

-----------------------------------------------------------------------------
(* A parked answer makes its piece leaky; a stale one was not in flight.   *)
LEMMA ParkLoss ==
    ASSUME IInv, LossIsExplained, NEW r \in requests, Park(r), OnlyAnswer(r), Ignored(r)
    PROVE  LossIsExplained'
<1>1. /\ pieces' = pieces /\ leaky \subseteq leaky' /\ destroyed' = destroyed
      /\ requests' = requests \ {r}
  BY DEF Park, OnlyAnswer, lifeVars
<1>2. CASE destroyed
  BY <1>1, <1>2 DEF LossIsExplained, Lost
<1>3. CASE ~destroyed /\ Current(r)
  <2>1. r.piece \in Pieces /\ r.piece \in leaky'
    BY <1>3 DEF Park, Ignored, IInv, Typed, TypeOK, RequestsType, Request
  <2>2. ASSUME NEW q \in Pieces PROVE \A b \in 0 .. Chunks[q] - 1 : Lost(q, b)' => q \in leaky'
    <3>1. CASE q = r.piece
      BY <2>1, <3>1
    <3>2. CASE q # r.piece
      BY <1>1, <3>2, Frame
    <3>. QED
      BY <3>1, <3>2
  <2>. QED
    BY <2>2 DEF LossIsExplained
<1>4. CASE ~Current(r)
  BY <1>1, <1>4, SameObjects
<1>. QED
  BY <1>2, <1>3, <1>4

(* The blocks that arrive are buffered, the other requests are still out.  *)
LEMMA OnPieceLoss ==
    ASSUME IInv, LossIsExplained, NEW r \in requests, OnPiece(r)
    PROVE  LossIsExplained'
<1>1. OnlyAnswer(r)
  BY DEF OnPiece
<1>2. CASE Ignored(r)
  BY <1>1, <1>2, ParkLoss DEF OnPiece
<1>3. CASE ~Ignored(r)
  <2>. DEFINE p == r.piece
              pc(data) == SetBlocks(pieces[p], Covers(r), data)
              x(data) == IF Complete(pc(data)) THEN Flush(pc(data)) ELSE pc(data)
  <2>1. PICK data \in Content :
          pieces' = [pieces EXCEPT ![p] = x(data)] /\ UNCHANGED leaky
    BY <1>3 DEF OnPiece
  <2>2. p \in Pieces /\ pieces[p] # NoPiece /\ ~destroyed
    BY <1>3 DEF IInv, Typed, TypeOK, RequestsType, Request, Ignored, Current
  <2>3. pieces[p] \in PieceType(Chunks[p]) /\ Chunks[p] \in Nat \ {0}
    BY <2>2, ChunksAssumption DEF IInv, Typed, TypeOK, PiecesType
  <2>4. destroyed' = destroyed /\ requests' = requests \ {r}
    BY <1>1 DEF OnlyAnswer, lifeVars
  <2>5. pieces'[p] = x(data)
    BY <2>1, <2>2 DEF IInv, Typed, TypeOK, PiecesType
  <2>6. ASSUME NEW c \in 0 .. Chunks[p] - 1, Lost(p, c)'
        PROVE  p \in leaky'
    <3>1. x(data).flushed = FALSE /\ x(data).buffer[c] = None
      BY <2>5, <2>6 DEF Lost
    <3>2. Flush(pc(data)).flushed = TRUE
      <4>1. Covers(r) \in SUBSET (0 .. Chunks[p] - 1)
        BY <2>3 DEF IInv, Typed, TypeOK, RequestsType, Request, Covers
      <4>2. pc(data) \in PieceType(Chunks[p])
        BY <2>3, <4>1, SetBlocksType
      <4>. QED
        BY <4>2 DEF Flush, PieceType
    <3>3. x(data) = pc(data)
      BY <3>1, <3>2
    <3>4. CASE pieces[p].flushed
      BY <3>1, <3>3, <3>4 DEF SetBlocks
    <3>5. CASE ~pieces[p].flushed
      <4>1. /\ pc(data).cancellations = pieces[p].cancellations
            /\ pc(data).reservations = pieces[p].reservations
            /\ pc(data).id = pieces[p].id
            /\ pc(data).buffer = [b \in Blocks(pieces[p]) |->
                   IF b \in Missing(pieces[p], Covers(r)) THEN data ELSE pieces[p].buffer[b]]
        BY <2>3, <3>5 DEF SetBlocks, PieceType
      <4>2. c \in Blocks(pieces[p]) /\ data # None
        BY <2>3 DEF Blocks, PieceType, Content, Good, Bad, None
      <4>3. pieces[p].buffer[c] = None /\ c \notin Covers(r)
        BY <3>1, <3>3, <4>1, <4>2 DEF Missing
      <4>4. ~InFlight(p, c)
        <5>. SUFFICES ASSUME NEW s \in requests, s.piece = p, Current(s), c \in Covers(s)
                      PROVE  FALSE
          BY DEF InFlight
        <5>1. s \in requests'
          BY <2>4, <4>3
        <5>2. pieces'[p] # NoPiece
          BY <2>6 DEF Lost
        <5>3. Current(s)'
          BY <2>5, <3>3, <4>1, <5>2 DEF Current
        <5>4. c \in Covers(s)'
          BY DEF Covers
        <5>. QED
          BY <2>6, <5>1, <5>3, <5>4 DEF Lost, InFlight
      <4>5. Lost(p, c)
        BY <2>2, <2>5, <2>6, <3>3, <3>5, <4>1, <4>3, <4>4 DEF Lost
      <4>. QED
        BY <2>1, <2>2, <4>5 DEF LossIsExplained
    <3>. QED
      BY <3>4, <3>5
  <2>7. \A s \in requests : s.piece # p /\ Current(s) => s \in requests'
    BY <2>4
  <2>. HIDE DEF x, pc
  <2>. QED
    BY <2>1, <2>2, <2>4, <2>6, <2>7, OneObject
<1>. QED
  BY <1>2, <1>3

(* A failed request opens its blocks again, or makes the piece leaky.      *)
LEMMA OnErrorLoss ==
    ASSUME IInv, LossIsExplained, NEW r \in requests, OnError(r)
    PROVE  LossIsExplained'
<1>1. OnlyAnswer(r)
  BY DEF OnError
<1>2. CASE Ignored(r)
  BY <1>1, <1>2, ParkLoss DEF OnError
<1>3. CASE ~Ignored(r)
  <2>. DEFINE p == r.piece
              pc == pieces[p]
              x == IF r.wire \in WebSeeds THEN CancelRemaining(pc, r.first)
                                         ELSE Cancel(pc, r.first)
  <2>1. /\ pieces' = [pieces EXCEPT ![p] = x]
        /\ leaky' = IF r.wire \in WebSeeds /\ r.first > pc.reservations
                    THEN leaky \cup {p} ELSE leaky
    BY <1>3 DEF OnError
  <2>2. p \in Pieces /\ pc # NoPiece /\ ~destroyed
    BY <1>3 DEF IInv, Typed, TypeOK, RequestsType, Request, Ignored, Current
  <2>3. pc \in PieceType(Chunks[p]) /\ Chunks[p] \in Nat \ {0}
    BY <2>2, ChunksAssumption DEF IInv, Typed, TypeOK, PiecesType
  <2>4. destroyed' = destroyed /\ requests' = requests \ {r}
    BY <1>1 DEF OnlyAnswer, lifeVars
  <2>5. pieces'[p] = x
    BY <2>1, <2>2 DEF IInv, Typed, TypeOK, PiecesType
  <2>6. r.first \in 0 .. Chunks[p] - 1
    BY <2>3 DEF IInv, Typed, TypeOK, RequestsType, Request
  <2>7. x.id = pc.id /\ x.buffer = pc.buffer /\ x.flushed = pc.flushed
    BY <2>3 DEF Cancel, CancelRemaining, PieceType
  <2>8. ASSUME NEW c \in 0 .. Chunks[p] - 1, Lost(p, c)', p \notin leaky'
        PROVE  FALSE
    <3>1. /\ c \notin Members(x.cancellations) /\ c < x.reservations
          /\ pc.buffer[c] = None /\ ~pc.flushed
      BY <2>5, <2>7, <2>8 DEF Lost
    <3>2. c \notin Members(pc.cancellations) /\ c < pc.reservations /\ c \notin Covers(r)
      <4>1. CASE r.wire \in WebSeeds
        <5>1. x = [pc EXCEPT !.reservations = r.first]
          BY <3>1, <4>1 DEF CancelRemaining
        <5>2. x.reservations = r.first /\ x.cancellations = pc.cancellations
          BY <2>3, <5>1 DEF PieceType
        <5>3. r.first <= pc.reservations /\ pc.reservations \in Nat
          BY <2>1, <2>3, <2>6, <2>8, <4>1 DEF PieceType
        <5>. QED
          BY <2>6, <3>1, <4>1, <5>2, <5>3 DEF Covers
      <4>2. CASE r.wire \notin WebSeeds
        <5>1. x = [pc EXCEPT !.cancellations = Append(@, r.first)]
          BY <3>1, <4>2 DEF Cancel
        <5>2. /\ x.reservations = pc.reservations
              /\ x.cancellations = Append(pc.cancellations, r.first)
          BY <2>3, <5>1 DEF PieceType
        <5>3. pc.cancellations \in Seq(0 .. Chunks[p] - 1)
          BY <2>3 DEF PieceType
        <5>4. Members(Append(pc.cancellations, r.first)) = Members(pc.cancellations) \cup {r.first}
          BY <2>3, <2>6, <5>3, MembersAppend
        <5>5. Members(x.cancellations) = Members(pc.cancellations) \cup {r.first}
          BY <5>2, <5>4
        <5>. QED
          BY <3>1, <4>2, <5>2, <5>5 DEF Covers
      <4>. QED
        BY <4>1, <4>2
    <3>3. ~InFlight(p, c)
      <4>. SUFFICES ASSUME NEW s \in requests, s.piece = p, Current(s), c \in Covers(s)
                    PROVE  FALSE
        BY DEF InFlight
      <4>1. s \in requests'
        BY <2>4, <3>2
      <4>2. pieces'[p] # NoPiece
        BY <2>8 DEF Lost
      <4>3. Current(s)'
        BY <2>5, <2>7, <4>2 DEF Current
      <4>4. c \in Covers(s)'
        BY DEF Covers
      <4>. QED
        BY <2>8, <4>1, <4>3, <4>4 DEF Lost, InFlight
    <3>4. Lost(p, c)
      BY <2>2, <3>1, <3>2, <3>3 DEF Lost
    <3>. QED
      BY <2>1, <2>2, <2>8, <3>4 DEF LossIsExplained
  <2>9. \A s \in requests : s.piece # p /\ Current(s) => s \in requests'
    BY <2>4
  <2>10. leaky \ {p} \subseteq leaky'
    BY <2>1
  <2>. HIDE DEF x
  <2>. QED
    BY <2>1, <2>2, <2>4, <2>8, <2>9, <2>10, OneObject
<1>. QED
  BY <1>2, <1>3

-----------------------------------------------------------------------------
(* The actions that replace or drop an object.                             *)
LEMMA FreshLoss ==
    ASSUME IInv, LossIsExplained, NEW p \in Pieces,
           MarkStored(p) \/ OnHash(p) \/ OnStored(p)
    PROVE  LossIsExplained'
<1>1. CASE MarkStored(p)
  <2>1. leaky' = leaky \ {p} /\ destroyed' = destroyed /\ requests' = requests
    BY <1>1 DEF MarkStored, lifeVars
  <2>2. CASE stored[p] = Good
    BY <1>1, <2>1, <2>2, DropObject DEF MarkStored
  <2>3. CASE stored[p] # Good
    <3>. DEFINE id == pieces[p].id + 1
    <3>1. pieces' = [pieces EXCEPT ![p] = NewPiece(id, Chunks[p])]
      BY <1>1, <2>3 DEF MarkStored
    <3>. HIDE DEF id
    <3>. QED
      BY <2>1, <3>1, NewObject
  <2>. QED
    BY <2>2, <2>3
<1>2. CASE OnHash(p)
  <2>1. destroyed' = destroyed /\ requests' = requests
    BY <1>2 DEF OnHash, lifeVars
  <2>2. CASE destroyed \/ HashMatches(pieces[p])
    BY <1>2, <2>1, <2>2, SameObjects DEF OnHash
  <2>3. CASE ~(destroyed \/ HashMatches(pieces[p]))
    <3>. DEFINE id == pieces[p].id + 1
    <3>1. pieces[p].chunks = Chunks[p]
      BY <1>2 DEF OnHash, IInv, Agreement, Typed, TypeOK, PiecesType, PieceType
    <3>2. /\ pieces' = [pieces EXCEPT ![p] = NewPiece(id, Chunks[p])]
          /\ leaky' = leaky \ {p}
      BY <1>2, <2>3, <3>1 DEF OnHash
    <3>. HIDE DEF id
    <3>. QED
      BY <2>1, <3>2, NewObject
  <2>. QED
    BY <2>2, <2>3
<1>3. CASE OnStored(p)
  BY <1>3, DropObject DEF OnStored, lifeVars
<1>. QED
  BY <1>1, <1>2, <1>3

LEMMA NextLoss == IInv /\ LossIsExplained /\ [Next]_vars => LossIsExplained'
<1>. SUFFICES ASSUME IInv, LossIsExplained, [Next]_vars PROVE LossIsExplained'
  OBVIOUS
<1>. USE DEF pieceVars, lifeVars
<1>1. CASE UNCHANGED vars
  BY <1>1, SameObjects DEF vars
<1>2. CASE \E p \in Pieces : MarkStored(p) \/ OnHash(p) \/ OnStored(p)
  BY <1>2, FreshLoss
<1>3. CASE OnStore
  BY <1>3, SameObjects DEF OnStore
<1>4. CASE \E w \in Wires : HandleWire(w) \/ OnHave(w) \/ OnUnchoke(w) \/ OnChoke(w) \/ OnEnd(w)
  BY <1>4, SameObjects DEF HandleWire, OnHave, OnUnchoke, OnChoke, OnEnd, OnlyWires
<1>5. CASE \E w \in Wires, p \in Pieces : OnDontHave(w, p) \/ Serve(w, p)
  BY <1>5, SameObjects DEF OnDontHave, OnlyWires, Serve
<1>6. CASE \E w \in Wires, p \in Pieces : SendRequest(w, p)
  BY <1>6, SendRequestLoss
<1>7. CASE EndUpdate
  BY <1>7, SameObjects DEF EndUpdate
<1>8. CASE \E r \in requests : OnPiece(r) \/ OnError(r)
  BY <1>8, OnPieceLoss, OnErrorLoss
<1>9. CASE \E p \in Pieces : OnHashError(p)
  BY <1>9, SameObjects DEF OnHashError
<1>10. CASE Destroy \/ \E p \in Pieces : OnStoreError(p)
  BY <1>10, SameObjects DEF Destroy, OnStoreError, DestroyTorrent
<1>11. CASE \E p \in Pieces : Select(p) \/ Deselect(p)
  BY <1>11, SameObjects DEF Select, Deselect
<1>. QED
  BY <1>1, <1>2, <1>3, <1>4, <1>5, <1>6, <1>7, <1>8, <1>9, <1>10, <1>11 DEF Next

(* In every instance, a block that nobody holds, nobody was asked for and  *)
(* nobody can be asked for belongs to a piece that was answered before     *)
(* ready or lost a web-seed reservation.                                   *)
THEOREM LossExplained == Spec => []LossIsExplained
<1>1. Init => LossIsExplained
  <2>. SUFFICES ASSUME Init, NEW p \in Pieces, NEW b \in 0 .. Chunks[p] - 1 PROVE ~Lost(p, b)
    BY DEF LossIsExplained
  <2>1. pieces[p] = NewPiece(1, Chunks[p])
    BY DEF Init
  <2>2. pieces[p].reservations = 0
    BY <2>1 DEF NewPiece
  <2>. QED
    BY <2>2, ChunksAssumption DEF Lost
<1>. QED
  BY <1>1, NextLoss, Invariance, PTL DEF Spec

-----------------------------------------------------------------------------
(* With peers only, and no wire before ready, no piece ever becomes leaky. *)
Quiet ==
    /\ leaky = {}
    /\ ~ready => requests = {} /\ \A w \in Wires : conn[w] = "none"

LEMMA NextQuiet ==
    ASSUME WebSeeds = {}, EarlyWires = FALSE, IInv, Quiet, [Next]_vars
    PROVE  Quiet'
<1>. USE DEF Quiet, pieceVars, wireVars, lifeVars
<1>1. CASE UNCHANGED vars
  BY <1>1 DEF vars
<1>2. CASE \E p \in Pieces : MarkStored(p)
  BY <1>2 DEF MarkStored
<1>3. CASE OnStore
  BY <1>3 DEF OnStore
<1>4. CASE \E w \in Wires : HandleWire(w) \/ OnHave(w) \/ OnUnchoke(w) \/ OnChoke(w) \/ OnEnd(w)
  BY <1>4 DEF HandleWire, OnHave, OnUnchoke, OnChoke, OnEnd, OnlyWires
<1>5. CASE \E w \in Wires, p \in Pieces : OnDontHave(w, p) \/ Serve(w, p)
  BY <1>5 DEF OnDontHave, OnlyWires, Serve
<1>6. CASE \E w \in Wires, p \in Pieces : SendRequest(w, p)
  BY <1>6 DEF SendRequest, CanRequest, Usable
<1>7. CASE EndUpdate
  BY <1>7 DEF EndUpdate
<1>8. CASE \E r \in requests : OnPiece(r) \/ OnError(r)
  <2>1. PICK r \in requests : OnPiece(r) \/ OnError(r)
    BY <1>8
  <2>2. ready
    OBVIOUS
  <2>3. ready' /\ r.wire \notin WebSeeds
    BY <2>1, <2>2 DEF OnPiece, OnError, OnlyAnswer
  <2>4. leaky' = leaky
    BY <2>1, <2>2, <2>3 DEF OnPiece, OnError, Ignored, Park
  <2>. QED
    BY <2>3, <2>4
<1>9. CASE \E p \in Pieces : OnHash(p) \/ OnHashError(p) \/ OnStored(p)
  BY <1>9 DEF OnHash, OnHashError, OnStored
<1>10. CASE Destroy \/ \E p \in Pieces : OnStoreError(p)
  BY <1>10 DEF Destroy, OnStoreError, DestroyTorrent
<1>11. CASE \E p \in Pieces : Select(p) \/ Deselect(p)
  BY <1>11 DEF Select, Deselect
<1>. QED
  BY <1>1, <1>2, <1>3, <1>4, <1>5, <1>6, <1>7, <1>8, <1>9, <1>10, <1>11 DEF Next

(* With peers only, and no wire before ready, no block is ever lost.       *)
THEOREM NothingLost ==
    ASSUME WebSeeds = {}, EarlyWires = FALSE
    PROVE  Spec => []NoLostBlock
<1>1. Init => Quiet
  BY DEF Init, Quiet
<1>2. IInv /\ Quiet /\ [Next]_vars => Quiet'
  BY NextQuiet
<1>3. LossIsExplained /\ Quiet => NoLostBlock
  BY DEF LossIsExplained, Quiet, NoLostBlock
<1>. QED
  BY <1>1, <1>2, <1>3, LossExplained, Invariance, PTL DEF Spec

-----------------------------------------------------------------------------

(* What flush() relies on: Piece._buffered counts the blocks present, and  *)
(* a flushed object has all of them.                                       *)
Present(pc) == {b \in Blocks(pc) : pc.buffer[b] # None}

Tallied(pc) ==
    /\ pc.buffered = Cardinality(Present(pc))
    /\ pc.flushed => Present(pc) = Blocks(pc)

AllTallied == \A p \in Pieces : pieces[p] # NoPiece => Tallied(pieces[p])

-----------------------------------------------------------------------------
LEMMA NewPieceTallied ==
    ASSUME NEW n \in Nat \ {0}, NEW id
    PROVE  Tallied(NewPiece(id, n))
<1>. DEFINE x == NewPiece(id, n)
<1>1. /\ x.buffered = 0 /\ ~x.flushed /\ x.chunks = n
      /\ x.buffer = [b \in 0 .. n - 1 |-> None]
  BY DEF NewPiece
<1>. HIDE DEF x
<1>2. Present(x) = {}
  BY <1>1 DEF Present, Blocks
<1>3. Tallied(x)
  BY <1>1, <1>2, FS_EmptySet DEF Tallied
<1>. QED
  BY <1>3 DEF x

(* Reserving and giving back leave the buffer alone.                       *)
LEMMA ReservingTallied ==
    ASSUME NEW n \in Nat \ {0}, NEW pc \in PieceType(n), Tallied(pc), NEW b
    PROVE  /\ Tallied(Reserve(pc)) /\ Tallied(ReserveRemaining(pc))
           /\ Tallied(Cancel(pc, b)) /\ Tallied(CancelRemaining(pc, b))
<1>1. ASSUME NEW x, x.buffer = pc.buffer, x.buffered = pc.buffered,
             x.flushed = pc.flushed, x.chunks = pc.chunks
      PROVE  Tallied(x)
  BY <1>1 DEF Tallied, Present, Blocks
<1>2. Tallied(Reserve(pc))
  BY <1>1 DEF Reserve, PieceType
<1>3. Tallied(ReserveRemaining(pc))
  BY <1>1 DEF ReserveRemaining, PieceType
<1>4. Tallied(Cancel(pc, b))
  BY <1>1 DEF Cancel, PieceType
<1>5. Tallied(CancelRemaining(pc, b))
  BY <1>1 DEF CancelRemaining, PieceType
<1>. QED
  BY <1>2, <1>3, <1>4, <1>5

(* set() counts exactly the blocks it fills, also when a block of the      *)
(* range was there before.                                                 *)
LEMMA SetBlocksTallied ==
    ASSUME NEW n \in Nat \ {0}, NEW pc \in PieceType(n), Tallied(pc),
           NEW range \in SUBSET (0 .. n - 1), NEW data \in Content
    PROVE  Tallied(SetBlocks(pc, range, data))
<1>1. CASE pc.flushed
  BY <1>1 DEF SetBlocks
<1>2. CASE ~pc.flushed
  <2>. DEFINE x == SetBlocks(pc, range, data)
              old == Present(pc)
              new == Missing(pc, range)
  <2>1. Blocks(pc) = 0 .. n - 1 /\ data # None
    BY DEF Blocks, PieceType, Content, Good, Bad, None
  <2>2. /\ x.chunks = pc.chunks /\ ~x.flushed
        /\ x.buffered = pc.buffered + Cardinality(new)
        /\ x.buffer = [b \in Blocks(pc) |-> IF b \in new THEN data ELSE pc.buffer[b]]
    BY <1>2 DEF SetBlocks, PieceType
  <2>. HIDE DEF x
  <2>3. Present(x) = old \cup new /\ old \cap new = {}
    BY <2>1, <2>2 DEF Present, Missing, Blocks
  <2>4. IsFiniteSet(old) /\ IsFiniteSet(new)
    <3>1. IsFiniteSet(0 .. n - 1)
      BY FS_Interval
    <3>2. old \in SUBSET (0 .. n - 1) /\ new \in SUBSET (0 .. n - 1)
      BY <2>1 DEF Present, Missing
    <3>. QED
      BY <3>1, <3>2, FS_Subset
  <2>5. Cardinality(old \cup new) = Cardinality(old) + Cardinality(new)
    <3>. HIDE DEF old, new
    <3>1. /\ Cardinality(old \cup new)
                 = Cardinality(old) + Cardinality(new) - Cardinality(old \cap new)
          /\ Cardinality(old) \in Nat /\ Cardinality(new) \in Nat
      BY <2>4, FS_Union, FS_CardinalityType
    <3>2. old \cap new = {}
      BY <2>3
    <3>3. Cardinality(old \cap new) = 0
      BY <3>2, FS_EmptySet, Zenon
    <3>. QED
      BY <3>1, <3>3
  <2>6. Tallied(x)
    BY <2>2, <2>3, <2>5 DEF Tallied
  <2>. QED
    BY <2>6 DEF x
<1>. QED
  BY <1>1, <1>2

(* set() says a piece is complete only when no block is missing.           *)
LEMMA FlushTallied ==
    ASSUME NEW n \in Nat \ {0}, NEW pc \in PieceType(n), Tallied(pc), Complete(pc)
    PROVE  Tallied(Flush(pc))
<1>. DEFINE x == Flush(pc)
<1>1. /\ x.buffer = pc.buffer /\ x.buffered = pc.buffered /\ x.chunks = pc.chunks
      /\ pc.chunks = n
  BY DEF Flush, PieceType
<1>. HIDE DEF x
<1>2. Present(x) = Present(pc) /\ Blocks(x) = 0 .. n - 1 /\ Blocks(pc) = 0 .. n - 1
  BY <1>1 DEF Present, Blocks
<1>3. Present(pc) = 0 .. n - 1
  <2>1. IsFiniteSet(0 .. n - 1) /\ Cardinality(0 .. n - 1) = n
    BY FS_Interval
  <2>2. Present(pc) \in SUBSET (0 .. n - 1)
    BY <1>2 DEF Present
  <2>3. Cardinality(Present(pc)) = n
    BY <1>1 DEF Tallied, Complete
  <2>. QED
    BY <2>1, <2>2, <2>3, FS_Subset
<1>4. Tallied(x)
  BY <1>1, <1>2, <1>3 DEF Tallied
<1>. QED
  BY <1>4 DEF x

-----------------------------------------------------------------------------
(* Writing a tallied object, or none, at one index.                        *)
LEMMA TalliedExcept ==
    ASSUME IInv, AllTallied, NEW p \in Pieces, NEW x, x # NoPiece => Tallied(x),
           pieces' = [pieces EXCEPT ![p] = x]
    PROVE  AllTallied'
<1>1. \A q \in Pieces : pieces'[q] = IF q = p THEN x ELSE pieces[q]
  BY DEF IInv, Typed, TypeOK, PiecesType
<1>2. \A q \in Pieces : pieces'[q] # NoPiece => Tallied(pieces'[q])
  BY <1>1 DEF AllTallied
<1>. QED
  BY <1>2 DEF AllTallied, Tallied, Present, Blocks

LEMMA NextTallied == IInv /\ AllTallied /\ [Next]_vars => AllTallied'
<1>. SUFFICES ASSUME IInv, AllTallied, [Next]_vars PROVE AllTallied'
  OBVIOUS
<1>. USE DEF pieceVars
<1>1. ASSUME pieces' = pieces PROVE AllTallied'
  BY <1>1 DEF AllTallied, Tallied, Present, Blocks
<1>2. \A p \in Pieces : Chunks[p] \in Nat \ {0}
  BY ChunksAssumption
<1>0. ASSUME NEW p \in Pieces, pieces[p] # NoPiece
      PROVE  pieces[p] \in PieceType(Chunks[p]) /\ Tallied(pieces[p])
  BY <1>0 DEF IInv, Typed, TypeOK, PiecesType, AllTallied
<1>3. CASE UNCHANGED vars
  BY <1>1, <1>3 DEF vars
<1>4. ASSUME NEW p \in Pieces, MarkStored(p) PROVE AllTallied'
  <2>1. CASE stored[p] = Good
    BY <1>4, <2>1, TalliedExcept DEF MarkStored
  <2>2. CASE stored[p] # Good
    <3>. DEFINE x == NewPiece(pieces[p].id + 1, Chunks[p])
    <3>1. pieces' = [pieces EXCEPT ![p] = x]
      BY <1>4, <2>2 DEF MarkStored
    <3>2. Chunks[p] \in Nat \ {0}
      BY <1>2
    <3>3. Tallied(x)
      BY <3>2, NewPieceTallied
    <3>. HIDE DEF x
    <3>. QED
      BY <3>1, <3>3, TalliedExcept
  <2>. QED
    BY <2>1, <2>2
<1>5. CASE \/ OnStore \/ EndUpdate \/ Destroy
           \/ \E p \in Pieces : \/ OnHashError(p) \/ OnStoreError(p)
                               \/ Select(p) \/ Deselect(p)
  BY <1>1, <1>5 DEF OnStore, EndUpdate, Destroy, OnHashError, OnStoreError, DestroyTorrent,
                    Select, Deselect
<1>6. CASE \E w \in Wires : HandleWire(w) \/ OnHave(w) \/ OnUnchoke(w) \/ OnChoke(w) \/ OnEnd(w)
  BY <1>1, <1>6 DEF HandleWire, OnHave, OnUnchoke, OnChoke, OnEnd, OnlyWires
<1>7. CASE \E w \in Wires, p \in Pieces : OnDontHave(w, p) \/ Serve(w, p)
  BY <1>1, <1>7 DEF OnDontHave, OnlyWires, Serve
<1>8. ASSUME NEW w \in Wires, NEW p \in Pieces, SendRequest(w, p) PROVE AllTallied'
  <2>. DEFINE x == IF w \in WebSeeds THEN ReserveRemaining(pieces[p]) ELSE Reserve(pieces[p])
  <2>1. pieces' = [pieces EXCEPT ![p] = x]
    BY <1>8 DEF SendRequest
  <2>2. pieces[p] # NoPiece
    BY <1>8 DEF SendRequest, CanRequest
  <2>3. Chunks[p] \in Nat \ {0} /\ pieces[p] \in PieceType(Chunks[p]) /\ Tallied(pieces[p])
    BY <1>0, <1>2, <2>2
  <2>4. Tallied(x)
    BY <2>3, ReservingTallied
  <2>. HIDE DEF x
  <2>. QED
    BY <2>1, <2>4, TalliedExcept
<1>9. ASSUME NEW r \in requests, OnPiece(r) PROVE AllTallied'
  <2>1. CASE Ignored(r)
    BY <1>1, <1>9, <2>1 DEF OnPiece, Park
  <2>2. CASE ~Ignored(r)
    <3>. DEFINE p == r.piece
                pc(data) == SetBlocks(pieces[p], Covers(r), data)
                x(data) == IF Complete(pc(data)) THEN Flush(pc(data)) ELSE pc(data)
    <3>1. PICK data \in Content : pieces' = [pieces EXCEPT ![p] = x(data)]
      BY <1>9, <2>2 DEF OnPiece
    <3>2. p \in Pieces /\ pieces[p] # NoPiece
      BY <2>2 DEF IInv, Typed, TypeOK, RequestsType, Request, Ignored, Current
    <3>0. Chunks[p] \in Nat \ {0} /\ pieces[p] \in PieceType(Chunks[p]) /\ Tallied(pieces[p])
      BY <1>0, <1>2, <3>2
    <3>3. Covers(r) \in SUBSET (0 .. Chunks[p] - 1)
      BY <3>0 DEF IInv, Typed, TypeOK, RequestsType, Request, Covers
    <3>4. pc(data) \in PieceType(Chunks[p]) /\ Tallied(pc(data))
      BY <3>0, <3>3, SetBlocksType, SetBlocksTallied
    <3>. HIDE DEF pc
    <3>5. Tallied(x(data))
      BY <3>0, <3>4, FlushTallied
    <3>. HIDE DEF x
    <3>. QED
      BY <3>1, <3>2, <3>5, TalliedExcept
  <2>. QED
    BY <2>1, <2>2
<1>10. ASSUME NEW r \in requests, OnError(r) PROVE AllTallied'
  <2>1. CASE Ignored(r)
    BY <1>1, <1>10, <2>1 DEF OnError, Park
  <2>2. CASE ~Ignored(r)
    <3>. DEFINE p == r.piece
                x == IF r.wire \in WebSeeds THEN CancelRemaining(pieces[p], r.first)
                                           ELSE Cancel(pieces[p], r.first)
    <3>1. pieces' = [pieces EXCEPT ![p] = x]
      BY <1>10, <2>2 DEF OnError
    <3>2. p \in Pieces /\ pieces[p] # NoPiece
      BY <2>2 DEF IInv, Typed, TypeOK, RequestsType, Request, Ignored, Current
    <3>3. Chunks[p] \in Nat \ {0} /\ pieces[p] \in PieceType(Chunks[p]) /\ Tallied(pieces[p])
      BY <1>0, <1>2, <3>2
    <3>4. Tallied(x)
      BY <3>3, ReservingTallied
    <3>. HIDE DEF x
    <3>. QED
      BY <3>1, <3>2, <3>4, TalliedExcept
  <2>. QED
    BY <2>1, <2>2
<1>11. ASSUME NEW p \in Pieces, OnHash(p) PROVE AllTallied'
  <2>1. CASE destroyed \/ HashMatches(pieces[p])
    BY <1>1, <1>11, <2>1 DEF OnHash
  <2>2. CASE ~(destroyed \/ HashMatches(pieces[p]))
    <3>. DEFINE x == NewPiece(pieces[p].id + 1, pieces[p].chunks)
    <3>1. pieces[p].chunks = Chunks[p]
      BY <1>11 DEF OnHash, IInv, Agreement, Typed, TypeOK, PiecesType, PieceType
    <3>2. pieces' = [pieces EXCEPT ![p] = x]
      BY <1>11, <2>2 DEF OnHash
    <3>3. Chunks[p] \in Nat \ {0}
      BY <1>2
    <3>4. Tallied(x)
      BY <3>1, <3>3, NewPieceTallied
    <3>. HIDE DEF x
    <3>. QED
      BY <3>2, <3>4, TalliedExcept
  <2>. QED
    BY <2>1, <2>2
<1>12. ASSUME NEW p \in Pieces, OnStored(p) PROVE AllTallied'
  BY <1>12, TalliedExcept DEF OnStored
<1>. QED
  BY <1>3, <1>4, <1>5, <1>6, <1>7, <1>8, <1>9, <1>10, <1>11, <1>12 DEF Next

(* Piece.flush() only ever runs on a piece that has every block, however   *)
(* peers and web seeds overlap, whatever fails and whatever comes twice.   *)
THEOREM FlushedFull == Spec => []FlushedIsFull
<1>1. Init => AllTallied
  <2>. SUFFICES ASSUME Init, NEW p \in Pieces PROVE Tallied(pieces[p])
    BY DEF AllTallied
  <2>. QED
    BY ChunksAssumption, NewPieceTallied DEF Init
<1>2. AllTallied => FlushedIsFull
  <2>. SUFFICES ASSUME AllTallied, NEW p \in Pieces, pieces[p] # NoPiece, pieces[p].flushed,
                       NEW b \in Blocks(pieces[p])
                PROVE  pieces[p].buffer[b] # None
    BY DEF FlushedIsFull
  <2>. QED
    BY DEF AllTallied, Tallied, Present
<1>. QED
  BY <1>1, <1>2, NextTallied, Invariance, PTL DEF Spec

-----------------------------------------------------------------------------
(* One request per block.  The blocks of an object that is not flushed are *)
(* split: above the mark untouched, below it given back (each of them once *)
(* on the stack), requested, or present.                                   *)
StackOnce(pc) ==
    \A i, j \in 1 .. Len(pc.cancellations) :
        pc.cancellations[i] = pc.cancellations[j] => i = j

Split(pc) ==
    /\ StackOnce(pc)
    /\ \A b \in Members(pc.cancellations) : b < pc.reservations /\ pc.buffer[b] = None
    /\ \A b \in Blocks(pc) : b >= pc.reservations => pc.buffer[b] = None

(* A block that is on its way: below the mark, not given back, not here.   *)
Taken(pc, b) ==
    /\ b < pc.reservations
    /\ b \notin Members(pc.cancellations)
    /\ pc.buffer[b] = None

Same(r, s) == r.piece = s.piece /\ r.id = s.id /\ r.first = s.first

(* No request is for an object yet to come; the requests for an object     *)
(* that is not flushed are for different blocks, all of them taken.        *)
Single ==
    /\ \A p \in Pieces : pieces[p] # NoPiece /\ ~pieces[p].flushed => Split(pieces[p])
    /\ \A r \in requests : pieces[r.piece] # NoPiece => r.id <= pieces[r.piece].id
    /\ \A r \in requests : Current(r) /\ ~pieces[r.piece].flushed =>
          Taken(pieces[r.piece], r.first)
    /\ \A r, s \in requests : Current(r) /\ ~pieces[r.piece].flushed /\ Same(r, s) => r = s

(* The stack of cancellations holds a block at most once.                  *)
LEMMA PopOnce ==
    ASSUME NEW n \in Nat, NEW s \in Seq(0 .. n - 1), s # << >>,
           \A i, j \in 1 .. Len(s) : s[i] = s[j] => i = j
    PROVE  LET t == SubSeq(s, 1, Len(s) - 1)
           IN  /\ Members(s) = Members(t) \cup {s[Len(s)]}
               /\ s[Len(s)] \notin Members(t)
               /\ \A i, j \in 1 .. Len(t) : t[i] = t[j] => i = j
<1>. DEFINE m == Len(s) - 1
            t == SubSeq(s, 1, m)
<1>1. m \in Nat /\ Len(s) = m + 1
  BY EmptySeq, LenProperties
<1>2. Len(t) = m /\ \A i \in 1 .. m : t[i] = s[i]
  <2>1. Len(s) \in Nat
    BY LenProperties
  <2>. QED
    BY <1>1, <2>1
<1>3. Members(s) = Members(t) \cup {s[Len(s)]}
  BY MembersPop
<1>4. s[Len(s)] \notin Members(t)
  BY <1>1, <1>2 DEF Members
<1>. QED
  BY <1>1, <1>2, <1>3, <1>4

LEMMA AppendOnce ==
    ASSUME NEW n \in Nat, NEW s \in Seq(0 .. n - 1), NEW b \in (0 .. n - 1) \ Members(s),
           \A i, j \in 1 .. Len(s) : s[i] = s[j] => i = j
    PROVE  LET t == Append(s, b)
           IN  \A i, j \in 1 .. Len(t) : t[i] = t[j] => i = j
<1>. DEFINE t == Append(s, b)
<1>1. /\ Len(s) \in Nat /\ Len(t) = Len(s) + 1
      /\ \A i \in 1 .. Len(s) : t[i] = s[i] /\ t[i] # b
      /\ t[Len(s) + 1] = b
  BY AppendProperties, LenProperties DEF Members
<1>. HIDE DEF t
<1>2. \A i \in 1 .. Len(t) : i \in 1 .. Len(s) \/ i = Len(s) + 1
  BY <1>1
<1>3. \A i, j \in 1 .. Len(t) : t[i] = t[j] => i = j
  BY <1>1, <1>2
<1>. QED
  BY <1>3 DEF t

LEMMA NewPieceSplit ==
    ASSUME NEW n \in Nat \ {0}, NEW id
    PROVE  Split(NewPiece(id, n))
<1>. DEFINE x == NewPiece(id, n)
<1>1. x.cancellations = << >> /\ x.chunks = n /\ x.buffer = [b \in 0 .. n - 1 |-> None]
  BY DEF NewPiece
<1>. HIDE DEF x
<1>2. Split(x)
  BY <1>1 DEF Split, StackOnce, Members, Blocks
<1>. QED
  BY <1>2 DEF x

(* reserve() takes one block that was not taken, and none that was.        *)
LEMMA ReserveSplit ==
    ASSUME NEW n \in Nat \ {0}, NEW pc \in PieceType(n), CanReserve(pc), Split(pc)
    PROVE  /\ Split(Reserve(pc)) /\ Taken(Reserve(pc), ReservedBlock(pc))
           /\ ~Taken(pc, ReservedBlock(pc))
           /\ \A b \in 0 .. n - 1 : Taken(pc, b) => Taken(Reserve(pc), b)
<1>. DEFINE x == Reserve(pc)
            s == pc.cancellations
            b == ReservedBlock(pc)
<1>1. /\ s \in Seq(0 .. n - 1) /\ pc.reservations \in 0 .. n /\ pc.chunks = n
      /\ Blocks(pc) = 0 .. n - 1 /\ b \in 0 .. n - 1
  BY ReserveType DEF PieceType, Blocks
<1>2. CASE s # << >>
  <2>. DEFINE t == SubSeq(s, 1, Len(s) - 1)
  <2>1. /\ x.cancellations = t /\ x.reservations = pc.reservations /\ b = s[Len(s)]
        /\ x.buffer = pc.buffer /\ x.chunks = pc.chunks
    BY <1>2 DEF Reserve, ReservedBlock, PieceType
  <2>2. /\ Members(s) = Members(t) \cup {b} /\ b \notin Members(t)
        /\ \A i, j \in 1 .. Len(t) : t[i] = t[j] => i = j
    <3>1. \A i, j \in 1 .. Len(s) : s[i] = s[j] => i = j
      BY DEF Split, StackOnce
    <3>. HIDE DEF s
    <3>2. LET u == SubSeq(s, 1, Len(s) - 1)
          IN  /\ Members(s) = Members(u) \cup {s[Len(s)]}
              /\ s[Len(s)] \notin Members(u)
              /\ \A i, j \in 1 .. Len(u) : u[i] = u[j] => i = j
      BY <1>1, <1>2, <3>1, PopOnce
    <3>. QED
      BY <2>1, <3>2
  <2>. HIDE DEF x, b, t
  <2>3. b < pc.reservations /\ pc.buffer[b] = None
    BY <2>2 DEF Split
  <2>4. Split(x)
    BY <2>1, <2>2 DEF Split, StackOnce, Blocks
  <2>5. Taken(x, b) /\ ~Taken(pc, b) /\ \A c \in 0 .. n - 1 : Taken(pc, c) => Taken(x, c)
    BY <2>1, <2>2, <2>3 DEF Taken
  <2>. QED
    BY <2>4, <2>5 DEF x, b
<1>3. CASE s = << >>
  <2>1. /\ x.cancellations = s /\ x.reservations = pc.reservations + 1 /\ b = pc.reservations
        /\ x.buffer = pc.buffer /\ x.chunks = pc.chunks
    BY <1>3 DEF Reserve, ReservedBlock, PieceType
  <2>2. Members(s) = {}
    BY <1>3 DEF Members
  <2>. HIDE DEF x, b
  <2>3. pc.buffer[b] = None
    BY <1>1, <2>1 DEF Split
  <2>4. Split(x)
    BY <1>1, <2>1, <2>2 DEF Split, StackOnce, Blocks
  <2>5. Taken(x, b) /\ ~Taken(pc, b) /\ \A c \in 0 .. n - 1 : Taken(pc, c) => Taken(x, c)
    BY <1>1, <2>1, <2>2, <2>3 DEF Taken
  <2>. QED
    BY <2>4, <2>5 DEF x, b
<1>. QED
  BY <1>2, <1>3

(* cancel() of a taken block gives back that block and no other.           *)
LEMMA CancelSplit ==
    ASSUME NEW n \in Nat \ {0}, NEW pc \in PieceType(n), ~pc.flushed, Split(pc),
           NEW b \in 0 .. n - 1, Taken(pc, b)
    PROVE  /\ Split(Cancel(pc, b))
           /\ \A c \in 0 .. n - 1 : c # b /\ Taken(pc, c) => Taken(Cancel(pc, b), c)
<1>. DEFINE x == Cancel(pc, b)
            s == pc.cancellations
            t == Append(s, b)
<1>1. s \in Seq(0 .. n - 1) /\ b \notin Members(s)
  BY DEF PieceType, Taken
<1>2. /\ x.cancellations = t /\ x.reservations = pc.reservations
      /\ x.buffer = pc.buffer /\ x.chunks = pc.chunks
  BY DEF Cancel, PieceType
<1>3. Members(t) = Members(s) \cup {b}
  BY <1>1, MembersAppend
<1>4. \A i, j \in 1 .. Len(t) : t[i] = t[j] => i = j
  BY <1>1, AppendOnce DEF Split, StackOnce
<1>. HIDE DEF x, t
<1>5. Split(x)
  BY <1>2, <1>3, <1>4 DEF Split, StackOnce, Blocks, Taken
<1>6. \A c \in 0 .. n - 1 : c # b /\ Taken(pc, c) => Taken(x, c)
  BY <1>2, <1>3 DEF Taken
<1>. QED
  BY <1>5, <1>6 DEF x

(* set() of a taken block fills that block and no other.                   *)
LEMMA SetSplit ==
    ASSUME NEW n \in Nat \ {0}, NEW pc \in PieceType(n), ~pc.flushed, Split(pc),
           NEW b \in 0 .. n - 1, Taken(pc, b), NEW data \in Content
    PROVE  /\ Split(SetBlocks(pc, {b}, data))
           /\ \A c \in 0 .. n - 1 : c # b /\ Taken(pc, c)
                                       => Taken(SetBlocks(pc, {b}, data), c)
<1>. DEFINE x == SetBlocks(pc, {b}, data)
<1>1. /\ x.cancellations = pc.cancellations /\ x.reservations = pc.reservations
      /\ x.chunks = pc.chunks
      /\ x.buffer = [c \in 0 .. n - 1 |-> IF c \in Missing(pc, {b}) THEN data ELSE pc.buffer[c]]
      /\ Blocks(pc) = 0 .. n - 1 /\ pc.reservations \in 0 .. n
      /\ Members(pc.cancellations) \subseteq 0 .. n - 1
  BY MembersType DEF SetBlocks, PieceType, Blocks
<1>. HIDE DEF x
<1>2. \A c \in 0 .. n - 1 : c # b => x.buffer[c] = pc.buffer[c]
  BY <1>1 DEF Missing
<1>3. Blocks(x) = 0 .. n - 1
  BY <1>1 DEF Blocks
<1>4. Split(x)
  <2>1. StackOnce(x)
    BY <1>1 DEF Split, StackOnce
  <2>2. \A c \in Members(x.cancellations) : c < x.reservations /\ x.buffer[c] = None
    BY <1>1, <1>2 DEF Split, Taken
  <2>3. \A c \in Blocks(x) : c >= x.reservations => x.buffer[c] = None
    <3>. SUFFICES ASSUME NEW c \in 0 .. n - 1, c >= pc.reservations PROVE x.buffer[c] = None
      BY <1>1, <1>3
    <3>1. c # b
      BY <1>1 DEF Taken
    <3>. QED
      BY <1>1, <1>2, <3>1 DEF Split
  <2>. QED
    BY <2>1, <2>2, <2>3 DEF Split
<1>5. \A c \in 0 .. n - 1 : c # b /\ Taken(pc, c) => Taken(x, c)
  BY <1>1, <1>2 DEF Taken
<1>. QED
  BY <1>4, <1>5 DEF x

-----------------------------------------------------------------------------
(* The objects stay and no request for a live object is added.             *)
LEMMA SingleSame ==
    ASSUME IInv, Single, pieces' = pieces,
           \A r \in requests' \ requests : r.id = 0 /\ r.piece \in Pieces
    PROVE  Single'
<1>1. \A p \in Pieces : pieces[p] # NoPiece => pieces[p].id \in Nat \ {0}
  BY DEF IInv, Typed, TypeOK, PiecesType, PieceType
<1>2. \A r \in requests' : Current(r)' => r \in requests /\ Current(r)
  BY <1>1 DEF Current
<1>3. \A p \in Pieces : pieces'[p] # NoPiece /\ ~pieces'[p].flushed => Split(pieces'[p])
  BY DEF Single
<1>4. \A r \in requests' : pieces'[r.piece] # NoPiece => r.id <= pieces'[r.piece].id
  BY <1>1 DEF Single
<1>5. \A r \in requests' : Current(r)' /\ ~pieces'[r.piece].flushed
                             => Taken(pieces'[r.piece], r.first)
  BY <1>2 DEF Single
<1>6. \A r, s \in requests' : Current(r)' /\ ~pieces'[r.piece].flushed /\ Same(r, s) => r = s
  BY <1>1, <1>2 DEF Single, Same, Current
<1>. QED
  BY <1>3, <1>4, <1>5, <1>6 DEF Single, Split, StackOnce, Members, Blocks, Taken, Same

(* One object changes, the requests only get fewer, and the requests that  *)
(* stay are for blocks that stay taken.                                    *)
LEMMA SingleChange ==
    ASSUME IInv, Single, NEW p \in Pieces, NEW x, pieces' = [pieces EXCEPT ![p] = x],
           requests' \subseteq requests,
           x # NoPiece => pieces[p] # NoPiece /\ x.id \in Nat /\ pieces[p].id <= x.id,
           x # NoPiece /\ ~x.flushed => Split(x),
           \A r \in requests' : r.piece = p /\ x # NoPiece /\ x.id = r.id /\ ~x.flushed =>
               Current(r) /\ ~pieces[p].flushed /\ Taken(x, r.first)
    PROVE  Single'
<1>1. \A q \in Pieces : pieces'[q] = IF q = p THEN x ELSE pieces[q]
  BY DEF IInv, Typed, TypeOK, PiecesType
<1>2. \A r \in requests : r.piece \in Pieces /\ r.id \in Nat
  BY DEF IInv, Typed, TypeOK, RequestsType, Request
<1>3. \A q \in Pieces : pieces[q] # NoPiece => pieces[q].id \in Nat
  BY DEF IInv, Typed, TypeOK, PiecesType, PieceType
<1>4. \A r \in requests' : Current(r)' /\ ~pieces'[r.piece].flushed
                             => /\ r \in requests /\ Current(r) /\ ~pieces[r.piece].flushed
                                /\ Taken(pieces'[r.piece], r.first)
  BY <1>1, <1>2 DEF Single, Current
<1>5. \A q \in Pieces : pieces'[q] # NoPiece /\ ~pieces'[q].flushed => Split(pieces'[q])
  BY <1>1 DEF Single
<1>6. \A r \in requests' : pieces'[r.piece] # NoPiece => r.id <= pieces'[r.piece].id
  BY <1>1, <1>2, <1>3 DEF Single
<1>7. \A r, s \in requests' : Current(r)' /\ ~pieces'[r.piece].flushed /\ Same(r, s) => r = s
  BY <1>4 DEF Single
<1>. QED
  BY <1>4, <1>5, <1>6, <1>7 DEF Single, Split, StackOnce, Members, Blocks, Taken, Same

(* A new object has no request, a dropped one needs none.                  *)
LEMMA SingleFresh ==
    ASSUME IInv, Single, NEW p \in Pieces, requests' = requests,
           \/ pieces' = [pieces EXCEPT ![p] = NoPiece]
           \/ /\ pieces[p] # NoPiece
              /\ pieces' = [pieces EXCEPT ![p] = NewPiece(pieces[p].id + 1, Chunks[p])]
    PROVE  Single'
<1>1. CASE pieces' = [pieces EXCEPT ![p] = NoPiece]
  BY <1>1, SingleChange
<1>2. CASE /\ pieces[p] # NoPiece
           /\ pieces' = [pieces EXCEPT ![p] = NewPiece(pieces[p].id + 1, Chunks[p])]
  <2>. DEFINE x == NewPiece(pieces[p].id + 1, Chunks[p])
  <2>1. Chunks[p] \in Nat \ {0} /\ pieces[p].id \in Nat
    BY <1>2, ChunksAssumption DEF IInv, Typed, TypeOK, PiecesType, PieceType
  <2>2. x.id = pieces[p].id + 1 /\ Split(x)
    BY <2>1, NewPieceSplit DEF NewPiece
  <2>3. \A r \in requests : r.piece = p => r.id # x.id
    <3>1. \A r \in requests : r.id \in Nat
      BY DEF IInv, Typed, TypeOK, RequestsType, Request
    <3>. QED
      BY <1>2, <2>1, <2>2, <3>1 DEF Single
  <2>. HIDE DEF x
  <2>4. pieces' = [pieces EXCEPT ![p] = x]
    BY <1>2 DEF x
  <2>5. x.id \in Nat /\ pieces[p].id <= x.id
    BY <2>1, <2>2
  <2>6. \A r \in requests' : r.piece = p /\ x # NoPiece /\ x.id = r.id /\ ~x.flushed =>
            Current(r) /\ ~pieces[p].flushed /\ Taken(x, r.first)
    BY <2>3
  <2>7. requests' \subseteq requests
    OBVIOUS
  <2>8. x # NoPiece => pieces[p] # NoPiece /\ x.id \in Nat /\ pieces[p].id <= x.id
    BY <1>2, <2>5
  <2>9. x # NoPiece /\ ~x.flushed => Split(x)
    BY <2>2
  <2>. QED
    BY <2>4, <2>6, <2>7, <2>8, <2>9, SingleChange
<1>. QED
  BY <1>1, <1>2

LEMMA SendRequestSingle ==
    ASSUME WebSeeds = {}, IInv, Single, NEW w \in Wires, NEW p \in Pieces, SendRequest(w, p)
    PROVE  Single'
<1>. DEFINE pc == pieces[p]
            x  == Reserve(pc)
            b  == ReservedBlock(pc)
<1>1. /\ pc \in PieceType(Chunks[p]) /\ pc # NoPiece /\ ~pc.flushed
      /\ CanReserve(pc) /\ Chunks[p] \in Nat \ {0}
  BY ChunksAssumption DEF SendRequest, CanRequest, CanReserve, IInv, Typed, TypeOK, PiecesType
<1>. PICK n : n = [wire |-> w, slot |-> FreeSlot(w), piece |-> p, id |-> pc.id, first |-> b]
  OBVIOUS
<1>2. pieces' = [pieces EXCEPT ![p] = x] /\ requests' = requests \cup {n}
  BY DEF SendRequest
<1>3. /\ Split(x) /\ Taken(x, b) /\ ~Taken(pc, b)
      /\ \A c \in 0 .. Chunks[p] - 1 : Taken(pc, c) => Taken(x, c)
  BY <1>1, ReserveSplit DEF Single
<1>4. x.id = pc.id /\ x.flushed = pc.flushed /\ x # NoPiece /\ pc.id \in Nat
  <2>1. x.id = pc.id /\ x.flushed = pc.flushed
    BY <1>1, ReserveKeeps
  <2>2. x \in PieceType(Chunks[p])
    BY <1>1, ReserveType
  <2>. QED
    BY <1>1, <2>1, <2>2, NoPieceAssumption DEF PieceType
<1>. HIDE DEF x, b
<1>5. \A q \in Pieces : pieces'[q] = IF q = p THEN x ELSE pieces[q]
  BY <1>2 DEF IInv, Typed, TypeOK, PiecesType
<1>6. \A r \in requests : /\ r.piece \in Pieces /\ r.id \in Nat
                          /\ r.first \in 0 .. Chunks[r.piece] - 1
  BY ChunksAssumption DEF IInv, Typed, TypeOK, RequestsType, Request
<1>7. \A r \in requests : /\ Current(r)' <=> Current(r)
                          /\ pieces[r.piece] # NoPiece =>
                                /\ pieces'[r.piece].flushed = pieces[r.piece].flushed
                                /\ pieces'[r.piece].id = pieces[r.piece].id
                          /\ pieces'[r.piece] = NoPiece <=> pieces[r.piece] = NoPiece
  BY <1>1, <1>4, <1>5, <1>6 DEF Current
<1>8. \A r \in requests : ~Same(r, n) /\ ~Same(n, r)
  <2>. SUFFICES ASSUME NEW r \in requests, r.piece = p, r.id = pc.id, r.first = b PROVE FALSE
    BY DEF Same
  <2>. QED
    BY <1>1, <1>3 DEF Single, Current
<1>9. \A q \in Pieces : pieces'[q] # NoPiece /\ ~pieces'[q].flushed => Split(pieces'[q])
  BY <1>3, <1>5 DEF Single
<1>10. \A r \in requests' : pieces'[r.piece] # NoPiece => r.id <= pieces'[r.piece].id
  BY <1>2, <1>4, <1>5, <1>7 DEF Single
<1>11. \A r \in requests' : Current(r)' /\ ~pieces'[r.piece].flushed
                             => Taken(pieces'[r.piece], r.first)
  <2>1. Taken(pieces'[n.piece], n.first)
    BY <1>3, <1>5
  <2>2. ASSUME NEW r \in requests, Current(r)', ~pieces'[r.piece].flushed
        PROVE  Taken(pieces'[r.piece], r.first)
    <3>1. Taken(pieces[r.piece], r.first)
      BY <1>7, <2>2 DEF Single, Current
    <3>. QED
      BY <1>3, <1>5, <1>6, <3>1
  <2>. QED
    BY <1>2, <2>1, <2>2
<1>12. \A r, s \in requests' : Current(r)' /\ ~pieces'[r.piece].flushed /\ Same(r, s) => r = s
  <2>. SUFFICES ASSUME NEW r \in requests, NEW s \in requests,
                       Current(r)', ~pieces'[r.piece].flushed, Same(r, s)
                PROVE  r = s
    BY <1>2, <1>8
  <2>. QED
    BY <1>7 DEF Single, Current
<1>. QED
  BY <1>9, <1>10, <1>11, <1>12 DEF Single, Split, StackOnce, Members, Blocks, Taken, Same

(* An answer for the current object settles its own block and no other.    *)
LEMMA AnswerSingle ==
    ASSUME WebSeeds = {}, IInv, Single, NEW r \in requests, OnPiece(r) \/ OnError(r)
    PROVE  Single'
<1>1. requests' = requests \ {r}
  BY DEF OnPiece, OnError, OnlyAnswer
<1>2. CASE Ignored(r)
  BY <1>1, <1>2, SingleSame DEF OnPiece, OnError, Park
<1>3. CASE ~Ignored(r)
  <2>. DEFINE p == r.piece
              pc == pieces[p]
              n == Chunks[p]
              b == r.first
  <2>1. p \in Pieces /\ pc # NoPiece /\ Current(r)
    BY <1>3 DEF IInv, Typed, TypeOK, RequestsType, Request, Ignored, Current
  <2>2. pc \in PieceType(n) /\ n \in Nat \ {0} /\ pc.id \in Nat
    BY <2>1, ChunksAssumption DEF IInv, Typed, TypeOK, PiecesType, PieceType
  <2>3. b \in 0 .. n - 1 /\ Covers(r) = {b} /\ r.wire \notin WebSeeds
    BY <2>2 DEF IInv, Typed, TypeOK, RequestsType, Request, Covers
  <2>4. ~pc.flushed => Split(pc) /\ Taken(pc, b)
    BY <2>1 DEF Single
  <2>5. ASSUME NEW x, pieces' = [pieces EXCEPT ![p] = x], x.id = pc.id,
               pc.flushed => x.flushed,
               ~x.flushed => /\ Split(x)
                             /\ \A c \in 0 .. n - 1 : c # b /\ Taken(pc, c) => Taken(x, c)
        PROVE  Single'
    <3>1. ASSUME NEW s \in requests', s.piece = p, x.id = s.id, ~x.flushed
          PROVE  Current(s) /\ ~pieces[p].flushed /\ Taken(x, s.first)
      <4>1. s \in requests /\ s # r
        BY <1>1
      <4>2. Current(s) /\ ~pc.flushed
        BY <2>1, <2>5, <3>1 DEF Current
      <4>3. Taken(pc, s.first) /\ s.first \in 0 .. n - 1
        BY <3>1, <4>1, <4>2, <2>2
           DEF Single, IInv, Typed, TypeOK, RequestsType, Request
      <4>4. s.first # b
        <5>. SUFFICES ASSUME s.first = b PROVE FALSE
          OBVIOUS
        <5>1. Same(r, s)
          BY <2>1, <3>1, <4>2 DEF Same, Current
        <5>. QED
          BY <2>1, <4>1, <4>2, <5>1 DEF Single
      <4>. QED
        BY <2>5, <3>1, <4>2, <4>3, <4>4
    <3>2. \A s \in requests' : s.piece = p /\ x # NoPiece /\ x.id = s.id /\ ~x.flushed =>
              Current(s) /\ ~pieces[p].flushed /\ Taken(x, s.first)
      BY <3>1
    <3>3. requests' \subseteq requests
      BY <1>1
    <3>4. x # NoPiece => pieces[p] # NoPiece /\ x.id \in Nat /\ pieces[p].id <= x.id
      BY <2>1, <2>2, <2>5
    <3>5. x # NoPiece /\ ~x.flushed => Split(x)
      BY <2>5
    <3>. QED
      BY <2>1, <2>5, <3>2, <3>3, <3>4, <3>5, SingleChange
  <2>6. CASE OnPiece(r)
    <3>. DEFINE y(data) == SetBlocks(pc, {b}, data)
                x(data) == IF Complete(y(data)) THEN Flush(y(data)) ELSE y(data)
    <3>1. PICK data \in Content : pieces' = [pieces EXCEPT ![p] = x(data)]
      BY <1>3, <2>3, <2>6 DEF OnPiece
    <3>2. y(data) \in PieceType(n)
      BY <2>2, <2>3, SetBlocksType
    <3>3. /\ y(data).id = pc.id /\ y(data).flushed = pc.flushed
          /\ pc.flushed => y(data) = pc
      BY <2>2 DEF SetBlocks, PieceType
    <3>4. ~pc.flushed => /\ Split(y(data))
                         /\ \A c \in 0 .. n - 1 : c # b /\ Taken(pc, c) => Taken(y(data), c)
      BY <2>2, <2>3, <2>4, SetSplit
    <3>. HIDE DEF y
    <3>5. x(data).id = pc.id /\ (~x(data).flushed => x(data) = y(data))
      BY <3>2, <3>3 DEF Flush, PieceType
    <3>6. pc.flushed => x(data).flushed
      BY <3>2, <3>3 DEF Flush, PieceType
    <3>. HIDE DEF x
    <3>. QED
      BY <2>5, <3>1, <3>3, <3>4, <3>5, <3>6
  <2>7. CASE OnError(r)
    <3>. DEFINE x == Cancel(pc, b)
    <3>1. pieces' = [pieces EXCEPT ![p] = x]
      BY <1>3, <2>3, <2>7 DEF OnError
    <3>2. x.id = pc.id /\ x.flushed = pc.flushed
      BY <2>2 DEF Cancel, PieceType
    <3>3. ~pc.flushed => /\ Split(x)
                         /\ \A c \in 0 .. n - 1 : c # b /\ Taken(pc, c) => Taken(x, c)
      BY <2>2, <2>3, <2>4, CancelSplit
    <3>. HIDE DEF x
    <3>. QED
      BY <2>5, <3>1, <3>2, <3>3
  <2>. QED
    BY <2>6, <2>7
<1>. QED
  BY <1>2, <1>3

LEMMA NextSingle ==
    ASSUME WebSeeds = {}, IInv, Single, [Next]_vars
    PROVE  Single'
<1>. USE DEF pieceVars
<1>1. CASE UNCHANGED vars
  BY <1>1, SingleSame DEF vars
<1>2. CASE OnStore
  <2>1. \A d \in deferred : [d EXCEPT !.id = 0].id = 0 /\ [d EXCEPT !.id = 0].piece \in Pieces
    BY DEF IInv, Typed, TypeOK, RequestsType, Request
  <2>. QED
    BY <1>2, <2>1, SingleSame DEF OnStore
<1>3. CASE EndUpdate \/ Destroy
  BY <1>3, SingleSame DEF EndUpdate, Destroy, DestroyTorrent
<1>4. CASE \E w \in Wires : HandleWire(w) \/ OnHave(w) \/ OnUnchoke(w) \/ OnChoke(w) \/ OnEnd(w)
  BY <1>4, SingleSame DEF HandleWire, OnHave, OnUnchoke, OnChoke, OnEnd, OnlyWires
<1>5. CASE \E w \in Wires, p \in Pieces : OnDontHave(w, p) \/ Serve(w, p)
  BY <1>5, SingleSame DEF OnDontHave, OnlyWires, Serve
<1>6. CASE \E w \in Wires, p \in Pieces : SendRequest(w, p)
  BY <1>6, SendRequestSingle
<1>7. CASE \E r \in requests : OnPiece(r) \/ OnError(r)
  BY <1>7, AnswerSingle
<1>8. CASE \E p \in Pieces : OnHashError(p) \/ OnStoreError(p) \/ Select(p) \/ Deselect(p)
  BY <1>8, SingleSame DEF OnHashError, OnStoreError, DestroyTorrent, Select, Deselect
<1>9. ASSUME NEW p \in Pieces, MarkStored(p) PROVE Single'
  <2>1. pieces[p] # NoPiece /\ requests' = requests
    BY <1>9 DEF MarkStored, IInv, Agreement
  <2>. QED
    BY <1>9, <2>1, SingleFresh DEF MarkStored
<1>10. ASSUME NEW p \in Pieces, OnHash(p) PROVE Single'
  <2>1. pieces[p] # NoPiece /\ pieces[p].chunks = Chunks[p] /\ requests' = requests
    BY <1>10 DEF OnHash, IInv, Agreement, Typed, TypeOK, PiecesType, PieceType
  <2>2. CASE destroyed \/ HashMatches(pieces[p])
    BY <1>10, <2>1, <2>2, SingleSame DEF OnHash
  <2>3. CASE ~(destroyed \/ HashMatches(pieces[p]))
    BY <1>10, <2>1, <2>3, SingleFresh DEF OnHash
  <2>. QED
    BY <2>2, <2>3
<1>11. ASSUME NEW p \in Pieces, OnStored(p) PROVE Single'
  BY <1>11, SingleFresh DEF OnStored
<1>. QED
  BY <1>1, <1>2, <1>3, <1>4, <1>5, <1>6, <1>7, <1>8, <1>9, <1>10, <1>11 DEF Next

(* With peers only, even if their wires come before ready, a block is      *)
(* asked of one peer at a time and never when it is here, although blocks  *)
(* are given back, pieces start again after a bad hash, and late answers   *)
(* come in.                                                                *)
THEOREM OneRequest ==
    ASSUME WebSeeds = {}
    PROVE  Spec => []OneRequestPerBlock
<1>1. Init => Single
  <2>. SUFFICES ASSUME Init PROVE Single
    OBVIOUS
  <2>1. \A p \in Pieces : Split(pieces[p])
    BY ChunksAssumption, NewPieceSplit DEF Init
  <2>. QED
    BY <2>1 DEF Init, Single
<1>2. IInv /\ Single => OneRequestPerBlock
  BY DEF OneRequestPerBlock, Single, Taken, Same, Current
<1>. QED
  BY <1>1, <1>2, NextSingle, Invariance, PTL DEF Spec
=============================================================================
