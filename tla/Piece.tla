------------------------------- MODULE Piece -------------------------------
(***************************************************************************)
(* The block book-keeping of one piece under download,                     *)
(* packages/utils/src/piece.ts.                                            *)
(*                                                                         *)
(* A Piece object is a record.  A method that changes the object is an     *)
(* operator from the record to the changed record; the value it returns is *)
(* an operator of its own.  The lazily allocated arrays (init) are present *)
(* from the start: the only thing init decides is that a flushed piece     *)
(* answers no call.  The content of a block is only what the hash check    *)
(* can tell apart: absent, the right bytes, or wrong bytes.                *)
(***************************************************************************)
EXTENDS Integers, Sequences, FiniteSets

None == "none"      \* the buffer slot is empty
Good == "good"      \* the bytes the info dictionary's hash is about
Bad  == "bad"       \* any other bytes

Content == {Good, Bad}

(* What the constructor leaves; id is the identity of the object, which    *)
(* the torrent's callbacks compare (piece !== this.pieces[index]).         *)
NewPiece(id, n) ==
    [ id            |-> id,
      chunks        |-> n,
      buffer        |-> [b \in 0 .. n - 1 |-> None],
      buffered      |-> 0,
      cancellations |-> << >>,
      reservations  |-> 0,
      flushed       |-> FALSE ]

Blocks(pc) == 0 .. pc.chunks - 1

(* The members of a cancellation stack. *)
Members(s) == {s[i] : i \in 1 .. Len(s)}

(* Mutant: one block too many can be reserved.                             *)
CanReserve_OffByOne(pc) ==
    /\ ~pc.flushed
    /\ pc.cancellations # << >> \/ pc.reservations <= pc.chunks

(* reserve() and reserveRemaining() return -1 exactly when this is false.  *)
CanReserve(pc) ==
    /\ ~pc.flushed
    /\ pc.cancellations # << >> \/ pc.reservations < pc.chunks

(* reserve(): the block handed to one peer, most recent cancellation first. *)
ReservedBlock(pc) ==
    IF pc.cancellations # << >> THEN pc.cancellations[Len(pc.cancellations)]
                                ELSE pc.reservations

(* Mutant: the oldest cancellation is dropped, the newest one handed out.  *)
Reserve_Shift(pc) ==
    IF pc.cancellations # << >>
    THEN [pc EXCEPT !.cancellations = SubSeq(@, 2, Len(@))]
    ELSE [pc EXCEPT !.reservations = @ + 1]

Reserve(pc) ==
    IF pc.cancellations # << >>
    THEN [pc EXCEPT !.cancellations = SubSeq(@, 1, Len(@) - 1)]
    ELSE [pc EXCEPT !.reservations = @ + 1]

(* Mutant: the tail starts at the mark, the cancellations are forgotten.   *)
RemainingFrom_Mark(pc) == pc.reservations

(* reserveRemaining(): a web seed takes the tail of the piece, from the    *)
(* lowest cancelled or untouched block, whoever holds blocks in that tail. *)
RemainingFrom(pc) ==
    LET open == Members(pc.cancellations) \cup {pc.reservations}
    IN  CHOOSE b \in open : \A c \in open : b <= c

ReserveRemaining(pc) ==
    [pc EXCEPT !.cancellations = << >>, !.reservations = pc.chunks]

(* Mutant: a cancelled block lowers the mark instead of being remembered.  *)
Cancel_LowerMark(pc, b) ==
    IF pc.flushed THEN pc ELSE [pc EXCEPT !.reservations = @ - 1]

Cancel(pc, b) ==
    IF pc.flushed THEN pc
                  ELSE [pc EXCEPT !.cancellations = Append(@, b)]

CancelRemaining(pc, b) ==
    IF pc.flushed THEN pc ELSE [pc EXCEPT !.reservations = b]

(* set(): blocks of the range that are already buffered keep their bytes.  *)
Missing(pc, range) == {b \in range : pc.buffer[b] = None}

(* Mutant: every block of the range is counted, buffered or not.           *)
SetBlocks_CountTwice(pc, range, data) ==
    IF pc.flushed THEN pc
    ELSE [pc EXCEPT
            !.buffered = @ + Cardinality(range),
            !.buffer   = [b \in Blocks(pc) |->
                            IF b \in Missing(pc, range) THEN data
                                                        ELSE pc.buffer[b]]]

SetBlocks(pc, range, data) ==
    IF pc.flushed THEN pc
    ELSE [pc EXCEPT
            !.buffered = @ + Cardinality(Missing(pc, range)),
            !.buffer   = [b \in Blocks(pc) |->
                            IF b \in Missing(pc, range) THEN data
                                                        ELSE pc.buffer[b]]]

(* set() returns true and flush() returns the bytes.                       *)
Complete(pc) == ~pc.flushed /\ pc.buffered = pc.chunks

Flush(pc) == [pc EXCEPT !.flushed = TRUE, !.cancellations = << >>]

(* The hash check of the flushed bytes succeeds.                           *)
HashMatches(pc) == \A b \in Blocks(pc) : pc.buffer[b] = Good

(* The type of a Piece object of n blocks.                                 *)
PieceType(n) ==
    [ id : Nat \ {0}, chunks : {n}, buffer : [0 .. n - 1 -> {None} \cup Content],
      buffered : Nat, cancellations : Seq(0 .. n - 1), reservations : 0 .. n,
      flushed : BOOLEAN ]
=============================================================================
