------------------------------ MODULE Streaming ------------------------------
(***************************************************************************)
(* What a torrent is asked for, and the readers that ask: the selection    *)
(* calls of torrent.ts, and FileIterator (file-iterator.ts) as File        *)
(* (file.ts) hands it to a for-await loop or to a ReadableStream.          *)
(*                                                                         *)
(* A reader claims its pieces with a stream range, takes them in order,    *)
(* waits for 'verified' when a piece is not there yet, and gives its claim *)
(* back when it ends.  How pieces get verified is Torrent; here a piece    *)
(* that some range covers is verified some time.                           *)
(***************************************************************************)
EXTENDS Selections, FiniteSets

CONSTANTS
    NumPieces,   \* pieces are 0 .. NumPieces - 1
    Readers,     \* iterators that may be created
    Requests,    \* bound: the ranges a reader may be created for
    Calls        \* bound: the ranges select and deselect are called with

Pieces == 0 .. NumPieces - 1

Ranges == {ab \in Pieces \X Pieces : ab[1] <= ab[2]}

ASSUME StreamingAssumption ==
    NumPieces \in Nat \ {0} /\ Requests \subseteq Ranges /\ Calls \subseteq Ranges

VARIABLES
    items,       \* this.#selections
    have,        \* this.bitfield
    destroyed,   \* torrent.destroyed
    phase,       \* the life of each iterator: none, open, destroyed
    range,       \* its #startPiece and #endPiece
    nextPiece,   \* its #piece
    call,        \* what the promise of its last next() waits for
    outcome,     \* how the consumer's loop ended: none, done, left, failed
    got,         \* history: buffers the consumer received
    failedReads  \* history: the readers whose store.get failed

readerVars == <<phase, range, nextPiece, call, outcome, got, failedReads>>
vars == <<items, have, destroyed, readerVars>>

Claim(r) == Item(range[r].from, range[r].to, TRUE)

(* Mutant: the last piece of the range is left out.                        *)
Remaining_Short(r) == nextPiece[r] < range[r].to

(* #missing is not 0 yet.                                                  *)
Remaining(r) == nextPiece[r] <= range[r].to

-----------------------------------------------------------------------------
Init ==
    /\ items = << Item(0, NumPieces - 1, FALSE) >>
    /\ have = {}
    /\ destroyed = FALSE
    /\ phase = [r \in Readers |-> "none"]
    /\ range = [r \in Readers |-> [from |-> 0, to |-> 0]]
    /\ nextPiece = [r \in Readers |-> 0]
    /\ call = [r \in Readers |-> "none"]
    /\ outcome = [r \in Readers |-> "none"]
    /\ got = [r \in Readers |-> 0]
    /\ failedReads = {}

(* torrent.select and file.select.                                         *)
Select(a, b) ==
    /\ ~destroyed
    /\ items' = Insert(items, Item(a, b, FALSE))
    /\ UNCHANGED <<have, destroyed, readerVars>>

(* torrent.deselect and file.deselect.                                     *)
Deselect(a, b) ==
    /\ ~destroyed
    /\ items' = RemovePlain(items, Item(a, b, FALSE))
    /\ UNCHANGED <<have, destroyed, readerVars>>

(* The torrent is gone; the files are not told, so the readers stay.       *)
Destroy ==
    /\ ~destroyed
    /\ destroyed' = TRUE
    /\ UNCHANGED <<items, have, readerVars>>

-----------------------------------------------------------------------------
(* A reader of pieces a .. b is created (file.stream, for await ... of); a *)
(* file that is done is read from the store and needs no iterator.         *)
Open(r, a, b) ==
    /\ phase[r] = "none"
    /\ have # Pieces
    /\ phase' = [phase EXCEPT ![r] = "open"]
    /\ range' = [range EXCEPT ![r] = [from |-> a, to |-> b]]
    /\ nextPiece' = [nextPiece EXCEPT ![r] = a]
    /\ items' = IF destroyed THEN items ELSE Insert(items, Item(a, b, TRUE))
    /\ UNCHANGED <<have, destroyed, call, outcome, got, failedReads>>

(* FileIterator.destroy.                                                   *)
Close(r) ==
    /\ phase' = [phase EXCEPT ![r] = "destroyed"]
    /\ items' = IF destroyed \/ phase[r] = "destroyed" THEN items
                                                      ELSE RemoveStream(items, Claim(r))

End(r, how) == outcome' = [outcome EXCEPT ![r] = how]

(* The consumer calls next(): the range is exhausted, the piece is there   *)
(* and the store is asked, or the piece is awaited; critical() throws when *)
(* the torrent is destroyed.                                               *)
CallNext(r) ==
    /\ phase[r] = "open" /\ call[r] = "none" /\ outcome[r] = "none"
    /\ \/ /\ ~Remaining(r)
          /\ Close(r)
          /\ End(r, "done")
          /\ UNCHANGED <<nextPiece, call>>
       \/ /\ Remaining(r)
          /\ nextPiece' = [nextPiece EXCEPT ![r] = @ + 1]
          /\ \/ /\ nextPiece[r] \in have
                /\ call' = [call EXCEPT ![r] = "reading"]
                /\ UNCHANGED outcome
             \/ /\ nextPiece[r] \notin have /\ ~destroyed
                /\ call' = [call EXCEPT ![r] = "waiting"]
                /\ UNCHANGED outcome
             \/ /\ nextPiece[r] \notin have /\ destroyed
                /\ End(r, "failed")
                /\ UNCHANGED call
          /\ UNCHANGED <<phase, items>>
    /\ UNCHANGED <<have, destroyed, range, got, failedReads>>

(* The calls a 'verified' event of piece p ends or sends to the store: one *)
(* that waits for p, and any whose iterator was destroyed meanwhile.       *)
Told(p) == {r \in Readers : call[r] = "waiting"
                               /\ (nextPiece[r] = p + 1 \/ phase[r] = "destroyed")}

(* The engine announces a piece; it may do so after destroy, for a piece   *)
(* that was with the store.                                                *)
Verify(p) ==
    /\ p \notin have
    /\ have' = have \cup {p}
    /\ call' = [r \in Readers |->
          IF r \notin Told(p) THEN call[r]
          ELSE IF phase[r] = "open" THEN "reading" ELSE "none"]
    /\ UNCHANGED <<items, destroyed, phase, range, nextPiece, outcome, got, failedReads>>

(* store.get calls back.  An error destroys the iterator and is not passed *)
(* on: the consumer sees the end of the data.                              *)
Read(r, ok) ==
    /\ call[r] = "reading"
    /\ call' = [call EXCEPT ![r] = "none"]
    /\ \/ /\ phase[r] = "destroyed"
          /\ UNCHANGED <<items, phase, outcome, got, failedReads>>
       \/ /\ phase[r] = "open" /\ ok
          /\ got' = [got EXCEPT ![r] = @ + 1]
          /\ UNCHANGED <<items, phase, outcome, failedReads>>
       \/ /\ phase[r] = "open" /\ ~ok
          /\ Close(r)
          /\ End(r, "done")
          /\ failedReads' = failedReads \cup {r}
          /\ UNCHANGED got
    /\ UNCHANGED <<have, destroyed, range, nextPiece>>

(* The consumer leaves: break out of the loop between two calls, or cancel *)
(* of the ReadableStream, which may come while a call is outstanding.      *)
Leave(r) ==
    /\ phase[r] = "open" /\ outcome[r] = "none"
    /\ Close(r)
    /\ End(r, "left")
    /\ UNCHANGED <<have, destroyed, range, nextPiece, call, got, failedReads>>

Next ==
    \/ \E ab \in Calls : Select(ab[1], ab[2]) \/ Deselect(ab[1], ab[2])
    \/ Destroy
    \/ \E r \in Readers, ab \in Requests : Open(r, ab[1], ab[2])
    \/ \E r \in Readers : CallNext(r) \/ Leave(r)
    \/ \E r \in Readers, ok \in BOOLEAN : Read(r, ok)
    \/ \E p \in Pieces : Verify(p)

Spec == Init /\ [][Next]_vars

(* A piece that stays covered is verified some time while the torrent      *)
(* lives (Torrent's Completes), and the store answers.  Nothing is assumed *)
(* of the consumers.                                                       *)
Fairness ==
    /\ \A p \in Pieces : WF_vars(~destroyed /\ p \in Covered(items) /\ Verify(p))
    /\ \A r \in Readers : WF_vars(\E ok \in BOOLEAN : Read(r, ok))

FairSpec == Spec /\ Fairness

-----------------------------------------------------------------------------
(* The variables have their types; a reader that waits or reads has taken  *)
(* a piece of its own range.                                               *)
TypeOK ==
    /\ \A i \in DOMAIN items :
          /\ items[i].from \in Pieces /\ items[i].to \in -1 .. NumPieces - 1
          /\ items[i].stream => items[i].from <= items[i].to
    /\ have \subseteq Pieces /\ destroyed \in BOOLEAN
    /\ phase \in [Readers -> {"none", "open", "destroyed"}]
    /\ call \in [Readers -> {"none", "waiting", "reading"}]
    /\ outcome \in [Readers -> {"none", "done", "left", "failed"}]
    /\ failedReads \subseteq Readers
    /\ \A r \in Readers :
          /\ nextPiece[r] \in range[r].from .. range[r].to + 1
          /\ call[r] # "none" => nextPiece[r] > range[r].from
          /\ got[r] <= nextPiece[r] - range[r].from

(* However ranges are selected and deselected, two plain ranges that cover *)
(* something neither overlap nor touch: insert() merges what it meets and  *)
(* remove() cuts what is left (selections.ts, concatenate and remove).     *)
Normal ==
    \A i, j \in DOMAIN items :
        i < j /\ ~items[i].stream /\ ~items[j].stream
              /\ Covers(items[i]) # {} /\ Covers(items[j]) # {}
           => items[i].to + 1 < items[j].from \/ items[j].to + 1 < items[i].from

(* Deselecting the pieces of x meets a longer range that starts where x    *)
(* starts.                                                                 *)
CutsPrefix(x) == \E i \in DOMAIN items : ~items[i].stream /\ Prefix(x, items[i])

(* Whatever ranges earlier calls and the readers left behind, a call adds  *)
(* or takes away the pieces it names and no other, and never disturbs the  *)
(* range of a reader; a deselect that cuts the beginning of a range is     *)
(* left out here: the code takes too much then.                            *)
CallsAreExact ==
    [][\A ab \in Calls :
          LET x    == Item(ab[1], ab[2], FALSE)
              same == CoveredBy(TRUE, items') = CoveredBy(TRUE, items)
          IN  /\ Select(ab[1], ab[2]) =>
                    same /\ CoveredBy(FALSE, items') = CoveredBy(FALSE, items) \cup Covers(x)
              /\ Deselect(ab[1], ab[2]) /\ ~CutsPrefix(x) =>
                    same /\ CoveredBy(FALSE, items') = CoveredBy(FALSE, items) \ Covers(x)]_vars

(* While the torrent lives its stream ranges are the claims of the open    *)
(* readers, one for each, readers of the same pieces included: none is     *)
(* left behind by an end, an error or a cancel, none is taken from another *)
(* reader (FileIterator constructor and destroy).                          *)
Claims(x) == Cardinality({r \in Readers : phase[r] = "open" /\ Claim(r) = x})
StreamsAreReaders ==
    ~destroyed =>
        \A ab \in Ranges :
            Cardinality(Same(items, Item(ab[1], ab[2], TRUE))) = Claims(Item(ab[1], ab[2], TRUE))

(* A consumer that sees the end of the data has received every piece of    *)
(* its range, unless a read failed (FileIterator.next).                    *)
WholeRange ==
    \A r \in Readers :
        outcome[r] = "done" /\ r \notin failedReads
            => got[r] = range[r].to - range[r].from + 1

(* A consumer that waits for a piece gets it or leaves while the torrent   *)
(* lives, whatever is deselected and whichever other readers end           *)
(* (FileIterator.next, selectStreamPieces).                                *)
Served ==
    \A r \in Readers :
        call[r] = "waiting" /\ phase[r] = "open"
            ~> destroyed \/ call[r] = "none" \/ phase[r] # "open"

(* All three: what is selected is what was called for and what is read.    *)
RangesKept == []Normal /\ []StreamsAreReaders /\ CallsAreExact
=============================================================================
