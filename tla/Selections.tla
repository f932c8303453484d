----------------------------- MODULE Selections -----------------------------
(***************************************************************************)
(* The list of piece ranges a torrent is asked to download,                *)
(* packages/core/src/selections.ts.                                        *)
(*                                                                         *)
(* A range is a record; the priority and the notify callback it carries    *)
(* decide nothing.  A stream range belongs to one reader and is kept apart *)
(* from the others; the rest are merged when one is inserted and cut when  *)
(* one is removed.  A cut can leave a range whose to is below its from:    *)
(* it covers nothing, and stays until a later insertion covers it.         *)
(***************************************************************************)
EXTENDS Integers, Sequences, SequencesExt

Item(a, b, s) == [from |-> a, to |-> b, stream |-> s]

Covers(e) == e.from .. e.to

(* The pieces covered by the ranges of one kind, and by all of them.       *)
CoveredBy(s, items) ==
    UNION {Covers(items[i]) : i \in {j \in DOMAIN items : items[j].stream = s}}

Covered(items) == CoveredBy(TRUE, items) \cup CoveredBy(FALSE, items)

-----------------------------------------------------------------------------
(* remove(): what is left of one plain range e when x is removed.          *)

Below(x, e)  == x.from > e.from /\ x.from <= e.to /\ x.to >= e.to
Above(x, e)  == x.from < e.from /\ x.to >= e.from /\ x.to < e.to
Final(x, e)  == x.from = x.to /\ x.to = e.to
Prefix(x, e) == x.from = e.from /\ x.to >= e.from /\ x.to < e.to
Inside(x, e) == x.from > e.from /\ x.to < e.to
Around(x, e) == x.from <= e.from /\ x.to >= e.to

(* Mutant: what is left starts a piece too late.                           *)
After_Skip(x) == x.to + 2

After(x) == x.to + 1

(* The order of the guards matters for Final alone: where Below holds too  *)
(* it leaves the same range, and it comes before Around, so that a range   *)
(* of a single piece becomes an empty one.                                 *)
Left(x, e) ==
    IF Below(x, e) THEN << [e EXCEPT !.to = x.from - 1] >>
    ELSE IF Above(x, e) THEN << [e EXCEPT !.from = After(x)] >>
    ELSE IF Final(x, e) THEN << [e EXCEPT !.to = @ - 1] >>
    ELSE IF Prefix(x, e) THEN << [e EXCEPT !.to = IF x.from = 0 THEN 0 ELSE x.from - 1] >>
    ELSE IF Inside(x, e) THEN << [e EXCEPT !.to = x.from - 1], [e EXCEPT !.from = After(x)] >>
    ELSE IF Around(x, e) THEN << >>
    ELSE << e >>

RemovePlain(items, x) ==
    LET cut(rest, e) == rest \o IF e.stream THEN << e >> ELSE Left(x, e)
    IN  FoldLeft(cut, << >>, items)

(* A stream range is removed only by naming it exactly, one of its kind.   *)
Same(items, x) == {i \in DOMAIN items : items[i] = x}

(* Mutant: every stream range with these bounds is removed.                *)
RemoveStream_All(items, x) == SelectSeq(items, LAMBDA e : e # x)

RemoveStream(items, x) ==
    IF Same(items, x) = {} THEN items
    ELSE RemoveAt(items, CHOOSE i \in Same(items, x) : \A j \in Same(items, x) : i <= j)

-----------------------------------------------------------------------------
(* concatenate(): the new range grows over every plain range it meets, in  *)
(* the order of the list, and replaces what it then covers.                *)

Meets(x, e) ==
    \/ x.from <= e.to + 1 /\ x.from > e.from /\ x.to > e.to
    \/ x.to >= e.from - 1 /\ x.to < e.to /\ x.from < e.from
    \/ x.from >= e.from /\ x.to <= e.to /\ x.to - x.from < e.to - e.from

Grow(x, e) ==
    IF ~e.stream /\ Meets(x, e)
    THEN [x EXCEPT !.from = IF e.from < @ THEN e.from ELSE @,
                   !.to   = IF e.to > @ THEN e.to ELSE @]
    ELSE x

(* insert(): stream ranges are only appended.                              *)
Insert(items, x) ==
    IF x.stream THEN Append(items, x)
    ELSE LET grown == FoldLeft(Grow, x, items)
         IN  Append(RemovePlain(items, grown), grown)
=============================================================================
