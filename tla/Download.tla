------------------------------ MODULE Download ------------------------------
(***************************************************************************)
(* What a torrent promises to the application and to the swarm, without    *)
(* saying how: pieces become available one by one, a piece is available    *)
(* only with the right bytes in the store, what is available stays so,     *)
(* only available pieces are uploaded, and 'done' is emitted when every    *)
(* file is available.  Torrent implements this specification.              *)
(***************************************************************************)
CONSTANTS Pieces, Files     \* Files: file -> the set of pieces it touches

VARIABLES
    have,       \* the pieces announced as available
    store,      \* the bytes in the store: "good" or "bad"
    uploaded,   \* the bytes sent to peers so far
    done        \* 'done' was emitted

vars == <<have, store, uploaded, done>>

Complete(S) == \A f \in DOMAIN Files : Files[f] \subseteq S

Init ==
    /\ have = {}
    /\ store \in [Pieces -> {"good", "bad"}]
    /\ uploaded = {}
    /\ done = FALSE

(* A piece becomes available; the step may find the download complete.     *)
Verify(p) ==
    /\ p \notin have
    /\ have' = have \cup {p}
    /\ store' = [store EXCEPT ![p] = "good"]
    /\ done' \in {done, done \/ Complete(have')}
    /\ UNCHANGED uploaded

(* A failed write may spoil what is not available.                         *)
Spoil(p) ==
    /\ p \notin have
    /\ \E bytes \in {"good", "bad"} : store' = [store EXCEPT ![p] = bytes]
    /\ UNCHANGED <<have, uploaded, done>>

Announce ==
    /\ Complete(have)
    /\ done' = TRUE
    /\ UNCHANGED <<have, store, uploaded>>

Upload(p) ==
    /\ p \in have
    /\ uploaded' = uploaded \cup {store[p]}
    /\ UNCHANGED <<have, store, done>>

Next == Announce \/ \E p \in Pieces : Verify(p) \/ Spoil(p) \/ Upload(p)

Spec == Init /\ [][Next]_vars

(* Nothing but the right bytes is announced or uploaded, and done means    *)
(* that every file is there.                                               *)
Integrity ==
    /\ \A p \in have : store[p] = "good"
    /\ uploaded \subseteq {"good"}
    /\ done => Complete(have)
=============================================================================
