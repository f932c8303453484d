----------------------------- MODULE MCTorrent -----------------------------
(* Small instances of Torrent for TLC. *)
EXTENDS Torrent

CONSTANTS p1, w1, w2, s1

TwoChunks == [p \in Pieces |-> 2]
OneFile   == [f \in {"file"} |-> Pieces]
TwoFiles  == [f \in {"first", "second"} |-> Pieces]
=============================================================================
