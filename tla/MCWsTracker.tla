----------------------------- MODULE MCWsTracker -----------------------------
(* Small instances of WsTracker for TLC. *)
EXTENDS WsTracker, TLC

CONSTANTS t1, t2, k1, k2, o1, o2

Sym == Permutations(Socks) \cup Permutations(Offers) \cup Permutations(Trackers)
=============================================================================
