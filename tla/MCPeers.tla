------------------------------ MODULE MCPeers ------------------------------
(* Small instances of Peers for TLC. *)
EXTENDS Peers, TLC

CONSTANTS o1, o2, o3, o4, a1, a2, a3

Sym == Permutations(Objects)
=============================================================================
