-------------------------------- MODULE MCDht --------------------------------
(* Small instances of Dht for TLC. *)
EXTENDS Dht, TLC

CONSTANTS n1, n2, n3, h1, h2

AllScenes == {"table", "announce", "store"}
=============================================================================
