-------------------------- MODULE MCTrackerServer --------------------------
(* Small instances of TrackerServer for TLC. *)
EXTENDS TrackerServer, TLC

CONSTANTS s1, s2, p1, p2, a1, h1, h2

Announce(e, d) == [event |-> e, done |-> d]

SomeAnnounces ==
    {Announce("started", FALSE), Announce("update", TRUE),
     Announce("stopped", FALSE), Announce("other", FALSE)}

Sym == Permutations(Sockets)
=============================================================================
