----------------------------- MODULE MCSwarming -----------------------------
(***************************************************************************)
(* Availability, Choking, Pex and WebConn on small instances.  The scene   *)
(* chosen at the start says which of them moves.                           *)
(***************************************************************************)
EXTENDS Availability, Pex

CONSTANTS w1, w2, w3, p1, p2, NoWire, a1, a2

VARIABLES scene, ready, ending, welcome, amChoking, interested, complete, favourite, rounds,
          layout, stage, up, down, asked, view, unchoked, fetching, retries, twice

(* Three wires, one of which may be a seeder, and two upload slots.        *)
C == INSTANCE Choking WITH Wires <- {w1, w2, w3}, Seeding <- {w1}, Slots <- 2, Rounds <- 2,
                           AlwaysChokeSeeders <- TRUE

(* Both ends learn of the same peer, or one of two; a message holds one of *)
(* each kind.                                                              *)
SomeCasts == {[a |-> {a1}, b |-> {a1}], [a |-> {a1, a2}, b |-> {}]}

(* Torrents of one to four files, with empty ones, in pieces of two bytes. *)
S == INSTANCE WebConn WITH Layouts <- {<<3>>, <<1, 2>>, <<1, 0, 1>>, <<0, 1, 1, 1>>},
                           PieceLength <- 2, MaxAsked <- 2, MaxPipe <- 2, MaxTimers <- 2,
                           phase <- stage, welcome <- unchoked

webVars == <<layout, stage, up, down, asked, view, unchoked, fetching, retries, twice>>

(* torrent.wires and the wires #onWireWithMetadata listens to are          *)
(* variables of both.                                                      *)
chokingVars == <<ready, ending, welcome, amChoking, interested, complete, favourite, rounds>>

availabilityVars == <<phase, missing, life, counted, has, all, greeted, wanted, seeders, refusing,
                      timers, mapVars>>

SwarmingInit ==
    /\ scene \in {"choking", "availability", "pex", "seed"}
    /\ Init
    /\ C!Init
    /\ PexInit /\ (scene # "pex" => known.b = {})
    /\ IF scene = "seed" THEN S!WebInit ELSE S!WebInit /\ layout = <<3>>

SwarmingNext ==
    \/ scene = "choking" /\ C!Next /\ UNCHANGED <<scene, availabilityVars, pexVars, webVars>>
    \/ scene = "availability" /\ Next /\ UNCHANGED <<scene, chokingVars, pexVars, webVars>>
    \/ /\ scene = "pex" /\ PexNext
       /\ UNCHANGED <<scene, vars, chokingVars, webVars>>
    \/ /\ scene = "seed" /\ S!WebNext
       /\ UNCHANGED <<scene, vars, chokingVars, pexVars>>

SwarmingSpec == SwarmingInit /\ [][SwarmingNext]_<<scene, vars, chokingVars, pexVars, webVars>> /\ C!Fairness

-----------------------------------------------------------------------------
(* Choking: a round of #rechoke spends no more than its slots, none on a   *)
(* seeder, and whoever is interested while there are enough is served.     *)
SlotsServe == C!SlotsServe

(* A web seed: exact bytes, an end of every request, a pause after errors. *)
SeedServes == S!SeedServes
=============================================================================
