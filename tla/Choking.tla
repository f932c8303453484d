------------------------------- MODULE Choking -------------------------------
(***************************************************************************)
(* Who may download from the torrent: #rechoke and the listeners of        *)
(* #onWireWithMetadata for interest and seeding, in torrent.ts.            *)
(*                                                                         *)
(* Speeds are not modelled: #rechoke may find the wires in any order.  A   *)
(* wire that destroyed itself stays in torrent.wires until its 'close'; a  *)
(* wire whose peer ended is taken out at once.  What a wire was is         *)
(* forgotten when it leaves, and its name is free for another wire unless  *)
(* #rechoke still holds it.                                                *)
(***************************************************************************)
EXTENDS Integers, FiniteSets

CONSTANTS
    Wires,              \* the wires that come and go
    Seeding,            \* bound: those of them whose peer may become complete
    Slots,              \* #rechokeNumSlots, a natural number
    Rounds,             \* RECHOKE_OPTIMISTIC_DURATION, at least one
    AlwaysChokeSeeders, \* torrent.alwaysChokeSeeders, a Boolean
    NoWire

VARIABLES
    ready,       \* torrent.ready
    swarm,       \* torrent.wires
    ending,      \* those that are destroyed already
    heeded,      \* those #onWireWithMetadata listens to
    welcome,     \* those whose first 'interested' is awaited
    amChoking,   \* those we choke
    interested,  \* those with peerInterested
    complete,    \* those whose peerPieces has every piece
    favourite,   \* #rechokeOptimisticWire
    rounds       \* #rechokeOptimisticTime

slotVars == <<favourite, rounds>>
vars == <<ready, swarm, ending, heeded, welcome, amChoking, interested, complete, slotVars>>

Open == swarm \ ending

(* isSeeder, which #onWireWithMetadata and its listeners keep.             *)
Seeders == complete \cap heeded

-----------------------------------------------------------------------------
(* Of the complete wires ws, those that are choked for it.                 *)
Refused(ws) == IF AlwaysChokeSeeders THEN ws ELSE {}

Init ==
    /\ ready = FALSE
    /\ swarm = {} /\ ending = {} /\ heeded = {} /\ welcome = {}
    /\ amChoking = {} /\ interested = {} /\ complete = {}
    /\ favourite = NoWire /\ rounds = 0

(* A handshake: handleWire, and #onWireWithMetadata in a microtask when    *)
(* the torrent is ready.                                                   *)
HandleWire(w) ==
    /\ w \notin swarm /\ w # favourite
    /\ swarm' = swarm \cup {w}
    /\ amChoking' = amChoking \cup {w}
    /\ heeded' = IF ready THEN heeded \cup {w} ELSE heeded
    /\ welcome' = IF ready THEN welcome \cup {w} ELSE welcome
    /\ UNCHANGED <<ready, ending, interested, complete, slotVars>>

(* #onStore: the wires that came before the metadata.                      *)
OnStore ==
    /\ ~ready
    /\ ready' = TRUE
    /\ heeded' = heeded \cup Open
    /\ welcome' = welcome \cup Open
    /\ amChoking' = amChoking \cup Refused(Open \cap complete)
    /\ UNCHANGED <<swarm, ending, interested, complete, slotVars>>

-----------------------------------------------------------------------------
(* The first 'interested' of a wire is answered at once.                   *)
Interested(w) ==
    /\ w \in Open
    /\ interested' = interested \cup {w}
    /\ amChoking' = amChoking \ (welcome \cap {w})
    /\ welcome' = welcome \ {w}
    /\ UNCHANGED <<ready, swarm, ending, heeded, complete, slotVars>>

Uninterested(w) ==
    /\ w \in Open
    /\ interested' = interested \ {w}
    /\ UNCHANGED <<ready, swarm, ending, heeded, welcome, amChoking, complete, slotVars>>

(* 'bitfield', 'have' or 'have-all' makes the peer complete.               *)
Completed(w) ==
    /\ w \in Open \cap Seeding
    /\ complete' = complete \cup {w}
    /\ amChoking' = amChoking \cup Refused({w} \cap heeded)
    /\ UNCHANGED <<ready, swarm, ending, heeded, welcome, interested, slotVars>>

(* 'donthave': it is not complete any more.                                *)
DontHave(w) ==
    /\ w \in Open \cap complete
    /\ complete' = complete \ {w}
    /\ UNCHANGED <<ready, swarm, ending, heeded, welcome, amChoking, interested, slotVars>>

(* The wire is destroyed: end() takes its interest back, its 'close' is to *)
(* come.                                                                   *)
Fail(w) ==
    /\ w \in Open
    /\ ending' = ending \cup {w}
    /\ interested' = interested \ {w}
    /\ UNCHANGED <<ready, swarm, heeded, welcome, amChoking, complete, slotVars>>

(* The wire leaves torrent.wires: its 'close', or its peer is destroyed.   *)
Leave(w) ==
    /\ w \in swarm
    /\ swarm' = swarm \ {w}           /\ ending' = ending \ {w}
    /\ heeded' = heeded \ {w}         /\ welcome' = welcome \ {w}
    /\ amChoking' = amChoking \ {w}   /\ interested' = interested \ {w}
    /\ complete' = complete \ {w}
    /\ UNCHANGED <<ready, slotVars>>

-----------------------------------------------------------------------------
(* The interested wires after which the loop of #rechoke stops.            *)
Loop == Slots - 1

(* The wires #rechoke passes over.                                         *)
Skipped(w, old) == w \in Seeders \/ w = old

(* Mutant: the time of the optimistic unchoke does not pass.               *)
Passed_Not == rounds

Passed == IF rounds <= 0 THEN rounds ELSE rounds - 1

(* What the loop of #rechoke may take, by whatever speeds: wires that do   *)
(* not count may come before, between and never after those that do.       *)
Taken(old) ==
    LET counted == {w \in swarm \cap interested : ~Skipped(w, old)}
    IN  IF Loop <= 0 THEN {{}}
        ELSE IF Cardinality(counted) < Loop THEN {swarm}
        ELSE {ws \in SUBSET swarm : Cardinality(ws \cap counted) = Loop}

(* #rechoke, every ten seconds: the wires taken are unchoked, one of those *)
(* left may be the new favourite, the others are choked.                   *)
Rechoke ==
    /\ ready
    /\ \E old \in {IF rounds <= 0 THEN NoWire ELSE favourite} : \E taken \in Taken(old) :
          LET freed == {w \in taken : ~Skipped(w, old)}
              left  == swarm \ taken
              next  == IF old = NoWire /\ Slots > 0 THEN left \cap interested ELSE {}
          IN  \E new \in IF next = {} THEN {NoWire} ELSE next :
                 /\ favourite' = IF new = NoWire THEN old ELSE new
                 /\ rounds' = IF new = NoWire THEN Passed ELSE Rounds
                 /\ amChoking' = (amChoking \ (freed \cup {new})) \cup (left \ {favourite'})
    /\ UNCHANGED <<ready, swarm, ending, heeded, welcome, interested, complete>>

Next ==
    \/ OnStore \/ Rechoke
    \/ \E w \in Wires :
          \/ HandleWire(w) \/ Fail(w) \/ Leave(w)
          \/ Interested(w) \/ Uninterested(w) \/ Completed(w) \/ DontHave(w)

(* The interval of #rechoke, and 'close' after destroy.                    *)
Fairness == WF_vars(Rechoke) /\ \A w \in Wires : WF_vars(w \in ending /\ Leave(w))

Spec == Init /\ [][Next]_vars /\ Fairness

-----------------------------------------------------------------------------
(* A round of #rechoke that changes whom we choke leaves at most as many   *)
(* interested peers unchoked as there are slots, whoever was favoured, and *)
(* seeders aside.                                                          *)
UploadSlots ==
    [][amChoking' # amChoking /\ UNCHANGED <<swarm, interested, complete, welcome>>
         => Cardinality(((swarm \cap interested) \ Seeders) \ amChoking') <= Slots]_vars

(* A choked seeder is unchoked only when it is interested itself: no round *)
(* of #rechoke spends bandwidth on peers that have everything.             *)
NoSlotForSeeder ==
    [][\A w \in (Seeders \cap Seeders') \cap amChoking :
          w \in swarm' /\ w \notin amChoking' => w \in interested']_vars

(* While no more peers are interested than there are slots, each of them   *)
(* is unchoked at last, though the optimistic unchoke may be held by a     *)
(* wire that lost interest or closed.                                      *)
Fed ==
    \A w \in Wires :
        [](ready /\ w \in (swarm \cap interested) \ Seeders
             /\ Cardinality(swarm \cap interested) <= Slots) ~> (w \notin amChoking)

(* All three: the slots are kept, and not kept from who needs them.        *)
SlotsServe == UploadSlots /\ NoSlotForSeeder /\ Fed
=============================================================================
