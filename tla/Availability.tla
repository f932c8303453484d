---------------------------- MODULE Availability ----------------------------
(***************************************************************************)
(* What the torrent knows of the pieces of its peers: the interest, the    *)
(* seed status and the choke timeout that #onWireWithMetadata of           *)
(* torrent.ts keeps for each wire, and the counts of rarity-map.ts.        *)
(*                                                                         *)
(* Of a wire that left, the name is free for another wire.                 *)
(***************************************************************************)
EXTENDS Integers, FiniteSets

CONSTANTS
    Wires, Pieces,
    Timed,         \* bound: the wires whose choking is modelled
    Ranked,        \* bound: the pieces whose count is modelled
    MaxCount       \* bound: a count, which a peer can drive up with have and donthave

ASSUME AvailabilityAssumption ==
    Timed \subseteq Wires /\ Ranked \subseteq Pieces /\ MaxCount \in Nat

VARIABLES
    phase,     \* of the torrent: "magnet", "metadata", "ready"
    missing,   \* the pieces torrent.pieces has an object for
    swarm,     \* torrent.wires
    life,      \* of a wire: "none", "open", "destroyed" with its 'close' still to come
    heeded,    \* the wires #onWireWithMetadata listens to
    counted,   \* the wires the rarity map listens to
    has,       \* wire.peerPieces
    all,       \* the wires whose peerPieces is a HaveAllBitField
    greeted,   \* the wires that told their pieces
    wanted,    \* the wires with amInterested
    seeders,   \* the wires with isSeeder
    refusing,  \* the wires with peerChoking
    timers,    \* the wires whose choke timeout runs
    rarity,    \* the counts of the rarity map
    lingering, \* history: the wires that left torrent.wires and were not recounted since
    skewed     \* history: something made the counts differ since they were recalculated

torrentVars == <<phase, missing>>
wireVars == <<swarm, life>>
mapVars == <<rarity, lingering, skewed>>
chokeVars == <<refusing, timers>>
vars == <<torrentVars, wireVars, mapVars, chokeVars, heeded, counted, has, all, greeted, wanted,
          seeders>>

Init ==
    /\ phase = "magnet"
    /\ missing = Pieces
    /\ swarm = {} /\ life = [w \in Wires |-> "none"]
    /\ heeded = {} /\ counted = {}
    /\ has = [w \in Wires |-> {}]
    /\ all = {} /\ greeted = {} /\ wanted = {} /\ seeders = {}
    /\ refusing = Wires /\ timers = {}
    /\ rarity = [p \in Ranked |-> 0] /\ lingering = {} /\ skewed = FALSE

-----------------------------------------------------------------------------
Open == {w \in Wires : life[w] = "open"}

Useful(w, h, m) == h[w] \cap m # {}

(* updateSeedStatus and #updateWireInterest for the wires ws among those   *)
(* the torrent listens to.                                                 *)
Judge(ws, h, m) ==
    /\ seeders' = (seeders \ ws) \cup {w \in ws : h[w] = Pieces}
    /\ wanted' = (wanted \ ws) \cup {w \in ws : Useful(w, h, m)}

(* Mutant: the interest is first looked at when the wire tells of a piece. *)
Heed_Uninterested(ws, m) ==
    /\ heeded' = heeded \cup ws
    /\ timers' = timers \cup (ws \cap Timed)
    /\ seeders' = (seeders \ ws) \cup {w \in ws : has[w] = Pieces}
    /\ UNCHANGED wanted

(* #onWireWithMetadata: what the peer said before is judged now.           *)
Heed(ws, m) ==
    /\ heeded' = heeded \cup ws
    /\ timers' = timers \cup (ws \cap Timed)
    /\ Judge(ws, has, m)

(* RarityMap.recalculate.                                                  *)
Recount(ws, h) ==
    /\ rarity' = [p \in Ranked |-> Cardinality({w \in ws : p \in h[w]})]
    /\ lingering' = {} /\ skewed' = FALSE

-----------------------------------------------------------------------------
(* handleWire; the rarity map hears 'wire', #onWireWithMetadata follows in *)
(* a microtask when the torrent is ready.                                  *)
HandleWire(w) ==
    /\ life[w] = "none"
    /\ life' = [life EXCEPT ![w] = "open"]
    /\ swarm' = swarm \cup {w}
    /\ IF phase = "magnet" THEN UNCHANGED <<counted, mapVars>>
       ELSE counted' = counted \cup {w} /\ Recount(swarm', has)
    /\ IF phase = "ready" THEN Heed({w}, missing) ELSE UNCHANGED <<heeded, timers, wanted, seeders>>
    /\ UNCHANGED <<torrentVars, has, all, greeted, refusing>>

(* #onMetadata makes the rarity map of the wires there are.                *)
OnMetadata ==
    /\ phase = "magnet"
    /\ phase' = "metadata"
    /\ counted' = swarm
    /\ Recount(swarm, has)
    /\ UNCHANGED <<missing, wireVars, chokeVars, heeded, has, all, greeted, wanted, seeders>>

(* #onStore, with the pieces that were found in the store.                 *)
OnStore ==
    /\ phase = "metadata"
    /\ phase' = "ready"
    /\ missing' \in SUBSET Pieces
    /\ Heed(swarm, missing')
    /\ UNCHANGED <<wireVars, mapVars, counted, has, all, greeted, refusing>>

(* A piece is stored: no interest is looked at.                            *)
Stored(p) ==
    /\ phase = "ready"
    /\ p \in missing
    /\ missing' = missing \ {p}
    /\ UNCHANGED <<phase, wireVars, mapVars, chokeVars, heeded, counted, has, all, greeted, wanted,
                   seeders>>

-----------------------------------------------------------------------------
(* What the peer says of its pieces; have-all, have-none and bitfield come *)
(* first.                                                                  *)
Listened(w) == {w} \cap heeded

BitField(w, ps) ==
    /\ w \in Open \ greeted
    /\ greeted' = greeted \cup {w}
    /\ has' = [has EXCEPT ![w] = ps]
    /\ Judge(Listened(w), has', missing)
    /\ IF w \in counted THEN Recount(swarm, has') ELSE UNCHANGED mapVars
    /\ UNCHANGED <<torrentVars, wireVars, chokeVars, heeded, counted, all>>

(* The rarity map does not listen to 'have-all' and 'have-none'.           *)
HaveAll(w) ==
    /\ w \in Open \ greeted
    /\ greeted' = greeted \cup {w}
    /\ has' = [has EXCEPT ![w] = Pieces]
    /\ all' = all \cup {w}
    /\ Judge(Listened(w), has', missing)
    /\ skewed' = (skewed \/ w \in counted)
    /\ UNCHANGED <<torrentVars, wireVars, chokeVars, heeded, counted, rarity, lingering>>

HaveNone(w) ==
    /\ w \in Open \ greeted
    /\ greeted' = greeted \cup {w}
    /\ Judge(Listened(w), has, missing)
    /\ UNCHANGED <<torrentVars, wireVars, mapVars, chokeVars, heeded, counted, has, all>>

(* A piece the peer has already is not announced again.                    *)
Have(w, p) ==
    /\ w \in Open /\ p \notin has[w]
    /\ p \in Ranked => rarity[p] < MaxCount
    /\ has' = [has EXCEPT ![w] = @ \cup {p}]
    /\ greeted' = greeted \cup {w}
    /\ Judge(Listened(w), has', missing)
    /\ rarity' = IF w \in counted /\ p \in Ranked THEN [rarity EXCEPT ![p] = @ + 1] ELSE rarity
    /\ UNCHANGED <<torrentVars, wireVars, chokeVars, heeded, counted, all, lingering, skewed>>

(* lt_donthave: a HaveAllBitField forgets nothing, and the rarity map does *)
(* not listen.                                                             *)
DontHave(w, p) ==
    /\ w \in Open /\ p \in has[w]
    /\ has' = [has EXCEPT ![w] = IF w \in all THEN @ ELSE @ \ {p}]
    /\ Judge(Listened(w), has', missing)
    /\ skewed' = (skewed \/ (has' # has /\ w \in counted))
    /\ UNCHANGED <<torrentVars, wireVars, chokeVars, heeded, counted, all, greeted, rarity, lingering>>

-----------------------------------------------------------------------------
(* 'choke' starts the timeout again, 'unchoke' stops it.                   *)
Refuse(w) ==
    /\ refusing' = refusing \cup {w}
    /\ timers' = timers \cup (Listened(w) \cap Timed)

Choke(w) ==
    /\ w \in Open \cap Timed
    /\ Refuse(w)
    /\ UNCHANGED <<torrentVars, wireVars, mapVars, heeded, counted, has, all, greeted, wanted,
                   seeders>>

Unchoke(w) ==
    /\ w \in Open \cap Timed
    /\ refusing' = refusing \ {w}
    /\ timers' = timers \ Listened(w)
    /\ UNCHANGED <<torrentVars, wireVars, mapVars, heeded, counted, has, all, greeted, wanted,
                   seeders>>

(* The timeout of a wire that is kept starts again.                        *)
Again(w) == timers

(* The timeout: a wire the torrent wants is destroyed when others wait for *)
(* its place, which depends on the other peers.  Nothing happens for a     *)
(* wire that is destroyed.                                                 *)
OnChokeTimeout(w) ==
    /\ w \in timers
    /\ \/ /\ w \in Open \cap wanted
          /\ life' = [life EXCEPT ![w] = "destroyed"]
          /\ Refuse(w)
       \/ /\ w \in Open
          /\ timers' = Again(w)
          /\ UNCHANGED <<life, refusing>>
       \/ /\ w \notin Open
          /\ timers' = timers \ {w}
          /\ UNCHANGED <<life, refusing>>
    /\ UNCHANGED <<torrentVars, swarm, mapVars, heeded, counted, has, all, greeted,
                   wanted, seeders>>

-----------------------------------------------------------------------------
(* The peer ends: the wire leaves torrent.wires and is destroyed, which    *)
(* ends with a 'choke' of its own; its 'close' follows.                    *)
DestroyPeer(w) ==
    /\ w \in Open
    /\ life' = [life EXCEPT ![w] = "destroyed"]
    /\ swarm' = swarm \ {w}
    /\ lingering' = lingering \cup ({w} \cap counted)
    /\ Refuse(w)
    /\ UNCHANGED <<torrentVars, heeded, counted, has, all, greeted, wanted, seeders, rarity,
                   skewed>>

(* Mutant: the pieces of a closed wire stay in the counts.                 *)
Lost_Not(w) == rarity

(* _onClose of the rarity map takes the pieces off, whether a recount has  *)
(* done so already or not.                                                 *)
Lost(w) == [p \in Ranked |-> IF p \in has[w] /\ rarity[p] > 0 THEN rarity[p] - 1 ELSE rarity[p]]

(* 'close': it ends the peer as well, when it has not ended before.        *)
Close(w) ==
    /\ life[w] = "destroyed"
    /\ life' = [life EXCEPT ![w] = "none"]
    /\ swarm' = swarm \ {w}
    /\ timers' = timers \ {w}
    /\ rarity' = IF w \in counted THEN Lost(w) ELSE rarity
    /\ lingering' = lingering \ {w}
    /\ skewed' = (skewed \/ (w \in counted /\ w \notin swarm \cup lingering))
    /\ heeded' = heeded \ {w}   /\ counted' = counted \ {w}
    /\ has' = [has EXCEPT ![w] = {}]
    /\ all' = all \ {w}         /\ greeted' = greeted \ {w}
    /\ wanted' = wanted \ {w}   /\ seeders' = seeders \ {w}
    /\ refusing' = refusing \cup {w}
    /\ UNCHANGED torrentVars

Next ==
    \/ OnMetadata \/ OnStore
    \/ \E p \in Pieces : Stored(p)
    \/ \E w \in Wires :
          \/ HandleWire(w) \/ DestroyPeer(w) \/ Close(w)
          \/ HaveAll(w) \/ HaveNone(w) \/ Choke(w) \/ Unchoke(w) \/ OnChokeTimeout(w)
          \/ \E ps \in SUBSET Pieces : BitField(w, ps)
          \/ \E p \in Pieces : Have(w, p) \/ DontHave(w, p)

Spec == Init /\ [][Next]_vars

-----------------------------------------------------------------------------
(* Whatever came first, the metadata, the wire or its pieces: the torrent  *)
(* is interested in a peer that has a piece it misses, and knows which     *)
(* peers are seeders.                                                      *)
InterestNeverMissed ==
    \A w \in heeded \cap Open :
        /\ Useful(w, has, missing) => w \in wanted
        /\ w \in seeders <=> has[w] = Pieces

(* A peer that chokes us is under the choke timeout, whatever order choke, *)
(* unchoke, metadata and timeout came in; a closed wire has no timeout.    *)
ChokeTimer ==
    \A w \in Timed :
        /\ w \in heeded \cap refusing \cap Open => w \in timers
        /\ life[w] = "none" => w \notin timers

(* The counts are those of the wires, with the ones that are still to      *)
(* close, unless a have-all, a donthave, or a close after a recount made   *)
(* them differ since they were last recalculated.                          *)
RarityExact ==
    phase # "magnet" /\ ~skewed =>
        \A p \in Ranked :
            rarity[p] = Cardinality({w \in swarm \cup lingering : p \in has[w]})

(* Both: the torrent knows what it can ask of whom, or gives up waiting.   *)
PeersKnown == InterestNeverMissed /\ ChokeTimer
=============================================================================
