------------------------------ MODULE Torrent ------------------------------
(***************************************************************************)
(* The download engine of one torrent, packages/core/src/lib/torrent.ts:   *)
(* start-up verification of the store, block requests over the wires,      *)
(* assembly, hashing and storing of pieces, selections, completion.        *)
(*                                                                         *)
(* Every action is one run of a callback: the JavaScript thread runs it to *)
(* its end, and callbacks of different wires, timers and promises          *)
(* interleave freely.  #update is a callback of its own, queued by the     *)
(* others (queueMicrotask on Node, requestIdleCallback in the browser).    *)
(***************************************************************************)
EXTENDS Piece

CONSTANTS
    Pieces,        \* piece indices
    Chunks,        \* number of blocks of each piece
    Files,         \* file -> the set of pieces it touches
    Peers,         \* BitTorrent connections
    WebSeeds,      \* HTTP connections (WebConn)
    FastPeers,     \* the peers that negotiated the Fast Extension
    EarlyWires,    \* may a peer's wire exist before the store is verified?
    PeerPipeline,  \* requests a peer may have outstanding (speed dependent)
    WebPipeline,   \* the same for a web seed (maxWebConns)
    MaxId,         \* bound: Piece objects created per index
    NoPiece        \* the null of this.pieces[index]

Wires == Peers \cup WebSeeds

ASSUME ChunksAssumption == Chunks \in [Pieces -> Nat \ {0}]
ASSUME NoPieceAssumption == \A p \in Pieces : NoPiece \notin PieceType(Chunks[p])
ASSUME FilesAssumption  == \A f \in DOMAIN Files : Files[f] \subseteq Pieces
ASSUME WiresAssumption  == /\ Peers \cap WebSeeds = {}
                           /\ FastPeers \subseteq Peers
                           /\ EarlyWires \in BOOLEAN
ASSUME BoundsAssumption == /\ PeerPipeline \in Nat \ {0}
                           /\ WebPipeline \in Nat \ {0}
                           /\ MaxId \in Nat \ {0, 1}

VARIABLES
    pieces,        \* this.pieces[i]: a Piece object, NoPiece once verified
    bitfield,      \* this.bitfield
    unchecked,     \* pieces #verifyPieces has not looked at yet
    stored,        \* what the chunk store holds for each piece
    job,           \* the promise or store call a flushed piece waits for
    requests,      \* wire.requests of all the wires
    deferred,      \* callbacks parked on once('ready')
    conn,          \* the life of each wire
    peerChoking,   \* wire.peerChoking
    peerPieces,    \* wire.peerPieces
    selected,      \* the pieces covered by this.#selections
    updateQueued,  \* an #update callback is queued
    ready, destroyed, done, idleEmitted,
    fileDone,      \* the files whose done flag is set
    served,        \* history: the contents uploaded to peers
    leaky          \* history: pieces whose object dropped a reservation

pieceVars == <<pieces, job, leaky>>
storeVars == <<bitfield, stored>>
startVars == <<unchecked, deferred>>
wireVars  == <<conn, peerChoking, peerPieces>>
lifeVars  == <<ready, destroyed>>
eventVars == <<done, idleEmitted, fileDone>>
vars == <<pieceVars, storeVars, startVars, wireVars, lifeVars, eventVars,
          requests, selected, updateQueued, served>>

-----------------------------------------------------------------------------
(* A request names the Piece object and the first block it is for.  The    *)
(* slot only tells outstanding requests of a wire apart.  Object 0 stands  *)
(* for the request that is sent again at 'ready' with no callback.         *)

Pipeline(w) == IF w \in WebSeeds THEN WebPipeline ELSE PeerPipeline

Slots == 1 .. PeerPipeline + WebPipeline

Request == [wire : Wires, slot : Slots, piece : Pieces, id : Nat, first : Nat]

RequestsOf(w) == {r \in requests : r.wire = w}

FreeSlot(w) == CHOOSE s \in Slots : \A r \in RequestsOf(w) : r.slot # s

(* One block for a peer, everything from the first block for a web seed.   *)
Covers(r) == IF r.wire \in WebSeeds THEN r.first .. Chunks[r.piece] - 1
                                   ELSE {r.first}

(* piece !== this.pieces[index] fails: the request's object is current.    *)
Current(r) == pieces[r.piece] # NoPiece /\ pieces[r.piece].id = r.id

Usable(w) == conn[w] = "open" /\ ~peerChoking[w]

(* The guards of #updateWire and #request, wire and piece given.           *)
CanRequest(w, p) ==
    /\ Usable(w)
    /\ Cardinality(RequestsOf(w)) < Pipeline(w)
    /\ p \in selected \cap peerPieces[w]
    /\ p \notin bitfield
    /\ pieces[p] # NoPiece
    /\ CanReserve(pieces[p])

-----------------------------------------------------------------------------
(* #checkIdle and #checkDone, given the bitfield the callback leaves.      *)

Idles(bf) == ~idleEmitted /\ selected \subseteq bf

CheckIdle(bf) == idleEmitted' = (idleEmitted \/ Idles(bf))

CheckDone(bf) ==
    /\ fileDone' = fileDone \cup {f \in DOMAIN Files : Files[f] \subseteq bf}
    /\ done'     = (done \/ fileDone' = DOMAIN Files)
    /\ CheckIdle(bf)

-----------------------------------------------------------------------------
(* #onMetadata has run: the store is open, the bitfield is the one the     *)
(* user preloaded (or empty), a Piece stands at every index and everything *)
(* is selected.                                                            *)
Init ==
    /\ pieces = [p \in Pieces |-> NewPiece(1, Chunks[p])]
    /\ bitfield \in SUBSET Pieces
    /\ unchecked = Pieces
    /\ stored \in [Pieces -> Content]
    /\ job = [p \in Pieces |-> "none"]
    /\ requests = {}
    /\ deferred = {}
    /\ conn = [w \in Wires |-> "none"]
    /\ peerChoking = [w \in Wires |-> TRUE]
    /\ peerPieces = [w \in Wires |-> {}]
    /\ selected = Pieces
    /\ updateQueued = TRUE
    /\ ready = FALSE
    /\ destroyed = FALSE
    /\ done = FALSE
    /\ idleEmitted = FALSE
    /\ fileDone = {}
    /\ served = {}
    /\ leaky = {}

-----------------------------------------------------------------------------
(* Start-up.                                                               *)

(* #verifyPiece of one index ends: #markVerified or #markUnverified.       *)
MarkStored(p) ==
    /\ ~destroyed /\ ~ready
    /\ p \in unchecked
    /\ unchecked' = unchecked \ {p}
    /\ IF stored[p] = Good
       THEN /\ pieces'   = [pieces EXCEPT ![p] = NoPiece]
            /\ bitfield' = bitfield \cup {p}
            /\ UNCHANGED <<selected, fileDone, updateQueued>>
       ELSE /\ pieces'   = [pieces EXCEPT ![p] = NewPiece(@.id + 1, Chunks[p])]
            /\ bitfield' = bitfield \ {p}
            /\ selected' = selected \cup {p}
            /\ fileDone' = {f \in fileDone : p \notin Files[f]}
            /\ updateQueued' = TRUE
    /\ leaky' = leaky \ {p}
    /\ UNCHANGED <<stored, job, deferred, wireVars, lifeVars, done, idleEmitted,
                   requests, served>>

(* #onStore: 'ready', which also runs the parked callbacks: each sends its *)
(* request again, without a callback, if the wire lets it.                 *)
OnStore ==
    /\ ~destroyed /\ ~ready
    /\ unchecked = {}
    /\ ready' = TRUE
    /\ requests' = requests \cup
          {[r EXCEPT !.id = 0] : r \in {d \in deferred : Usable(d.wire)}}
    /\ deferred' = {}
    /\ CheckDone(bitfield)
    /\ UNCHANGED <<pieceVars, storeVars, unchecked, wireVars, destroyed, selected,
                   updateQueued, served>>

-----------------------------------------------------------------------------
(* The wires, as the engine sees them.  The handlers that queue an #update *)
(* are attached by #onWireWithMetadata, which needs ready.                 *)

OnlyWires == UNCHANGED <<pieceVars, storeVars, startVars, lifeVars, eventVars, requests,
                         selected, served>>

(* handleWire; a web seed's wire exists from #onMetadata on.               *)
HandleWire(w) ==
    /\ ~destroyed
    /\ conn[w] = "none"
    /\ ready \/ EarlyWires \/ w \in WebSeeds
    /\ conn' = [conn EXCEPT ![w] = "open"]
    /\ UNCHANGED <<peerChoking, peerPieces, updateQueued>>
    /\ OnlyWires

(* 'bitfield', 'have', 'have-all': the peer has more pieces.               *)
OnHave(w) ==
    /\ conn[w] \in {"open", "draining"}
    /\ \E S \in SUBSET (Pieces \ peerPieces[w]) :
          /\ S # {}
          /\ peerPieces' = [peerPieces EXCEPT ![w] = @ \cup S]
    /\ updateQueued' = (updateQueued \/ ready)
    /\ UNCHANGED <<conn, peerChoking>>
    /\ OnlyWires

(* 'donthave' takes a piece back; lt_donthave then fails the requests for  *)
(* it.  A WebConn sends it when an HTTP request fails.                     *)
OnDontHave(w, p) ==
    /\ conn[w] \in {"open", "draining"}
    /\ p \in peerPieces[w]
    /\ peerPieces' = [peerPieces EXCEPT ![w] = @ \ {p}]
    /\ updateQueued' = (updateQueued \/ ready)
    /\ UNCHANGED <<conn, peerChoking>>
    /\ OnlyWires

(* A peer may unchoke before we are interested; a WebConn only after.      *)
OnUnchoke(w) ==
    /\ conn[w] \in {"open", "draining"}
    /\ peerChoking[w]
    /\ w \in WebSeeds => ready
    /\ conn[w] = "draining" => RequestsOf(w) = {}
    /\ conn' = [conn EXCEPT ![w] = "open"]
    /\ peerChoking' = [peerChoking EXCEPT ![w] = FALSE]
    /\ updateQueued' = (updateQueued \/ ready)
    /\ UNCHANGED peerPieces
    /\ OnlyWires

(* Without the Fast Extension a choke fails every outstanding request: the *)
(* wire is draining until the last of their callbacks has run.             *)
OnChoke(w) ==
    /\ conn[w] = "open"
    /\ ~peerChoking[w]
    /\ w \in Peers
    /\ peerChoking' = [peerChoking EXCEPT ![w] = TRUE]
    /\ conn' = IF w \in FastPeers THEN conn ELSE [conn EXCEPT ![w] = "draining"]
    /\ UNCHANGED <<peerPieces, updateQueued>>
    /\ OnlyWires

(* The peer leaves, a request times out, or the torrent drops the peer:    *)
(* wire.end chokes, and every outstanding request fails.                   *)
OnEnd(w) ==
    /\ conn[w] \in {"open", "draining"}
    /\ conn' = [conn EXCEPT ![w] = "closing"]
    /\ peerChoking' = [peerChoking EXCEPT ![w] = TRUE]
    /\ UNCHANGED <<peerPieces, updateQueued>>
    /\ OnlyWires

-----------------------------------------------------------------------------
(* Requests and their answers.                                             *)

(* #updateWire finds a piece for a wire and #request reserves and sends.   *)
SendRequest(w, p) ==
    /\ updateQueued /\ ~destroyed
    /\ CanRequest(w, p)
    /\ requests' = requests \cup
          {[wire |-> w, slot |-> FreeSlot(w), piece |-> p, id |-> pieces[p].id,
            first |-> IF w \in WebSeeds THEN RemainingFrom(pieces[p])
                                        ELSE ReservedBlock(pieces[p])]}
    /\ pieces' = [pieces EXCEPT ![p] =
          IF w \in WebSeeds THEN ReserveRemaining(@) ELSE Reserve(@)]
    /\ UNCHANGED <<job, leaky, storeVars, startVars, wireVars, lifeVars, eventVars,
                   selected, updateQueued, served>>

(* #updateWireWrapper stops when no wire can be given a block.             *)
EndUpdate ==
    /\ updateQueued
    /\ destroyed \/ \A w \in Wires, p \in Pieces : ~CanRequest(w, p)
    /\ updateQueued' = FALSE
    /\ IF ready /\ ~destroyed THEN CheckIdle(bitfield)
                              ELSE UNCHANGED idleEmitted
    /\ UNCHANGED <<pieceVars, storeVars, startVars, wireVars, lifeVars, done, fileDone,
                   requests, selected, served>>

(* The first lines of the callback: after destroy nothing happens, before  *)
(* ready the callback is parked, and an answer for an object that was      *)
(* replaced only queues an update.                                         *)
Ignored(r) == destroyed \/ ~ready \/ ~Current(r)

Park(r) ==
    /\ deferred' = IF destroyed \/ ready THEN deferred ELSE deferred \cup {r}
    /\ leaky' = IF destroyed \/ ready \/ ~Current(r) THEN leaky ELSE leaky \cup {r.piece}
    /\ updateQueued' = (updateQueued \/ (~destroyed /\ ready /\ r.id # 0))
    /\ UNCHANGED <<pieces, job>>

OnlyAnswer(r) ==
    /\ requests' = requests \ {r}
    /\ UNCHANGED <<storeVars, unchecked, wireVars, lifeVars, eventVars, selected, served>>

(* A block (or the tail of a piece) arrives.                               *)
OnPiece(r) ==
    /\ conn[r.wire] = "open"
    /\ r.piece \in peerPieces[r.wire]
    /\ IF Ignored(r) THEN Park(r)
       ELSE \E data \in Content :
            LET p  == r.piece
                pc == SetBlocks(pieces[p], Covers(r), data)
            IN  /\ data = Bad => pieces[p].id < MaxId
                /\ pieces' = [pieces EXCEPT ![p] = IF Complete(pc) THEN Flush(pc) ELSE pc]
                /\ job' = IF Complete(pc) THEN [job EXCEPT ![p] = "hash"] ELSE job
                /\ updateQueued' = (updateQueued \/ ~Complete(pc))
                /\ UNCHANGED <<deferred, leaky>>
    /\ OnlyAnswer(r)

(* Mutant: the block is given back but no #update is queued.               *)
OnError_NoUpdate(r) ==
    /\ IF Ignored(r) THEN Park(r)
       ELSE /\ pieces' = [pieces EXCEPT ![r.piece] =
                   IF r.wire \in WebSeeds THEN CancelRemaining(@, r.first)
                                          ELSE Cancel(@, r.first)]
            /\ UNCHANGED <<deferred, job, leaky, updateQueued>>
    /\ OnlyAnswer(r)

(* An answer with an error: reject, choke, close, timeout, 'donthave'.     *)
OnError(r) ==
    /\ IF Ignored(r) THEN Park(r)
       ELSE LET p == r.piece
            IN  /\ pieces' = [pieces EXCEPT ![p] =
                      IF r.wire \in WebSeeds THEN CancelRemaining(@, r.first)
                                             ELSE Cancel(@, r.first)]
                /\ leaky' = IF r.wire \in WebSeeds /\ r.first > pieces[p].reservations
                            THEN leaky \cup {p} ELSE leaky
                /\ updateQueued' = TRUE
                /\ UNCHANGED <<deferred, job>>
    /\ OnlyAnswer(r)

-----------------------------------------------------------------------------
(* Hashing and storing a flushed piece: two awaits, during which the index *)
(* still holds the flushed object.                                         *)

(* Mutant: the piece is announced when it hashes, before it is stored.     *)
OnHash_MarkEarly(p) ==
    /\ job[p] = "hash" /\ ~destroyed /\ HashMatches(pieces[p])
    /\ job' = [job EXCEPT ![p] = "put"]
    /\ bitfield' = bitfield \cup {p}
    /\ UNCHANGED <<pieces, leaky, updateQueued, stored, startVars, wireVars, lifeVars,
                   eventVars, requests, selected, served>>

OnHash(p) ==
    /\ job[p] = "hash"
    /\ IF destroyed \/ HashMatches(pieces[p])
       THEN /\ job' = [job EXCEPT ![p] = IF destroyed THEN "none" ELSE "put"]
            /\ UNCHANGED <<pieces, leaky, updateQueued>>
       ELSE /\ job' = [job EXCEPT ![p] = "none"]
            /\ pieces' = [pieces EXCEPT ![p] = NewPiece(@.id + 1, @.chunks)]
            /\ leaky' = leaky \ {p}
            /\ updateQueued' = TRUE
    /\ UNCHANGED <<storeVars, startVars, wireVars, lifeVars, eventVars, requests, selected,
                   served>>

(* The hash or the call of store.put throws: the catch clause.             *)
OnHashError(p) ==
    /\ job[p] = "hash"
    /\ ~destroyed
    /\ job' = [job EXCEPT ![p] = "none"]
    /\ updateQueued' = TRUE
    /\ UNCHANGED <<pieces, leaky, storeVars, startVars, wireVars, lifeVars, eventVars,
                   requests, selected, served>>

(* Mutant: the object is not dropped when the piece is announced.          *)
OnStored_KeepObject(p) ==
    /\ job[p] = "put"
    /\ job' = [job EXCEPT ![p] = "none"]
    /\ stored' = [stored EXCEPT ![p] = Good]
    /\ bitfield' = bitfield \cup {p}
    /\ IF destroyed THEN UNCHANGED eventVars ELSE CheckDone(bitfield')
    /\ updateQueued' = TRUE
    /\ UNCHANGED <<pieces, leaky, startVars, wireVars, lifeVars, requests, selected, served>>

(* The store has the piece.  The callback does not look at destroyed, only *)
(* #checkDone does.                                                        *)
OnStored(p) ==
    /\ job[p] = "put"
    /\ job' = [job EXCEPT ![p] = "none"]
    /\ stored' = [stored EXCEPT ![p] = IF HashMatches(pieces[p]) THEN Good ELSE Bad]
    /\ pieces' = [pieces EXCEPT ![p] = NoPiece]
    /\ bitfield' = bitfield \cup {p}
    /\ IF destroyed THEN UNCHANGED eventVars ELSE CheckDone(bitfield')
    /\ updateQueued' = TRUE
    /\ UNCHANGED <<leaky, startVars, wireVars, lifeVars, requests, selected, served>>

(* #destroyTorrent closes every wire; whatever is outstanding runs into    *)
(* the destroyed checks.                                                   *)
DestroyTorrent ==
    /\ destroyed' = TRUE
    /\ conn' = [w \in Wires |-> IF conn[w] = "none" THEN "none" ELSE "closing"]
    /\ peerChoking' = [w \in Wires |-> TRUE]
    /\ UNCHANGED <<pieces, leaky, bitfield, startVars, peerPieces, ready, eventVars, requests,
                   selected, updateQueued, served>>

(* A failed write may leave anything in the store; it is fatal.            *)
OnStoreError(p) ==
    /\ job[p] = "put"
    /\ job' = [job EXCEPT ![p] = "none"]
    /\ \E data \in Content : stored' = [stored EXCEPT ![p] = data]
    /\ DestroyTorrent

-----------------------------------------------------------------------------
(* The API, and the upload side.                                           *)

Destroy ==
    /\ ~destroyed
    /\ DestroyTorrent
    /\ UNCHANGED <<job, stored>>

Select(p) ==
    /\ ~destroyed
    /\ p \notin selected
    /\ selected' = selected \cup {p}
    /\ updateQueued' = TRUE
    /\ UNCHANGED <<pieceVars, storeVars, startVars, wireVars, lifeVars, eventVars, requests,
                   served>>

Deselect(p) ==
    /\ ~destroyed
    /\ p \in selected
    /\ selected' = selected \ {p}
    /\ UNCHANGED <<pieceVars, storeVars, startVars, wireVars, lifeVars, eventVars, requests,
                   updateQueued, served>>

(* The 'request' handler: a piece that still has an object is not served.  *)
Serve(w, p) ==
    /\ ready /\ ~destroyed
    /\ conn[w] = "open" /\ w \in Peers
    /\ pieces[p] = NoPiece
    /\ served' = served \cup {stored[p]}
    /\ UNCHANGED <<pieceVars, storeVars, startVars, wireVars, lifeVars, eventVars, requests,
                   selected, updateQueued>>

-----------------------------------------------------------------------------
Next ==
    \/ \E p \in Pieces : MarkStored(p)
    \/ OnStore
    \/ \E w \in Wires : HandleWire(w) \/ OnHave(w) \/ OnUnchoke(w) \/ OnChoke(w) \/ OnEnd(w)
    \/ \E w \in Wires, p \in Pieces : OnDontHave(w, p) \/ SendRequest(w, p) \/ Serve(w, p)
    \/ EndUpdate
    \/ \E r \in requests : OnPiece(r) \/ OnError(r)
    \/ \E p \in Pieces : OnHash(p) \/ OnHashError(p) \/ OnStored(p) \/ OnStoreError(p)
    \/ Destroy
    \/ \E p \in Pieces : Select(p) \/ Deselect(p)

Spec == Init /\ [][Next]_vars

(* Fairness.  The event loop runs every queued callback, promise and store *)
(* call; #updateWireWrapper draws the wires in random order, so no wire is *)
(* passed over for ever; the piece timer ends every request, save on a     *)
(* Fast Extension wire that chokes, where the protocol may clear it.       *)
Answered(w, s) ==
    /\ conn[w] = "open" /\ peerChoking[w] => w \notin FastPeers
    /\ \E r \in RequestsOf(w) : r.slot = s /\ (OnPiece(r) \/ OnError(r))

Fairness ==
    /\ WF_vars(OnStore) /\ WF_vars(EndUpdate)
    /\ \A p \in Pieces : WF_vars(MarkStored(p)) /\ WF_vars(OnHash(p)) /\ WF_vars(OnStored(p))
    /\ \A w \in Wires : SF_vars(\E p \in Pieces : SendRequest(w, p))
    /\ \A w \in Wires : \A s \in 1 .. Pipeline(w) : WF_vars(Answered(w, s))

FairSpec == Spec /\ Fairness

-----------------------------------------------------------------------------
(* Properties.                                                             *)

PiecesType ==
    /\ pieces = [p \in Pieces |-> pieces[p]]
    /\ \A p \in Pieces : pieces[p] = NoPiece \/ pieces[p] \in PieceType(Chunks[p])
    /\ job \in [Pieces -> {"none", "hash", "put"}]
    /\ stored \in [Pieces -> Content]
    /\ bitfield \subseteq Pieces /\ unchecked \subseteq Pieces
    /\ leaky \subseteq Pieces /\ selected \subseteq Pieces

RequestsType ==
    /\ requests \subseteq Request /\ deferred \subseteq Request
    /\ \A r \in requests \cup deferred : r.first < Chunks[r.piece]

WiresType ==
    /\ conn \in [Wires -> {"none", "open", "draining", "closing"}]
    /\ peerChoking \in [Wires -> BOOLEAN]
    /\ peerPieces \in [Wires -> SUBSET Pieces]

FlagsType ==
    /\ updateQueued \in BOOLEAN /\ idleEmitted \in BOOLEAN
    /\ ready \in BOOLEAN /\ destroyed \in BOOLEAN /\ done \in BOOLEAN
    /\ fileDone \subseteq DOMAIN Files /\ served \subseteq Content

(* Every variable holds a value the source's types allow, and a request is *)
(* for a block its piece has.                                              *)
TypeOK == PiecesType /\ RequestsType /\ WiresType /\ FlagsType

(* The object at an index, the bitfield, the promise the piece waits for   *)
(* and the file flags agree: the object is gone exactly when the piece was *)
(* verified; a hash or store call belongs to a flushed object that is      *)
(* still in place; what is being stored is what was hashed, whatever late  *)
(* answers came between; and a file flagged done has every piece.          *)
Agreement ==
    /\ ready => unchecked = {}
    /\ \A p \in Pieces :
        /\ pieces[p] = NoPiece <=> p \in bitfield \ unchecked
        /\ job[p] # "none" => ready /\ pieces[p] # NoPiece /\ pieces[p].flushed
        /\ job[p] = "put" => HashMatches(pieces[p])
    /\ \A f \in fileDone : Files[f] \subseteq bitfield

(* flush() runs only on a piece that has every block: Piece._buffered is   *)
(* the number of blocks present, although blocks may be fetched twice.     *)
FlushedIsFull ==
    \A p \in Pieces :
        /\ pieces[p] # NoPiece /\ pieces[p].flushed
        => \A b \in Blocks(pieces[p]) : pieces[p].buffer[b] # None

(* A block is lost when it is neither here, nor on its way, nor open to be *)
(* reserved: no #update will ever ask a peer for it.                       *)
InFlight(p, b) == \E r \in requests : r.piece = p /\ Current(r) /\ b \in Covers(r)

Lost(p, b) ==
    /\ ~destroyed
    /\ pieces[p] # NoPiece
    /\ ~pieces[p].flushed
    /\ pieces[p].buffer[b] = None
    /\ b \notin Members(pieces[p].cancellations)
    /\ b < pieces[p].reservations
    /\ ~InFlight(p, b)

(* Only two things lose a block: an answer that came before ready, and a   *)
(* web seed's failed request moving the reservation mark up over blocks    *)
(* that another request had given back (Piece.cancelRemaining).            *)
LossIsExplained ==
    \A p \in Pieces : \A b \in 0 .. Chunks[p] - 1 : Lost(p, b) => p \in leaky

(* With peers only, and wires only after ready, no block is ever lost.     *)
NoLostBlock == \A p \in Pieces : \A b \in 0 .. Chunks[p] - 1 : ~Lost(p, b)

(* With peers only, a block is asked of one peer at a time, and never when *)
(* it is already here: reserve() and cancel() partition the blocks.        *)
OneRequestPerBlock ==
    \A r \in requests : Current(r) /\ ~pieces[r.piece].flushed =>
        /\ pieces[r.piece].buffer[r.first] = None
        /\ \A s \in requests : (Current(s) /\ s.piece = r.piece /\ s.first = r.first) => s = r

(* What Spec promises, as a specification of its own.  A piece is available *)
(* once it was checked and the bitfield has it.                            *)
D == INSTANCE Download WITH have <- bitfield \ unchecked, store <- stored,
                            uploaded <- served

(* The engine implements Download: however the callbacks interleave.       *)
Downloads == D!Spec

(* A piece that a hash or store call abandoned by throwing: the flushed    *)
(* object stays at the index and no #update can reserve from it.           *)
Abandoned(p) == pieces[p] # NoPiece /\ pieces[p].flushed /\ job[p] = "none"

(* A peer that has everything, is not choking, and answers requests again  *)
(* and again.                                                              *)
Seeds(w) ==
    /\ <>[](conn[w] = "open" /\ ~peerChoking[w] /\ peerPieces[w] = Pieces)
    /\ SF_vars(\E r \in RequestsOf(w) : OnPiece(r))

(* As long as one peer seeds, every piece that stays selected is           *)
(* downloaded, whatever the other peers do and however requests fail.      *)
Completes ==
    \A p \in Pieces :
        (\E w \in Peers : Seeds(w)) /\ <>[](p \in selected)
            => <>(p \in bitfield \/ destroyed \/ Abandoned(p))
=============================================================================
