------------------------------- MODULE Metadata -------------------------------
(***************************************************************************)
(* How a torrent gets its metadata: from its own torrent file, from the    *)
(* `xs` URLs of its magnet link (torrent.ts), or piece by piece from the   *)
(* peers with ut_metadata (ut-metadata/src/index.ts).  The hash of the     *)
(* pieces is awaited, and while it is, the peer may send more into the     *)
(* same array and start a second check.  One info hash, of v1 or v2.       *)
(***************************************************************************)
EXTENDS Naturals, Sequences, FiniteSets, SequencesExt

CONSTANTS
    Wires,
    Kinds,          \* the casts of peers tried, see Kind
    Pieces,
    Urls,           \* the http `xs` of the magnet link
    FromFile,       \* the torrent was added with its info
    MaxHandshakes,  \* bound: extended handshakes of a rude peer
    MaxChecks       \* bound: hashes of one wire that run at once

(* An honest peer answers every request with the right bytes, a flaky one  *)
(* once with any answer, a rude one sends whatever it likes.               *)
Kind == {"honest", "flaky", "rude"}

ASSUME MetadataAssumption ==
    /\ Kinds \subseteq [Wires -> Kind]
    /\ IsFiniteSet(Pieces)
    /\ MaxHandshakes \in Nat \ {0}

VARIABLES
    kind,      \* the kind of each wire's peer
    u,         \* the UtMetadata of the wires
    parsing,   \* emitted metadata that parseTorrent works on
    xs,        \* the `xs` requests
    meta,      \* torrent.metadata
    started,   \* #onListening ran
    destroyed, \* torrent.destroyed
    uncaught   \* an exception nobody catches has ended the process

metadataVars == <<kind, u, parsing, xs, meta, started, destroyed, uncaught>>

NumPieces == Cardinality(Pieces)
(* An array of bytes is the set of its pieces that are right.              *)
Worth(a)  == IF a = Pieces THEN "good" ELSE "bad"
Put(a, p, b) == IF b = "good" THEN a \cup {p} ELSE a \ {p}

(* A hash that is awaited: what it will say of the bytes it read, what the *)
(* array holds by now, and whether it is the array the wire fills.         *)
Check == [ok : BOOLEAN, array : SUBSET Pieces, live : BOOLEAN]

(* `asked` holds the requests the peer has not answered, `emits` and         *)
(* `touched` are histories: the 'metadata' events, and whether data came    *)
(* while the array was being hashed.                                       *)
Ut == [on : BOOLEAN, shakes : 0 .. MaxHandshakes, size : {"none", "right", "wrong"},
       fetching : BOOLEAN, complete : BOOLEAN, metadata : {"none", "good", "bad"},
       rejects : Nat, bits : SUBSET Pieces, array : SUBSET Pieces,
       asked : SUBSET Pieces, checks : Seq(Check), emits : Nat, touched : BOOLEAN]

NewUt == [on |-> FALSE, shakes |-> 0, size |-> "none", fetching |-> FALSE,
          complete |-> FALSE, metadata |-> "none", rejects |-> 0, bits |-> {},
          array |-> {}, asked |-> {}, checks |-> <<>>, emits |-> 0,
          touched |-> FALSE]

-----------------------------------------------------------------------------
MetadataInit ==
    /\ kind \in Kinds
    /\ u = [w \in Wires |-> NewUt]
    /\ parsing = {}
    /\ xs = [url \in Urls |-> "none"]
    /\ meta = "none"
    /\ started = FALSE
    /\ destroyed = FALSE
    /\ uncaught = FALSE

(* #onMetadata: the first one counts.                                      *)
OnMetadata(m) == meta' = IF meta = "none" /\ ~destroyed THEN m ELSE meta

OnListening ==
    /\ ~started /\ ~destroyed
    /\ started' = TRUE
    /\ IF FromFile THEN OnMetadata("good") /\ UNCHANGED xs
       ELSE xs' = [url \in Urls |-> "fetching"] /\ UNCHANGED meta
    /\ UNCHANGED <<kind, u, parsing, destroyed, uncaught>>

(* handleWire: a wire made once the metadata is known has it from the      *)
(* start; the others fetch it, and go on when another wire was faster.     *)
HandleWire(w) ==
    /\ started /\ ~destroyed /\ ~u[w].on
    /\ u' = [u EXCEPT ![w] = [NewUt EXCEPT !.on = TRUE, !.complete = meta # "none",
                                 !.metadata = meta, !.fetching = meta = "none"]]
    /\ UNCHANGED <<kind, parsing, xs, meta, started, destroyed, uncaught>>

(* #requestPieces: a new array; hashes of the old one go on.               *)
RequestPieces(x) ==
    IF ~x.fetching THEN x
    ELSE [x EXCEPT !.array = {}, !.asked = Pieces,
                   !.checks = [i \in DOMAIN @ |-> [@[i] EXCEPT !.live = FALSE]]]

OnExtendedHandshake(w, size) ==
    /\ u[w].on
    /\ u[w].shakes < IF kind[w] = "rude" THEN MaxHandshakes ELSE 1
    /\ kind[w] = "honest" => size = "right"
    /\ LET x == [u[w] EXCEPT !.size = size, !.shakes = @ + 1, !.rejects = 2 * NumPieces]
       IN  u' = [u EXCEPT ![w] = RequestPieces(x)]
    /\ UNCHANGED <<kind, parsing, xs, meta, started, destroyed, uncaught>>

(* #checkDone: every piece after the last starts setMetadata again, which  *)
(* hashes the bytes the array holds now.                                  *)
CheckDone(x) ==
    IF x.bits # Pieces \/ x.complete THEN x
    ELSE [x EXCEPT !.checks = Append(@, [ok |-> x.size = "right" /\ x.array = Pieces,
                                         array |-> x.array, live |-> TRUE])]

(* Data for a piece: its right bytes, other bytes that fit the array, or   *)
(* bytes that do not, being longer than the announced size leaves room     *)
(* for, of a piece beyond its end, or sent before any size is announced.   *)
Data == {"good", "bad", "misfit"}

(* `metadata.set` throws a RangeError for data that does not fit, and none *)
(* of its callers, from the wire's _write down, catches it: the process    *)
(* ends, and its wires with it.                                            *)
Throws(w, b) == b = "misfit" /\ u[w].fetching

Throw ==
    /\ uncaught' = TRUE
    /\ u' = [w \in Wires |-> NewUt]
    /\ parsing' = {}

(* #onData: a rude peer sends what nobody asked for; before the size is    *)
(* announced nothing fits.  A message that carries no byte is left out.    *)
OnData(w, p, b) ==
    /\ u[w].on /\ Len(u[w].checks) < MaxChecks
    /\ kind[w] # "rude" => p \in u[w].asked
    /\ kind[w] = "honest" => b = "good"
    /\ u[w].size = "none" => kind[w] = "rude" /\ b = "misfit"
    /\ LET x == [u[w] EXCEPT !.asked = IF kind[w] = "rude" THEN @ ELSE @ \ {p}]
           touch(c) == IF c.live THEN [c EXCEPT !.array = Put(@, p, b)] ELSE c
           y == [x EXCEPT !.array = Put(@, p, b), !.bits = @ \cup {p},
                          !.touched = @ \/ \E i \in DOMAIN x.checks : x.checks[i].live,
                          !.checks = [i \in DOMAIN @ |-> touch(@[i])]]
       IN  IF Throws(w, b) THEN Throw
           ELSE /\ u' = [u EXCEPT ![w] = IF x.fetching THEN CheckDone(y) ELSE x]
                /\ UNCHANGED <<parsing, uncaught>>
    /\ UNCHANGED <<kind, xs, meta, started, destroyed>>

(* #onReject asks again, as long as rejects are left.                      *)
OnPieceReject(w, p) ==
    /\ u[w].on /\ kind[w] # "honest"
    /\ kind[w] = "flaky" => p \in u[w].asked
    /\ LET x == u[w]
       IN  u' = [u EXCEPT ![w] = IF x.rejects > 0 /\ x.fetching
                                 THEN [x EXCEPT !.rejects = @ - 1]
                                 ELSE IF kind[w] = "rude" THEN x
                                 ELSE [x EXCEPT !.asked = @ \ {p}]]
    /\ UNCHANGED <<kind, parsing, xs, meta, started, destroyed, uncaught>>

(* #remainingRejects after a failure; below zero is as good as zero.       *)
Less(n) == IF n > NumPieces THEN n - NumPieces ELSE 0

(* #failedMetadata: another attempt, while rejects are left.               *)
Failed(x) ==
    LET y == [x EXCEPT !.bits = {}, !.rejects = Less(@)] IN
    IF y.rejects > 0 THEN RequestPieces(y) ELSE y

(* Mutant: the metadata counts whatever the hash says.                     *)
OnHash_Trust(w, i) ==
    /\ i \in DOMAIN u[w].checks
    /\ LET x == [u[w] EXCEPT !.checks = RemoveAt(@, i)]
           m == Worth(u[w].checks[i].array)
       IN  /\ u' = [u EXCEPT ![w] = [x EXCEPT !.fetching = FALSE, !.complete = TRUE,
                                              !.metadata = m, !.emits = @ + 1]]
           /\ parsing' = parsing \cup {m}
    /\ UNCHANGED <<kind, xs, meta, started, destroyed, uncaught>>

(* setMetadata after the hash.  Bytes that changed meanwhile are stored    *)
(* and served; they may not even decode, and then nothing is emitted.      *)
OnHash(w, i) ==
    /\ i \in DOMAIN u[w].checks
    /\ LET c == u[w].checks[i]
           x == [u[w] EXCEPT !.checks = RemoveAt(@, i)]
           m == Worth(c.array)
           y == [x EXCEPT !.fetching = FALSE, !.complete = TRUE, !.metadata = m,
                            !.array = {}]
       IN  \/ /\ c.ok
              /\ u' = [u EXCEPT ![w] = [y EXCEPT !.emits = @ + 1]]
              /\ parsing' = parsing \cup {m}
           \/ /\ c.ok /\ m = "bad"
              /\ u' = [u EXCEPT ![w] = y]
              /\ UNCHANGED parsing
           \/ /\ ~c.ok
              /\ u' = [u EXCEPT ![w] = Failed(x)]
              /\ UNCHANGED parsing
    /\ UNCHANGED <<kind, xs, meta, started, destroyed, uncaught>>

(* Mutant: the wires' metadata is left aside while an `xs` is under way.    *)
OnParsed_PreferXs(m) ==
    /\ m \in parsing
    /\ parsing' = parsing \ {m}
    /\ IF \A url \in Urls : xs[url] = "done" THEN OnMetadata(m) ELSE UNCHANGED meta
    /\ UNCHANGED <<kind, u, xs, started, destroyed, uncaught>>

(* parseTorrent of what a wire emitted; an error destroys the torrent.     *)
OnParsed(m) ==
    /\ m \in parsing
    /\ parsing' = parsing \ {m}
    /\ \/ OnMetadata(m) /\ UNCHANGED destroyed
       \/ m = "bad" /\ destroyed' = TRUE /\ UNCHANGED meta
    /\ UNCHANGED <<kind, u, xs, started, uncaught>>

(* #getMetadataFromURL: after the response only the first look at          *)
(* destroyed and metadata; then the body is read and parsed, and it must   *)
(* have the torrent's info hash.  Errors are warnings.                     *)
OnXsResponse(url) ==
    /\ xs[url] = "fetching"
    /\ xs' = [xs EXCEPT ![url] = IF destroyed \/ meta # "none" THEN "done" ELSE "reading"]
    /\ UNCHANGED <<kind, u, parsing, meta, started, destroyed, uncaught>>

OnXsParsed(url) ==
    /\ xs[url] = "reading"
    /\ xs' = [xs EXCEPT ![url] = "done"]
    /\ OnMetadata("good")
    /\ UNCHANGED <<kind, u, parsing, started, destroyed, uncaught>>

OnXsError(url) ==
    /\ xs[url] \in {"fetching", "reading"}
    /\ xs' = [xs EXCEPT ![url] = "done"]
    /\ UNCHANGED <<kind, u, parsing, meta, started, destroyed, uncaught>>

(* A wire closes (its hashes go on); an honest peer stays.                 *)
OnClose(w) ==
    /\ u[w].on /\ kind[w] # "honest"
    /\ u[w].checks = <<>>
    /\ u' = [u EXCEPT ![w] = NewUt]
    /\ UNCHANGED <<kind, parsing, xs, meta, started, destroyed, uncaught>>

Destroy ==
    /\ ~destroyed
    /\ destroyed' = TRUE
    /\ xs' = [url \in Urls |-> IF xs[url] = "none" THEN "none" ELSE "done"]
    /\ UNCHANGED <<kind, u, parsing, meta, started, uncaught>>

UtNext(w) ==
    \/ HandleWire(w) \/ OnClose(w)
    \/ \E size \in {"right", "wrong"} : OnExtendedHandshake(w, size)
    \/ \E p \in Pieces : OnPieceReject(w, p) \/ \E b \in Data : OnData(w, p, b)
    \/ \E i \in 1 .. MaxChecks : OnHash(w, i)

MetadataNext ==
    /\ ~uncaught
    /\ \/ OnListening \/ Destroy
       \/ \E w \in Wires : UtNext(w)
       \/ \E m \in {"good", "bad"} : OnParsed(m)
       \/ \E url \in Urls : OnXsResponse(url) \/ OnXsParsed(url) \/ OnXsError(url)

Honest(w) == kind[w] = "honest"

(* The port opens, parsing ends, and an honest peer connects, answers, and *)
(* what it sent is hashed.  Each of these steps is taken but a few times   *)
(* before there is metadata, so that it is enough that one of them is.     *)
HonestStep(w) ==
    /\ Honest(w)
    /\ \/ HandleWire(w) \/ OnExtendedHandshake(w, "right")
       \/ \E p \in Pieces : OnData(w, p, "good")
       \/ \E i \in 1 .. MaxChecks : OnHash(w, i)

Progress ==
    /\ meta = "none" /\ ~destroyed /\ ~uncaught
    /\ OnListening \/ (\E m \in parsing : OnParsed(m)) \/ \E w \in Wires : HonestStep(w)

MetadataFairness == WF_metadataVars(Progress)

MetadataSpec == MetadataInit /\ [][MetadataNext]_metadataVars /\ MetadataFairness

-----------------------------------------------------------------------------
(* Properties *)

(* A wire whose peer answers each request once never forgets a piece: it   *)
(* has it, asks for it, hashes the whole, or has no reject left; and it    *)
(* emits 'metadata' at most once.                                          *)
NothingForgotten ==
    \A w \in Wires : kind[w] # "rude" /\ u[w].fetching /\ u[w].size # "none" =>
        /\ u[w].emits <= 1
        /\ \/ u[w].checks # <<>>
           \/ u[w].rejects = 0
           \/ u[w].bits # Pieces /\ Pieces \ u[w].bits \subseteq u[w].asked

(* #onRequest: what a peer that asks for a piece gets.                     *)
Reply(w) == IF u[w].complete THEN u[w].metadata ELSE "reject"

(* What the torrent takes as its metadata, and what a wire serves, has the *)
(* info hash, unless a peer sent more pieces while the hash was awaited.   *)
GoodMetadata ==
    /\ meta = "bad" => \E w \in Wires : kind[w] = "rude"
    /\ \A w \in Wires : Reply(w) = "bad" => u[w].touched \/ meta = "bad"

(* The metadata of a torrent is set once and never after destroy, however  *)
(* many wires and `xs` requests were under way when it was.                *)
SetOnce == [][meta' # meta => meta = "none" /\ ~destroyed]_metadataVars

(* With one honest peer the metadata arrives, whatever the others send     *)
(* and reject, whenever they close, but for data that does not fit: that   *)
(* ends the process.                                                       *)
MetadataArrives == <>(meta # "none" \/ destroyed \/ uncaught)

(* What the wires fetch is complete and right.                             *)
Fetched == NothingForgotten /\ GoodMetadata

(* The torrent has its metadata at last, once, if the process lives.       *)
Arrives == SetOnce /\ MetadataArrives
=============================================================================
