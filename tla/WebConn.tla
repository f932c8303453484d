------------------------------- MODULE WebConn -------------------------------
(***************************************************************************)
(* core/src/lib/webconn.ts: a web seed, which is a wire of its own whose   *)
(* end fetches what is asked for over HTTP, one request for every file the *)
(* piece lies in.  A fetch that fails takes the piece back for a while.    *)
(* The torrent's wire is the other end of the pipe; neither end has the    *)
(* fast extension, so that lt_donthave is what fails a request there.      *)
(***************************************************************************)
EXTENDS Integers, Sequences, FiniteSets, SequencesExt, Folds

CONSTANTS
    Layouts,      \* the lengths of the files, in bytes, of the torrents tried
    PieceLength,
    MaxAsked,     \* bound: requests of the torrent's that wait for an answer
    MaxPipe,      \* bound: messages in a pipe
    MaxTimers     \* bound: retries that wait

VARIABLES
    layout,   \* the files
    phase,    \* of the web seed: "new", "hashing", "ready", "unchoked", "destroyed"
    up,       \* the messages on their way to the web seed
    down,     \* the messages on their way to the torrent
    asked,    \* the torrent's requests
    view,     \* what the torrent believes the web seed has
    welcome,  \* the torrent's wire was unchoked
    fetching, \* the peerRequests of the web seed, with the fetches that are not done
    retries,  \* the pieces whose retry timer runs, one for each timer
    twice     \* history: a piece was asked for while it was fetched already

webVars == <<layout, phase, up, down, asked, view, welcome, fetching, retries, twice>>

Length == FoldFunctionOnSet(+, 0, layout, DOMAIN layout)
Least(a, b) == IF a < b THEN a ELSE b
Most(a, b)  == IF a > b THEN a ELSE b

NumPieces == (Length + PieceLength - 1) \div PieceLength
AllPieces == 0 .. NumPieces - 1

Offset(f) == FoldFunctionOnSet(+, 0, layout, 1 .. f - 1)

(* The torrent asks for the rest of a piece.                               *)
Rest(p, o) == Least(PieceLength, Length - p * PieceLength) - o
Request == {[piece |-> p, offset |-> o, length |-> Rest(p, o)] :
               p \in AllPieces, o \in 0 .. PieceLength - 1}

Start(r) == r.piece * PieceLength + r.offset
End(r)   == Start(r) + r.length - 1

-----------------------------------------------------------------------------
(* httpRequest: the files of a range, in order.                            *)

Files(r) ==
    SelectSeq([f \in DOMAIN layout |-> f],
              LAMBDA f : Offset(f) <= End(r) /\ Offset(f) + layout[f] > Start(r))

(* The range asked of a file; its end is bounded by the end of the file in *)
(* the torrent, not in the file itself.                                    *)
Span(r, f) ==
    IF Len(layout) <= 1 THEN [first |-> Start(r), last |-> End(r)]
    ELSE [first |-> Most(Start(r) - Offset(f), 0),
          last  |-> Least(Offset(f) + layout[f] - 1, End(r) - Offset(f))]

(* A server that knows ranges: the bytes, named by their place in the      *)
(* torrent, cut at the end of the file; none when the range begins there.  *)
Satisfiable(r, f) == Span(r, f).first < layout[f]

Body(r, f) ==
    LET g == Span(r, f)
    IN  [i \in 1 .. Least(g.last, layout[f] - 1) - g.first + 1 |-> Offset(f) + g.first + i - 1]

-----------------------------------------------------------------------------
WebInit ==
    /\ layout \in Layouts
    /\ phase = "new"
    /\ up = <<>> /\ down = <<>>
    /\ asked = {} /\ view = {} /\ welcome = FALSE
    /\ fetching = {}
    /\ retries = <<>>
    /\ twice = FALSE

(* The torrent's handshake arrives; the web seed's peer id is a hash of    *)
(* the URL.  Then it has every piece.                                      *)
OnHandshake ==
    /\ phase = "new"
    /\ phase' = "hashing"
    /\ UNCHANGED <<layout, up, down, asked, view, welcome, fetching, retries, twice>>

Hashed ==
    /\ phase = "hashing"
    /\ phase' = "ready"
    /\ down' = Append(down, [type |-> "bitfield"])
    /\ UNCHANGED <<layout, up, asked, view, welcome, fetching, retries, twice>>

(* 'interested', the first time.                                           *)
OnInterested ==
    /\ phase = "ready" /\ view # {}
    /\ phase' = "unchoked"
    /\ down' = Append(down, [type |-> "unchoke"])
    /\ UNCHANGED <<layout, up, asked, view, welcome, fetching, retries, twice>>

(* The torrent asks for a piece it believes the web seed has.              *)
Ask(r) ==
    /\ phase # "destroyed" /\ welcome
    /\ r.piece \in view /\ r.length > 0 /\ r \notin asked
    /\ Cardinality(asked) < MaxAsked /\ Len(up) < MaxPipe
    /\ asked' = asked \cup {r}
    /\ twice' = (twice \/ \E s \in asked \cup {q.request : q \in fetching} : s.piece = r.piece)
    /\ up' = Append(up, r)
    /\ UNCHANGED <<layout, phase, down, view, welcome, fetching, retries>>

(* 'request': every file is fetched at once.                               *)
OnRequest ==
    /\ phase = "unchoked" /\ up # <<>>
    /\ up' = Tail(up)
    /\ LET r == Head(up) IN
       fetching' = fetching \cup {[request |-> r, left |-> ToSet(Files(r))]}
    /\ UNCHANGED <<layout, phase, down, asked, view, welcome, retries, twice>>

(* A fetch is done; with the last of them the piece is sent, put together  *)
(* in the order of the files, whatever order they came in.                 *)
Piece(r) == [type |-> "piece", request |-> r,
             bytes |-> FlattenSeq([i \in DOMAIN Files(r) |-> Body(r, Files(r)[i])])]

OnBody(q, f) ==
    /\ phase = "unchoked" /\ q \in fetching /\ f \in q.left
    /\ Satisfiable(q.request, f) /\ Len(down) < MaxPipe
    /\ LET left == q.left \ {f} IN
       IF left = {}
       THEN /\ fetching' = fetching \ {q}
            /\ down' = Append(down, Piece(q.request))
       ELSE /\ fetching' = (fetching \ {q}) \cup {[q EXCEPT !.left = left]}
            /\ UNCHANGED down
    /\ UNCHANGED <<layout, phase, up, asked, view, welcome, retries, twice>>

(* Mutant: the request is answered, but the piece is not taken back.       *)
OnFailed_Silent(q) ==
    /\ phase = "unchoked" /\ q \in fetching /\ Len(retries) < MaxTimers
    /\ fetching' = fetching \ {q}
    /\ retries' = Append(retries, q.request.piece)
    /\ UNCHANGED <<layout, phase, up, down, asked, view, welcome, twice>>

(* One fetch fails (an error, a status that is not ok, no answer in time): *)
(* what the others bring is dropped.  The error is told to nobody but by   *)
(* donthave.                                                               *)
OnFailed(q) ==
    /\ phase = "unchoked" /\ q \in fetching
    /\ Len(retries) < MaxTimers /\ Len(down) < MaxPipe
    /\ fetching' = fetching \ {q}
    /\ down' = Append(down, [type |-> "donthave", piece |-> q.request.piece])
    /\ retries' = Append(retries, q.request.piece)
    /\ UNCHANGED <<layout, phase, up, asked, view, welcome, twice>>

(* The retry timer, the oldest first.                                      *)
OnRetry ==
    /\ retries # <<>> /\ Len(down) < MaxPipe
    /\ retries' = Tail(retries)
    /\ down' = IF phase = "destroyed" THEN down
               ELSE Append(down, [type |-> "have", piece |-> Head(retries)])
    /\ UNCHANGED <<layout, phase, up, asked, view, welcome, fetching, twice>>

(* The torrent's end.  A donthave for a piece it knows of fails every      *)
(* request for it (lt_donthave); a piece nobody waits for is dropped.      *)
Receive ==
    /\ phase # "destroyed" /\ down # <<>>
    /\ down' = Tail(down)
    /\ LET m == Head(down) IN
       /\ view' = CASE m.type = "bitfield" -> AllPieces
                    [] m.type = "have"     -> view \cup {m.piece}
                    [] m.type = "donthave" -> view \ {m.piece}
                    [] OTHER               -> view
       /\ welcome' = (welcome \/ m.type = "unchoke")
       /\ asked' = CASE m.type = "piece" -> asked \ {m.request}
                     [] m.type = "donthave" /\ m.piece \in view ->
                           {r \in asked : r.piece # m.piece}
                     [] OTHER -> asked
    /\ UNCHANGED <<layout, phase, up, fetching, retries, twice>>

(* destroy: the torrent's requests fail with the wire, fetches end unheard *)
(* and timers do nothing.                                                  *)
Destroy ==
    /\ phase # "destroyed"
    /\ phase' = "destroyed"
    /\ up' = <<>> /\ down' = <<>> /\ asked' = {} /\ fetching' = {}
    /\ UNCHANGED <<layout, view, welcome, retries, twice>>

Fetched == \E q \in fetching : OnFailed(q) \/ \E f \in q.left : OnBody(q, f)

WebNext ==
    \/ OnHandshake \/ Hashed \/ OnInterested \/ OnRequest \/ OnRetry \/ Receive \/ Destroy
    \/ \E r \in Request : Ask(r)
    \/ Fetched

WebSpec == WebInit /\ [][WebNext]_webVars

-----------------------------------------------------------------------------
(* Properties *)

(* What the torrent is sent are the bytes it asked for, each once and in   *)
(* order, however the piece is cut by files; and only a range that lies    *)
(* over an empty file cannot be fetched from a server that knows ranges.   *)
ExactBytes ==
    /\ \A i \in DOMAIN down : down[i].type = "piece" =>
          down[i].bytes = [n \in 1 .. down[i].request.length |-> Start(down[i].request) + n - 1]
    /\ \A q \in fetching : \A f \in q.left : Satisfiable(q.request, f) \/ layout[f] = 0

(* After a failure the server is not asked for the piece before the pause  *)
(* is over, unless the torrent had asked for it twice.                     *)
BackOff ==
    phase # "destroyed" /\ ~twice =>
        \A q \in fetching : q.request.piece \notin ToSet(retries)

(* A request of the torrent's is under way to the web seed, is fetched, or *)
(* its end is on the way back; nobody else would end it, for the torrent's *)
(* wire has no timeout.  And a piece the torrent was told not to ask for   *)
(* waits for its timer or is on offer again.                               *)
Says(m, type, p) == m.type = type /\ m.piece = p

Ends(m, r) == \/ m.type = "piece" /\ m.request = r
              \/ Says(m, "donthave", r.piece)

Offered(p) == \/ p \in ToSet(retries)
              \/ \E i \in DOMAIN down : Says(down[i], "have", p)

NothingStuck ==
    phase = "unchoked" =>
        /\ \A r \in asked : \/ r \in ToSet(up)
                            \/ \E q \in fetching : q.request = r
                            \/ \E i \in DOMAIN down : Ends(down[i], r)
        /\ \A p \in AllPieces :
              p \notin view \/ (\E i \in DOMAIN down : Says(down[i], "donthave", p)) => Offered(p)

(* What a web seed owes the torrent: the right bytes, an end of every      *)
(* request, and a pause after a failure.                                   *)
SeedServes == ExactBytes /\ BackOff /\ NothingStuck
=============================================================================
