------------------------------ MODULE HttpServer ------------------------------
(***************************************************************************)
(* The HTTP server of a client: server-base.ts and its Node half,          *)
(* node/lib/server.ts.  The body of an answer is a reader of Streaming:    *)
(* request r reads with reader r, and a piece is one byte of the file.     *)
(*                                                                         *)
(* A path is a sequence of name parts; the first is the info hash.  A      *)
(* connection carries one request; its destination, which a browser tells  *)
(* (see BrowserServer), is unknown to Node.  Headers other than the length *)
(* and the layout of the pages are left out.                               *)
(***************************************************************************)
EXTENDS Streaming

CONSTANTS
    Names,     \* the parts of paths
    Sites,     \* the options and torrents tried
    Asks(_)    \* the requests a connection may carry

VARIABLES
    site,      \* options of the server and files of the torrent
    ready,     \* client.ready
    server,    \* new, listening, closed or destroyed
    closing,   \* the callback of close or destroy: none, waiting, called, failed
    ask,       \* the request of each connection
    handled,   \* how far its handler is
    answer     \* its answer

httpVars == <<site, ready, server, closing, ask, handled, answer>>

Size == NumPieces
Whole == [from |-> 0, to |-> Size - 1, part |-> FALSE]

(* A site and the files of its torrent, which are paths.                   *)
Path == Seq(Names)
Site == [hosting : BOOLEAN, named : BOOLEAN, spa : BOOLEAN, error : Path,
         redirects : SUBSET Path, files : SUBSET (Path \ {<< >>})]

(* The last byte that is asked for is in the file and not before the first.*)
ASSUME HttpAssumption ==
    /\ {"site/", "index", ".html"} \subseteq Names
    /\ Sites \subseteq Site
    /\ \A r \in Readers : \A k \in Asks(r) :
          /\ k.path \in Path
          /\ k.range.from \in 0 .. Size - 1 /\ k.range.to \in k.range.from .. Size - 1
          /\ k.range = Whole \/ k.range.part = TRUE

NoAsk == [method |-> "none", path |-> << >>, range |-> Whole]

(* An answer without a body; no length is told.                            *)
Page(n) == [status |-> n, length |-> -1, from |-> 0, to |-> -1]

-----------------------------------------------------------------------------
(* resolveFile: the first of some paths that is a file, or the error page. *)

FolderOf(s) == IF s.hosting /\ s.named THEN <<"site/">> ELSE << >>

Index == <<"index", ".html">>

(* Mutant: the folder is not put before a name without its extension.      *)
Extended_Bare(s, p) == p \o <<".html">>

Extended(s, p) == FolderOf(s) \o (p \o <<".html">>)

(* In their order; where one is not tried, one stands that was.            *)
Candidates(s, p, document) ==
    LET inFolder == FolderOf(s) \o p
    IN  <<p, inFolder,
          IF p[Len(p)] = "/" THEN FolderOf(s) \o (p \o Index) ELSE inFolder,
          Extended(s, p),
          IF s.hosting /\ s.spa /\ document THEN FolderOf(s) \o Index ELSE inFolder>>

Resolve(s, p, document) ==
    LET all   == Candidates(s, p, document)
        found == {i \in DOMAIN all : all[i] \in s.files}
    IN  IF found # {}
        THEN [file |-> all[CHOOSE i \in found : \A j \in found : i <= j], status |-> 200]
        ELSE IF s.hosting /\ s.error \in s.files THEN [file |-> s.error, status |-> 404]
        ELSE [file |-> << >>, status |-> 404]

-----------------------------------------------------------------------------
(* serveFile                                                               *)

(* File's iterator takes an end of 0 for none.                             *)
LastByte(part) == IF part.to # 0 /\ part.to < Size THEN part.to ELSE Size - 1

ContentLength(part) == part.to - part.from + 1

ServeFile(k, res) ==
    [status |-> IF res.status = 404 THEN 404 ELSE IF k.range.part THEN 206 ELSE 200,
     length |-> ContentLength(k.range), from |-> k.range.from, to |-> LastByte(k.range)]

-----------------------------------------------------------------------------
HttpInit ==
    /\ Init
    /\ site \in Sites
    /\ ready \in BOOLEAN
    /\ server = "new" /\ closing = "none"
    /\ ask = [r \in Readers |-> NoAsk]
    /\ handled = [r \in Readers |-> "none"]
    /\ answer = [r \in Readers |-> Page(0)]

(* server.listen, again after a close.                                     *)
Listen ==
    /\ server \in {"new", "closed"} /\ closing # "waiting"
    /\ server' = "listening" /\ closing' = "none"
    /\ UNCHANGED <<site, ready, ask, handled, answer, vars>>

(* handleRequest up to its await: the index page needs none, and a path    *)
(* that cannot be decoded throws out of the handler.                       *)
Handle(k) ==
    IF k.path = << >> THEN "done" ELSE IF Last(k.path) = "%" THEN "thrown" ELSE "getting"

(* wrapRequest and onRequest: another server's path is cut off, what is    *)
(* neither GET nor HEAD is answered at once, and the rest may have to wait *)
(* for the client.                                                         *)
OnRequest(r, k) ==
    /\ server = "listening" /\ handled[r] = "none"
    /\ LET icon == k.path = <<"favicon.ico">> /\ ~site.hosting
           now  == icon \/ k.method \notin {"GET", "HEAD"}
           n    == IF icon THEN 404 ELSE IF k.method = "OPTIONS" THEN 204 ELSE 405
           here == IF ~ready THEN "pending" ELSE Handle(k)
       IN  /\ ask' = [ask EXCEPT ![r] = k]
           /\ handled' = [handled EXCEPT ![r] = IF k.path = <<"elsewhere">> THEN "cut"
                                                ELSE IF now THEN "done" ELSE here]
           /\ answer' = [answer EXCEPT ![r] = Page(IF now THEN n ELSE 200)]
    /\ UNCHANGED <<site, ready, server, closing, vars>>

Woken == {r \in Readers : handled[r] = "pending"}

(* 'ready' of the client: onReady of each request that waits.              *)
BecomeReady ==
    /\ ~ready
    /\ ready' = TRUE
    /\ handled' = [r \in Readers |-> IF r \in Woken THEN Handle(ask[r]) ELSE handled[r]]
    /\ UNCHANGED <<site, server, closing, ask, answer, vars>>

(* client.get has its result: a page, a redirect, a HEAD answer; or a file *)
(* is sent, by an iterator or, when it is complete, from the store.        *)
Got(r) ==
    /\ handled[r] = "getting"
    /\ LET k     == ask[r]
           p     == Tail(k.path)
           res   == Resolve(site, p, FALSE)
           reply(a) == /\ handled' = [handled EXCEPT ![r] = "done"]
                       /\ answer' = [answer EXCEPT ![r] = a]
                       /\ UNCHANGED vars
       IN  CASE destroyed \/ Head(k.path) # "hash" -> reply(Page(404))
             [] OTHER ->
                CASE p = << >> -> reply(Page(200))
                  [] p # << >> /\ site.hosting /\ p \in site.redirects ->
                        reply([Page(301) EXCEPT !.length = 0])
                  [] OTHER ->
                     IF res.file = << >> THEN reply(Page(404))
                     ELSE IF k.method = "HEAD"
                     THEN reply([ServeFile(k, res) EXCEPT !.to = -1])
                     ELSE /\ answer' = [answer EXCEPT ![r] = ServeFile(k, res)]
                          /\ IF have # Pieces
                             THEN /\ Open(r, k.range.from, LastByte(k.range))
                                  /\ handled' = [handled EXCEPT ![r] = "sending"]
                             ELSE /\ handled' = [handled EXCEPT ![r] = "stored"]
                                  /\ UNCHANGED vars
    /\ UNCHANGED <<site, ready, server, closing, ask>>

(* Its consumer is the response, which asks for one chunk after another.   *)
Pull(r) ==
    /\ handled[r] = "sending" /\ CallNext(r)
    /\ UNCHANGED httpVars

(* The body ends or fails; a failure ends the connection.                  *)
Sent(r) ==
    /\ \/ /\ handled[r] = "sending" /\ outcome[r] # "none"
          /\ handled' = [handled EXCEPT ![r] = IF outcome[r] = "done" THEN "done" ELSE "cut"]
       \/ /\ handled[r] = "stored"
          /\ \E how \in {"done", "cut"} : handled' = [handled EXCEPT ![r] = how]
    /\ UNCHANGED <<site, ready, server, closing, ask, answer, vars>>

Connected == {r \in Readers : handled[r] \notin {"none", "done", "cut"}}

(* The other side closes the connection.                                   *)
Abandon(r) ==
    /\ r \in Connected
    /\ handled' = [handled EXCEPT ![r] = "cut"]
    /\ UNCHANGED <<site, ready, server, closing, ask, answer, vars>>

(* The body of a response without a connection is destroyed.               *)
LeaveCut(r) ==
    /\ handled[r] = "cut" /\ Leave(r)
    /\ UNCHANGED httpVars

-----------------------------------------------------------------------------
(* close: the waiting requests are dropped, not answered.  Node calls back *)
(* when the last connection is gone, or with an error if there was no      *)
(* server to close.                                                        *)
CloseServer ==
    /\ server \in {"new", "listening"}
    /\ server' = "closed"
    /\ closing' = IF server = "new" THEN "failed" ELSE "waiting"
    /\ handled' = [r \in Readers |-> IF handled[r] = "pending" THEN "lost" ELSE handled[r]]
    /\ UNCHANGED <<site, ready, ask, answer, vars>>

(* Mutant: requests that are answered at the moment are not disconnected.  *)
Disconnected_Idle == {r \in Connected : handled[r] # "sending"}

Disconnected == Connected

(* destroy: all sockets are destroyed.                                     *)
DestroyServer ==
    /\ server # "destroyed"
    /\ server' = "destroyed"
    /\ closing' = CASE server = "closed" -> "called" [] server = "new" -> "failed"
                    [] OTHER -> "waiting"
    /\ handled' = [r \in Readers |-> IF r \in Disconnected THEN "cut" ELSE handled[r]]
    /\ UNCHANGED <<site, ready, ask, answer, vars>>

OnClosed ==
    /\ closing = "waiting" /\ Connected = {}
    /\ closing' = "called"
    /\ UNCHANGED <<site, ready, server, ask, handled, answer, vars>>

Engine ==
    /\ \/ Destroy
       \/ \E p \in Pieces : p \in Covered(items) /\ Verify(p)
       \/ \E r \in Readers, ok \in BOOLEAN : Read(r, ok)
    /\ UNCHANGED httpVars

HttpNext ==
    \/ Listen \/ BecomeReady \/ CloseServer \/ DestroyServer \/ OnClosed \/ Engine
    \/ \E r \in Readers : \/ \E k \in Asks(r) : OnRequest(r, k)
                          \/ Got(r) \/ Pull(r) \/ Sent(r) \/ Abandon(r) \/ LeaveCut(r)

(* The client gets ready, awaits and the store answer, pieces that are     *)
(* selected are verified while the torrent lives, and who asked reads on.  *)
Progress ==
    \/ BecomeReady
    \/ \E r \in Readers : Got(r) \/ Pull(r) \/ Sent(r) \/ LeaveCut(r)
    \/ /\ \/ ~destroyed /\ \E p \in Pieces : p \in Covered(items) /\ Verify(p)
          \/ \E r \in Readers, ok \in BOOLEAN : Read(r, ok)
       /\ UNCHANGED httpVars

HttpFairness == WF_<<httpVars, vars>>(Progress) /\ WF_closing(OnClosed)

HttpSpec == HttpInit /\ [][HttpNext]_<<httpVars, vars>> /\ HttpFairness

-----------------------------------------------------------------------------
(* Every request is answered to the end or its connection is closed, while *)
(* its torrent lives; close drops those that wait for the client, and a    *)
(* path that cannot be decoded is never answered (onRequest, close).       *)
Settled ==
    \A r \in Readers :
        handled[r] # "none" ~> handled[r] \in {"done", "cut", "lost", "thrown"} \/ destroyed

(* close calls back, unless connections stay open that nobody will answer: *)
(* those of Settled's exceptions; destroy always calls back, though with   *)
(* an error when the server never listened.                                *)
CloseCallsBack ==
    closing = "waiting" ~>
        \/ closing = "called"
        \/ server = "closed" /\ (destroyed \/ \E r \in Readers : handled[r] \in {"lost", "thrown"})

BytesSent(r) == IF phase[r] = "none" THEN answer[r].to - answer[r].from + 1 ELSE got[r]

Honoured(r) ==
    handled[r] = "done" /\ ask[r].method = "GET" /\ answer[r].length >= 0
        => BytesSent(r) = answer[r].length

(* An answer has the length it told, unless a read failed, which ends the  *)
(* body early, or it is the first byte alone (serveFile, File's iterator). *)
LengthExplained ==
    \A r \in Readers :
        Honoured(r) \/ r \in failedReads \/ (ask[r].range.part /\ ask[r].range.to = 0)

(* api.md: range requests are supported.                                   *)
RangesSupported == \A r \in Readers : ask[r].range.part => Honoured(r) \/ r \in failedReads

(* A hosted torrent whose files are all in its own folder serves what it   *)
(* would serve without that folder, but for the error page, which is       *)
(* looked for without it (resolveFile).  The site never changes: it is     *)
(* looked at in the beginning.                                             *)
Unfolded(s) == [s EXCEPT !.named = FALSE, !.files = {Tail(f) : f \in s.files}]

SameAnswer(s, p, document) ==
    LET res  == Resolve(s, p, document)
        bare == Resolve(Unfolded(s), p, document)
    IN  \/ res.status = 404 /\ s.error # << >>
        \/ bare.file = << >> /\ res = bare
        \/ bare.file # << >> /\ res = [bare EXCEPT !.file = FolderOf(s) \o @]

SameSite ==
    server = "new" /\ FolderOf(site) # << >> /\ (\A f \in site.files : Head(f) = "site/") =>
        \A k \in UNION {Asks(r) : r \in Readers}, document \in BOOLEAN :
            Len(k.path) > 1 /\ k.path[2] # "site/" => SameAnswer(site, Tail(k.path), document)

(* Streaming and HttpServer: the end of the data comes after all of it, as *)
(* much as the answer told, with the known exceptions.                     *)
NothingMissing == WholeRange /\ LengthExplained

(* Requests and the server come to their end.                              *)
RequestsEnd == Settled /\ CloseCallsBack
=============================================================================
