---------------------------- MODULE BrowserServer ----------------------------
(***************************************************************************)
(* The HTTP server of a browser: the service worker (worker-server.ts)     *)
(* asks every tab for what a page fetches, the tabs answer with            *)
(* browser/lib/server.ts, and the first answer is taken.  A body is        *)
(* streamed over the message port of that tab, chunk by chunk.             *)
(*                                                                         *)
(* What a tab answers (ServerBase, see HttpServer) is chosen at the start. *)
(* The cache of the worker, of which the first fetch finds nothing, and    *)
(* the rewriting of addresses are left out.                                *)
(***************************************************************************)
EXTENDS Integers, Sequences, FiniteSets

CONSTANTS
    Tabs,     \* window clients
    Fetches   \* what the pages fetch

VARIABLES
    content,   \* what each tab answers: page, file, injected
    open,      \* the tabs that are not closed
    serving,   \* those with a server that is not closed
    active,    \* activeClients: their cancel request is open
    worker,    \* how far the worker is with each fetch
    from,      \* the tab whose answer it took
    pulling,   \* a pull of its stream waits for a chunk
    timeout,   \* a timer is set for the stream
    port,      \* the tabs' ends of the message ports
    toTab, toWorker,  \* messages on the ports
    count,     \* workerPortCount of each tab
    keepAlive, \* the tabs whose keep-alive interval runs
    twice      \* history: the tabs that cleaned up for a port twice

tabVars == <<content, open, serving, active>>
workerVars == <<worker, from, pulling, timeout>>
browserVars == <<tabVars, workerVars, port, toTab, toWorker, count, keepAlive, twice>>

NoTab == "no tab"

(* `phase` of a port: unused, asked, streaming (its onmessage is set) or   *)
(* clean.  `next` waits for the iterator; `sent` and `pulled` remember     *)
(* that there was a chunk and a pull.                                      *)
Unused == [phase |-> "unused", iterator |-> "none", next |-> FALSE, sent |-> FALSE,
           pulled |-> FALSE]

BrowserInit ==
    /\ content \in [Tabs -> {"page", "file", "injected"}]
    /\ open = Tabs /\ serving = Tabs /\ active = Tabs
    /\ worker = [f \in Fetches |-> "none"]
    /\ from = [f \in Fetches |-> NoTab]
    /\ pulling = [f \in Fetches |-> FALSE]
    /\ timeout = [f \in Fetches |-> FALSE]
    /\ port = [f \in Fetches |-> [t \in Tabs |-> Unused]]
    /\ toTab = [f \in Fetches |-> [t \in Tabs |-> << >>]]
    /\ toWorker = [f \in Fetches |-> [t \in Tabs |-> << >>]]
    /\ count = [t \in Tabs |-> 0]
    /\ keepAlive = {} /\ twice = {}

-----------------------------------------------------------------------------
(* The worker                                                              *)

ToTab(f, m) == toTab' = [toTab EXCEPT ![f][from'[f]] = Append(@, m)]

(* serve: every tab is asked, whether it has a server or not.              *)
Fetch(f) ==
    /\ worker[f] = "none"
    /\ IF open = {} THEN worker' = [worker EXCEPT ![f] = "answered"] /\ UNCHANGED port
       ELSE /\ worker' = [worker EXCEPT ![f] = "asking"]
            /\ port' = [port EXCEPT ![f] = [t \in Tabs |->
                           IF t \in serving THEN [Unused EXCEPT !.phase = "asked"] ELSE Unused]]
    /\ UNCHANGED <<tabVars, from, pulling, timeout, toTab, toWorker, count, keepAlive, twice>>

(* Mutant: the timer is set only while a tab is active.                    *)
AskTimeout_Active(f) ==
    /\ worker[f] = "asking" /\ active # {}
    /\ worker' = [worker EXCEPT ![f] = "answered"]
    /\ UNCHANGED <<tabVars, from, pulling, timeout, port, toTab, toWorker, count, keepAlive, twice>>

(* No answer in time: 503.                                                 *)
AskTimeout(f) ==
    /\ worker[f] = "asking"
    /\ worker' = [worker EXCEPT ![f] = "answered"]
    /\ UNCHANGED <<tabVars, from, pulling, timeout, port, toTab, toWorker, count, keepAlive, twice>>

Received(f, t) == toWorker' = [toWorker EXCEPT ![f][t] = Tail(@)]

(* cleanup of the worker: the tab is told that nothing more is read.       *)
TabTold(f, m) == ToTab(f, m)

(* The first message of a port.  The first of all is the answer; another,  *)
(* or one after the timeout, is ignored, and its tab is not told.          *)
OnAnswer(f, t) ==
    /\ toWorker[f][t] # << >> /\ Head(toWorker[f][t]) \in {"page", "stream"}
    /\ Received(f, t)
    /\ \/ /\ worker[f] = "asking" /\ Head(toWorker[f][t]) = "stream"
          /\ worker' = [worker EXCEPT ![f] = "streaming"]
          /\ from' = [from EXCEPT ![f] = t]
          /\ UNCHANGED toTab
       \/ /\ worker[f] = "asking" /\ Head(toWorker[f][t]) = "page"
          /\ worker' = [worker EXCEPT ![f] = "answered"]
          /\ from' = [from EXCEPT ![f] = t]
          /\ TabTold(f, FALSE)
       \/ /\ worker[f] # "asking"
          /\ UNCHANGED <<worker, from, toTab>>
    /\ UNCHANGED <<tabVars, pulling, timeout, port, count, keepAlive, twice>>

(* pull of the stream.  A timer is set when no tab is active, and a timer  *)
(* of an earlier pull goes on when one is.                                 *)
PullBody(f) ==
    /\ worker[f] = "streaming" /\ ~pulling[f]
    /\ pulling' = [pulling EXCEPT ![f] = TRUE]
    /\ timeout' = [timeout EXCEPT ![f] = @ \/ active = {}]
    /\ UNCHANGED <<worker, from>> /\ ToTab(f, TRUE)
    /\ UNCHANGED <<tabVars, port, toWorker, count, keepAlive, twice>>

(* cleanup of the worker; its port is deaf from now on.                    *)
StopsReading(f, how) ==
    /\ worker' = [worker EXCEPT ![f] = how]
    /\ pulling' = [pulling EXCEPT ![f] = FALSE]
    /\ timeout' = [timeout EXCEPT ![f] = FALSE]
    /\ UNCHANGED from /\ ToTab(f, FALSE)

(* A chunk, or the end of the body: a body without a chunk is an error.    *)
OnChunk(f) ==
    /\ worker[f] = "streaming" /\ pulling[f]
    /\ LET t == from[f]
       IN  /\ toWorker[f][t] # << >>
           /\ Received(f, t)
           /\ \/ /\ Head(toWorker[f][t]) = "chunk"
                 /\ pulling' = [pulling EXCEPT ![f] = FALSE]
                 /\ UNCHANGED <<worker, from, timeout, toTab>>
              \/ /\ Head(toWorker[f][t]) = "end"
                 /\ StopsReading(f, IF port[f][t].sent THEN "answered" ELSE "failed")
    /\ UNCHANGED <<tabVars, port, count, keepAlive, twice>>

(* Who fetched it cancels.                                                 *)
Cancel(f) ==
    /\ worker[f] = "streaming"
    /\ StopsReading(f, "answered")
    /\ UNCHANGED <<tabVars, port, toWorker, count, keepAlive, twice>>

(* The timer of the stream: the pull ends, the body does not.              *)
StreamTimeout(f) ==
    /\ worker[f] = "streaming" /\ timeout[f]
    /\ StopsReading(f, "hanging")
    /\ UNCHANGED <<tabVars, port, toWorker, count, keepAlive, twice>>

-----------------------------------------------------------------------------
(* The tabs                                                                *)

(* wrapRequest: the answer, an iterator if it has a body, and one port     *)
(* more.                                                                   *)
Answer(f, t) ==
    /\ t \in open /\ port[f][t].phase = "asked"
    /\ port' = [port EXCEPT ![f][t] = [@ EXCEPT !.phase = "streaming",
                    !.iterator = IF content[t] = "page" THEN "none" ELSE "open"]]
    /\ toWorker' = [toWorker EXCEPT ![f][t] =
                       Append(@, IF content[t] = "page" THEN "page" ELSE "stream")]
    /\ count' = [count EXCEPT ![t] = @ + 1]
    /\ UNCHANGED <<tabVars, workerVars, toTab, keepAlive, twice>>

(* The port after cleanup: an injected body has no destroy.                *)
Cleaned(p, t) ==
    [p EXCEPT !.phase = "clean",
              !.iterator = IF content[t] = "injected" \/ @ = "none" THEN @ ELSE "closed"]

(* Mutant: the interval is stopped whatever else is streamed.              *)
CleanUp_Stops(f, t, restarts) ==
    /\ count' = [count EXCEPT ![t] = @ - 1]
    /\ keepAlive' = IF restarts THEN keepAlive \cup {t} ELSE keepAlive \ {t}
    /\ twice' = IF port[f][t].phase = "clean" THEN twice \cup {t} ELSE twice

(* cleanup, which does not look whether it ran before.  After the end of a *)
(* body the interval is started again at once.                             *)
CleanUp(f, t, restarts) ==
    /\ count' = [count EXCEPT ![t] = @ - 1]
    /\ keepAlive' = IF restarts THEN keepAlive \cup {t}
                    ELSE IF count'[t] = 0 THEN keepAlive \ {t} ELSE keepAlive
    /\ twice' = IF port[f][t].phase = "clean" THEN twice \cup {t} ELSE twice

(* The message that a tab has got.                                         *)
OnMessage(f, t) == Head(toTab[f][t])

(* onmessage of a port: the iterator is asked for the next chunk, or       *)
(* cleaned up.  A port that is clean hears nothing.                        *)
OnPort(f, t) ==
    /\ t \in open /\ toTab[f][t] # << >>
    /\ toTab' = [toTab EXCEPT ![f][t] = Tail(@)]
    /\ \/ /\ port[f][t].phase = "streaming" /\ OnMessage(f, t)
          /\ port' = [port EXCEPT ![f][t].next = TRUE]
          /\ UNCHANGED <<count, keepAlive, twice>>
       \/ /\ port[f][t].phase = "streaming" /\ ~OnMessage(f, t)
          /\ port' = [port EXCEPT ![f][t] = Cleaned(@, t)]
          /\ CleanUp(f, t, FALSE)
       \/ /\ port[f][t].phase = "clean"
          /\ UNCHANGED <<port, count, keepAlive, twice>>
    /\ UNCHANGED <<tabVars, workerVars, toWorker>>

(* The next chunk; a bound: one.                                           *)
Chunk(f, t) ==
    /\ t \in open /\ port[f][t].next
    /\ port[f][t].iterator = "open" /\ ~port[f][t].sent
    /\ port' = [port EXCEPT ![f][t] = [@ EXCEPT !.next = FALSE, !.sent = TRUE, !.pulled = TRUE]]
    /\ toWorker' = [toWorker EXCEPT ![f][t] = Append(@, "chunk")]
    /\ keepAlive' = keepAlive \cup {t}
    /\ UNCHANGED <<tabVars, workerVars, toTab, count, twice>>

(* The body ends, or fails, or the iterator was destroyed while its next   *)
(* piece was awaited, and another piece has been verified.                 *)
NoChunk(f, t) ==
    /\ t \in open /\ port[f][t].next
    /\ port' = [port EXCEPT ![f][t] = [Cleaned(@, t) EXCEPT !.iterator = "closed", !.next = FALSE]]
    /\ toWorker' = [toWorker EXCEPT ![f][t] = Append(@, "end")]
    /\ CleanUp(f, t, TRUE)
    /\ UNCHANGED <<tabVars, workerVars, toTab>>

-----------------------------------------------------------------------------
(* close of a tab's server: messages that have not come are not heard,     *)
(* requests that wait for client.get and open ports go on.                 *)
CloseTabServer(t) ==
    /\ t \in serving
    /\ serving' = serving \ {t} /\ active' = active \ {t}
    /\ \E deaf \in SUBSET {f \in Fetches : port[f][t].phase = "asked"} :
          port' = [f \in Fetches |-> [port[f] EXCEPT ![t].phase =
                      IF f \in deaf THEN "unused" ELSE @]]
    /\ UNCHANGED <<content, open, workerVars, toTab, toWorker, count, keepAlive, twice>>

CloseTab(t) ==
    /\ t \in open
    /\ open' = open \ {t} /\ serving' = serving \ {t} /\ active' = active \ {t}
    /\ UNCHANGED <<content, workerVars, port, toTab, toWorker, count, keepAlive, twice>>

Serve ==
    \/ \E f \in Fetches : AskTimeout(f) \/ PullBody(f) \/ OnChunk(f)
    \/ \E f \in Fetches, t \in Tabs : \/ OnAnswer(f, t) \/ Answer(f, t) \/ OnPort(f, t)
                                      \/ Chunk(f, t) \/ NoChunk(f, t)

BrowserNext ==
    \/ Serve
    \/ \E f \in Fetches : Fetch(f) \/ Cancel(f) \/ StreamTimeout(f)
    \/ \E t \in Tabs : CloseTabServer(t) \/ CloseTab(t)

BrowserFairness == WF_browserVars(Serve)

BrowserSpec == BrowserInit /\ [][BrowserNext]_browserVars /\ BrowserFairness

-----------------------------------------------------------------------------
Streams(t) == {f \in Fetches : port[f][t].phase = "streaming"}

(* workerPortCount is the number of ports of a tab that are not cleaned,   *)
(* and a stream that was read from keeps the worker alive, as long as no   *)
(* port was cleaned twice: a cancel while a piece is awaited does that.    *)
PortsCounted ==
    \A t \in Tabs \ twice :
        /\ count[t] = Cardinality(Streams(t))
        /\ (\E f \in Streams(t) : port[f][t].pulled) => t \in keepAlive

(* The tab whose answer was taken cleans its port and destroys the         *)
(* iterator, once the worker reads no more; the iterator inside of an      *)
(* injected body stays, and so do the ports and the iterators of tabs that *)
(* answered later, or too late (serve, wrapRequest).                       *)
WinnerCleansUp ==
    \A f \in Fetches :
        from[f] \in open /\ worker[f] # "streaming" ~>
            \/ from[f] \notin open
            \/ /\ port[f][from[f]].phase = "clean"
               /\ port[f][from[f]].iterator = "open" => content[from[f]] = "injected"

(* Every fetch is answered to the end, unless the tab that answers is      *)
(* closed in between; or no tab was active at some time, and the worker    *)
(* stops reading without an end.                                           *)
BodyEnds ==
    \A f \in Fetches :
        worker[f] \in {"asking", "streaming"} ~>
            \/ worker[f] \in {"answered", "failed", "hanging"}
            \/ worker[f] = "streaming" /\ from[f] \notin open

(* Both: a fetch and the port of its answer come to their end.             *)
FetchEnds == WinnerCleansUp /\ BodyEnds
=============================================================================
