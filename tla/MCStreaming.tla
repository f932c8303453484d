---------------------------- MODULE MCStreaming ----------------------------
(***************************************************************************)
(* Streaming, and the HTTP server whose bodies are its readers, on small   *)
(* instances.  The scene chosen at the start says which of them runs.      *)
(***************************************************************************)
EXTENDS HttpServer

CONSTANTS r1, r2

VARIABLE scene

OneFile    == {<<1, 2>>}
SomeRanges == {<<0, 1>>, <<1, 1>>, <<2, 2>>}

SomeNames == {"hash", "elsewhere", "favicon.ico", "other", "site/", "page", ".html", "docs",
              "/", "index", "none", "old", "%"}

(* A hosted site in its folder, a hosted application, a plain torrent.     *)
Folder == [hosting |-> TRUE, named |-> TRUE, spa |-> FALSE, error |-> << >>,
           redirects |-> {<<"old">>},
           files |-> {<<"site/", "index", ".html">>, <<"site/", "page", ".html">>,
                      <<"site/", "docs", "/", "index", ".html">>}]
App == [Folder EXCEPT !.spa = TRUE, !.error = <<"site/", "page", ".html">>]
Plain == [Folder EXCEPT !.hosting = FALSE, !.files = {<<"page", ".html">>}]
SomeSites == {Folder, App, Plain}

(* The file of the HTTP server has three bytes.                            *)
Part(a, b) == [from |-> a, to |-> b, part |-> TRUE]
Full == [Part(0, 2) EXCEPT !.part = FALSE]
Get(p, part) == [method |-> "GET", path |-> p, range |-> part]
AllAsks ==
    {Get(<<"hash", "page">>, Full), Get(<<"hash", "page", ".html">>, Part(0, 0)),
     Get(<<"hash", "page">>, Part(0, 1)), Get(<<"hash", "docs", "/">>, Part(2, 2)),
     Get(<<"hash", "none">>, Full), Get(<<"hash", "old">>, Full), Get(<<"hash", "%">>, Full),
     Get(<<"hash">>, Full), Get(<< >>, Full), Get(<<"other">>, Full),
     Get(<<"elsewhere">>, Full), Get(<<"favicon.ico">>, Full),
     [Get(<<"hash", "page">>, Full) EXCEPT !.method = "HEAD"],
     [Get(<<"hash", "page">>, Full) EXCEPT !.method = "OPTIONS"],
     [Get(<<"hash", "page">>, Full) EXCEPT !.method = "POST"]}
SomeAsks(r) == IF r = r1 THEN AllAsks ELSE {Get(<<"hash", "page">>, Part(1, 1))}

(* Two connections at a time: two requests for a file of the folder.       *)
TwoAtOnce == ask[r2] # NoAsk =>
    site = Folder /\ ask[r1] \in {NoAsk, Get(<<"hash", "page">>, Part(0, 1))}

(* Nothing happens in the other scenes.                                    *)
NoHttp ==
    /\ site = Plain /\ ready = TRUE /\ server = "new" /\ closing = "none"
    /\ ask = [r \in Readers |-> NoAsk]
    /\ handled = [r \in Readers |-> "none"]
    /\ answer = [r \in Readers |-> Page(0)]

ReadersInit ==
    /\ scene \in {"readers", "http"}
    /\ IF scene = "http" THEN HttpInit ELSE Init /\ NoHttp

ReadersNext ==
    \/ scene = "readers" /\ Next /\ UNCHANGED <<scene, httpVars>>
    \/ scene = "http" /\ HttpNext /\ TwoAtOnce' /\ UNCHANGED scene

(* Pieces are verified and reads are answered, in any order; Streaming's   *)
(* Fairness says the same of each piece and each reader.                   *)
ReadersProgress ==
    \/ \E p \in Pieces : ~destroyed /\ p \in Covered(items) /\ Verify(p)
    \/ \E r \in Readers, ok \in BOOLEAN : Read(r, ok)

ReadersSpec ==
    /\ ReadersInit /\ [][ReadersNext]_<<scene, httpVars, vars>>
    /\ WF_<<httpVars, vars>>(\/ scene = "readers" /\ ReadersProgress /\ UNCHANGED httpVars
                             \/ scene = "http" /\ Progress)
    /\ WF_closing(scene = "http" /\ OnClosed)
=============================================================================
