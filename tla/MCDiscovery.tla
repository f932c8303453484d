----------------------------- MODULE MCDiscovery -----------------------------
(***************************************************************************)
(* Small instances of Discovery and of the Client that starts it.  The     *)
(* scene chosen at the start says which of them moves.                     *)
(***************************************************************************)
EXTENDS Discovery, Client, TLC

CONSTANTS t1, t2, q1, q2, c1, c2, c3, c4

VARIABLE scene

discoveryVars == <<setup, d, client, dht, told, crashed>>

TwoTorrents == {t1, t2}

(* LSD only adds a task, and the kind of tracker does not touch the DHT.   *)
SomeSetups == {s \in Setup : s.lsd = (s.dht = "internal") /\ (s.tracker = "udp") = (s.dht = "none")}

QuietSetup == CHOOSE s \in SomeSetups : s.dht = "none"

(* In the Client either the search runs, or torrents are removed and the   *)
(* client is shut down.                                                    *)
StartingInit ==
    /\ scene \in {"search", "close", "discovery"}
    /\ Init /\ (scene # "discovery" => setup = QuietSetup /\ d.port = q1)
    /\ ClientInit

StartingNext ==
    \/ /\ scene \in {"search", "close"}
       /\ \/ TorrentStep
          \/ NotifyListening
          \/ scene = "search" /\ SearchStep
          \/ scene = "close" /\ CloseStep
       /\ UNCHANGED <<scene, discoveryVars>>
    \/ scene = "discovery" /\ Next /\ UNCHANGED <<scene, lifecycleVars>>

StartingSpec ==
    /\ StartingInit /\ [][StartingNext]_<<scene, vars, lifecycleVars>>
    /\ Fairness /\ ClientFairness

-----------------------------------------------------------------------------
(* client.remove calls back, client.destroy when all is closed, and the    *)
(* destroy of a discovery as well.                                         *)
Closes == ClientCloses /\ DestroyCallsBack
=============================================================================
