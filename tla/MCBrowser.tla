----------------------------- MODULE MCBrowser -----------------------------
(***************************************************************************)
(* Small instances of BrowserServer for TLC: a fetch that two tabs may     *)
(* answer, or two fetches that are answered by one tab.                    *)
(***************************************************************************)
EXTENDS BrowserServer

CONSTANTS t1, t2, f1, f2

OneTab == worker[f2] # "none" => port[f1][t2].phase = "unused" /\ open = {t1}

SmallInit == BrowserInit

SmallNext == BrowserNext /\ OneTab'

SmallSpec == SmallInit /\ [][SmallNext]_browserVars /\ BrowserFairness
=============================================================================
