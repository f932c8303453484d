-------------------------------- MODULE MCWire --------------------------------
(***************************************************************************)
(* One connection on small instances: Wire, the Handshake before it, and   *)
(* the Metadata that comes over a few of them.  The scene chosen at the    *)
(* start says which of them moves.                                         *)
(***************************************************************************)
EXTENDS Wire, Metadata, Handshake, TLC

CONSTANTS b1, b2, w1, w2, p1, p2, x1

VARIABLE scene

(* The Fast Extension is for both ends alike.                              *)
SomeSetups == {s \in Setup : s.fast["out"]}

(* An honest peer and a flaky or rude one, and one `xs`.                   *)
Casts == {(w1 :> "honest") @@ (w2 :> k) : k \in {"flaky", "rude"}}

wireVars == <<hasFast, requests, peerChoking, timer, down, issued, calls, peerRequests, responding,
              amChoking, up, dropped, toUp, toDown>>

(* In the other scenes there is no torrent that waits for its metadata.    *)
NoMetadata ==
    /\ kind = CHOOSE k \in Casts : TRUE
    /\ u = [x \in Wires |-> NewUt]
    /\ parsing = {} /\ xs = [url \in Urls |-> "none"]
    /\ meta = "none" /\ started = FALSE /\ destroyed = TRUE
    /\ uncaught = FALSE

WireInit ==
    /\ scene \in {"wire", "handshake", "metadata"}
    /\ Init /\ (scene # "wire" => hasFast)
    /\ HandshakeInit /\ (scene # "handshake" => setup = CHOOSE s \in SomeSetups : TRUE)
    /\ IF scene = "metadata" THEN MetadataInit ELSE NoMetadata

WireNext ==
    \/ scene = "wire" /\ Next /\ UNCHANGED <<scene, handshakeVars, metadataVars>>
    \/ scene = "handshake" /\ HandshakeNext /\ UNCHANGED <<scene, wireVars, metadataVars>>
    \/ scene = "metadata" /\ MetadataNext /\ UNCHANGED <<scene, wireVars, handshakeVars>>

WireSpec ==
    /\ WireInit /\ [][WireNext]_<<scene, wireVars, handshakeVars, metadataVars>>
    /\ Fairness
    /\ WF_<<handshakeVars, metadataVars>>(
          \/ scene = "handshake" /\ HandshakeStep /\ UNCHANGED metadataVars
          \/ scene = "metadata" /\ Progress /\ UNCHANGED handshakeVars)

-----------------------------------------------------------------------------
(* Handshake: the peers are connected in the end.                          *)
Connects == scene = "handshake" => PeersConnect
=============================================================================
