--------------------------------- MODULE Wire ---------------------------------
(***************************************************************************)
(* Block requests over one connection: two Wire objects of                 *)
(* packages/protocol/src/index.ts joined by a byte stream.  One direction  *)
(* of the transfer is modelled: the downloading end sends requests, the    *)
(* uploading end serves, chokes and rejects.                               *)
(*                                                                         *)
(* Messages carry no request number: an answer goes to the first request   *)
(* in the list that has its piece, offset and length (a block, here).  The *)
(* number in a request is the identity of the JavaScript Request objects   *)
(* at the two ends.                                                        *)
(***************************************************************************)
EXTENDS Integers, Sequences, FiniteSets

CONSTANTS
    Blocks,        \* the (piece, offset, length) triples asked for
    AllowedFast,   \* blocks of the pieces announced with allowedFast()
    Owned,         \* blocks of the pieces the uploading torrent has
    ReadsFail,     \* may store.get fail?
    Duplicates,    \* may a block that is listed be asked for again?
    MaxRequests,   \* bound: requests issued
    MaxQueue       \* bound: messages in flight when choke or unchoke is called

ASSUME BlocksAssumption == AllowedFast \subseteq Blocks /\ Owned \subseteq Blocks
ASSUME FlagsAssumption  == ReadsFail \in BOOLEAN /\ Duplicates \in BOOLEAN
ASSUME BoundsAssumption == MaxRequests \in Nat /\ MaxQueue \in Nat

VARIABLES
    hasFast,       \* both handshakes set the Fast Extension bit
    requests,      \* this.requests of the downloading end
    peerChoking,   \* this.peerChoking of the downloading end
    timer,         \* this._timeout is set
    down,          \* the downloading end: open, ending after end(), finished
    peerRequests,  \* this.peerRequests of the uploading end
    responding,    \* the requests whose respond() the store still holds
    amChoking,     \* this.amChoking of the uploading end
    up,            \* the uploading end: open or finished
    toUp, toDown,  \* the stream, one queue for each direction
    issued,        \* history: calls of request()
    calls,         \* history: how often the callback of each request ran
    dropped        \* history: requests of a block discarded with no answer

downVars == <<requests, peerChoking, timer, down, issued, calls>>
upVars   == <<peerRequests, responding, amChoking, up, dropped>>
vars == <<hasFast, downVars, upVars, toUp, toDown>>

-----------------------------------------------------------------------------
(* Request lists.  unordered-array-remove moves the last element into the  *)
(* gap; _pull removes the first request for a block and returns it.        *)

Matching(s, b) == {i \in 1 .. Len(s) : s[i].block = b}

First(s, b) == CHOOSE i \in Matching(s, b) : \A j \in Matching(s, b) : i <= j

RemoveUnordered(s, i) ==
    LET n == Len(s) - 1
    IN  [j \in 1 .. n |-> IF j = i THEN s[Len(s)] ELSE s[j]]

Pull(s, b) == IF Matching(s, b) = {} THEN s ELSE RemoveUnordered(s, First(s, b))

(* The request _pull returns, as a set: empty when it returns null.        *)
Pulled(s, b) == IF Matching(s, b) = {} THEN {} ELSE {s[First(s, b)]}

Members(s) == {s[i] : i \in 1 .. Len(s)}

Msg(type) == [type |-> type]
BlockMsg(type, b) == [type |-> type, block |-> b]
RequestMsg(r) == [type |-> "request", block |-> r.block, id |-> r.id]

(* A choked end may still be asked for the blocks of allowed fast pieces.  *)
Fast(b) == hasFast /\ b \in AllowedFast

-----------------------------------------------------------------------------
Init ==
    /\ hasFast \in BOOLEAN
    /\ requests = << >>
    /\ peerChoking = TRUE
    /\ timer = FALSE
    /\ down = "open"
    /\ peerRequests = << >>
    /\ responding = {}
    /\ amChoking = TRUE
    /\ up = "open"
    /\ toUp = << >>
    /\ toDown = << >>
    /\ issued = 0
    /\ calls = [i \in 1 .. MaxRequests |-> 0]
    /\ dropped = [b \in Blocks |-> 0]

-----------------------------------------------------------------------------
(* The downloading end.                                                    *)

Called(rs) == [i \in DOMAIN calls |->
                  IF \E r \in rs : r.id = i THEN calls[i] + 1 ELSE calls[i]]

(* _callback, then _resetTimeout: the timer is armed again only while      *)
(* requests remain and the peer is not choking.                            *)
Rearm(rest, answered) ==
    IF answered = {} THEN timer
                     ELSE rest # << >> /\ ~peerChoking /\ down # "finished"

Answer(b) ==
    /\ requests' = Pull(requests, b)
    /\ calls' = Called(Pulled(requests, b))
    /\ timer' = Rearm(Pull(requests, b), Pulled(requests, b))

(* pop and _callback until the list is empty, when choking or finished.    *)
FailAll ==
    /\ requests' = << >>
    /\ calls' = Called(Members(requests))
    /\ timer' = (timer /\ requests = << >>)

(* The torrent never asks a wire for a block it has listed, an application *)
(* may.  The request is refused with an error, or listed and sent.         *)
Request(b) ==
    /\ issued < MaxRequests
    /\ Duplicates \/ Matching(requests, b) = {}
    /\ issued' = issued + 1
    /\ LET r == [id |-> issued + 1, block |-> b]
       IN  IF down = "finished" \/ (peerChoking /\ ~Fast(b))
           THEN /\ calls' = Called({r})
                /\ UNCHANGED <<requests, timer, toUp>>
           ELSE /\ requests' = Append(requests, r)
                /\ timer' = TRUE
                /\ toUp' = Append(toUp, RequestMsg(r))
                /\ UNCHANGED calls
    /\ UNCHANGED <<hasFast, peerChoking, down, upVars, toDown>>

(* cancel() of an outstanding request.                                     *)
Cancel(b) ==
    /\ Matching(requests, b) # {}
    /\ Answer(b)
    /\ toUp' = Append(toUp, BlockMsg("cancel", b))
    /\ UNCHANGED <<hasFast, peerChoking, down, issued, upVars, toDown>>

(* What _onChoke does to the requests.                                     *)
LocalChoke ==
    /\ peerChoking' = TRUE
    /\ IF hasFast THEN UNCHANGED <<requests, calls, timer>> ELSE FailAll

(* destroy() and end(): the stream ends once its buffers are written.      *)
End ==
    /\ down = "open"
    /\ down' = "ending"
    /\ LocalChoke
    /\ UNCHANGED <<hasFast, issued, upVars, toUp, toDown>>

(* Mutant: the request that timed out stays in the list.                   *)
OnTimeout_Keep ==
    /\ timer
    /\ down' = "ending"
    /\ peerChoking' = TRUE
    /\ requests' = requests
    /\ calls' = Called({Head(requests)})
    /\ timer' = FALSE
    /\ UNCHANGED <<hasFast, issued, upVars, toUp, toDown>>

(* _onTimeout fails requests[0]; the torrent then destroys the wire.       *)
OnTimeout ==
    /\ timer
    /\ down' = IF down = "open" THEN "ending" ELSE down
    /\ peerChoking' = TRUE
    /\ IF hasFast
       THEN /\ requests' = Tail(requests)
            /\ calls' = Called({Head(requests)})
            /\ timer' = Rearm(Tail(requests), {Head(requests)})
       ELSE FailAll
    /\ UNCHANGED <<hasFast, issued, upVars, toUp, toDown>>

(* Mutant: the requests are dropped without their callbacks.               *)
Finish_Silent ==
    /\ down = "ending"
    /\ down' = "finished"
    /\ requests' = << >>
    /\ timer' = FALSE
    /\ toUp' = Append(toUp, Msg("eof"))
    /\ UNCHANGED <<hasFast, peerChoking, issued, calls, upVars, toDown>>

(* _onFinish.                                                              *)
Finish ==
    /\ down = "ending"
    /\ down' = "finished"
    /\ FailAll
    /\ toUp' = Append(toUp, Msg("eof"))
    /\ UNCHANGED <<hasFast, peerChoking, issued, upVars, toDown>>

(* The next message for the downloading end, unless _onFinish has switched *)
(* the parser off.                                                         *)
ToDown(type) ==
    /\ toDown # << >> /\ down # "finished"
    /\ Head(toDown).type = type
    /\ toDown' = Tail(toDown)
    /\ UNCHANGED <<hasFast, issued, upVars, toUp>>

OnChoke == ToDown("choke") /\ LocalChoke /\ UNCHANGED down

OnUnchoke ==
    /\ ToDown("unchoke")
    /\ peerChoking' = FALSE
    /\ UNCHANGED <<requests, timer, down, calls>>

OnPiece == ToDown("piece") /\ Answer(Head(toDown).block) /\ UNCHANGED <<peerChoking, down>>

OnReject == ToDown("reject") /\ Answer(Head(toDown).block) /\ UNCHANGED <<peerChoking, down>>

(* The peer has closed: Peer.destroy ends the wire.                        *)
OnEof ==
    /\ ToDown("eof")
    /\ down' = "ending"
    /\ LocalChoke

-----------------------------------------------------------------------------
(* The uploading end.                                                      *)

ToUp(type) ==
    /\ toUp # << >> /\ up = "open"
    /\ Head(toUp).type = type
    /\ toUp' = Tail(toUp)
    /\ UNCHANGED <<hasFast, downVars, amChoking>>

Drop(b, rs) == dropped' = [dropped EXCEPT ![b] = @ + Cardinality(rs)]

(* _onRequest, and the torrent's handler: nothing is answered for a piece  *)
(* the torrent does not have, else the store is asked.                     *)
OnRequest ==
    /\ ToUp("request")
    /\ LET b == Head(toUp).block
           r == [id |-> Head(toUp).id, block |-> b]
       IN  IF amChoking /\ ~Fast(b)
           THEN /\ IF hasFast
                   THEN /\ peerRequests' = Pull(peerRequests, b)
                        /\ Drop(b, Pulled(peerRequests, b))
                        /\ toDown' = Append(toDown, BlockMsg("reject", b))
                   ELSE UNCHANGED <<peerRequests, dropped, toDown>>
                /\ UNCHANGED responding
           ELSE /\ peerRequests' = Append(peerRequests, r)
                /\ responding' = responding \cup IF b \in Owned THEN {r} ELSE {}
                /\ UNCHANGED <<dropped, toDown>>
    /\ UNCHANGED up

OnCancel ==
    /\ ToUp("cancel")
    /\ peerRequests' = Pull(peerRequests, Head(toUp).block)
    /\ UNCHANGED <<responding, up, dropped, toDown>>

(* respond(): the block was read, or reading it failed.  It first pulls    *)
(* whatever request for the block comes first; if that is not its own, it  *)
(* returns.  reject() pulls once more.                                     *)
Respond(r, ok) ==
    LET b    == r.block
        rest == Pull(peerRequests, b)
        own  == Pulled(peerRequests, b) = {r}
    IN  /\ r \in responding
        /\ ok \/ ReadsFail
        /\ responding' = responding \ {r}
        /\ \/ /\ ~own
              /\ peerRequests' = rest
              /\ Drop(b, Pulled(peerRequests, b))
              /\ UNCHANGED toDown
           \/ /\ own /\ ok
              /\ peerRequests' = rest
              /\ toDown' = Append(toDown, BlockMsg("piece", b))
              /\ UNCHANGED dropped
           \/ /\ own /\ ~ok /\ hasFast
              /\ peerRequests' = Pull(rest, b)
              /\ toDown' = Append(toDown, BlockMsg("reject", b))
              /\ Drop(b, Pulled(rest, b))
           \/ /\ own /\ ~ok /\ ~hasFast
              /\ peerRequests' = rest
              /\ Drop(b, {r})
              /\ UNCHANGED toDown
        /\ UNCHANGED <<hasFast, downVars, amChoking, up, toUp>>

(* Mutant: the queue is not emptied, answers leave while choking.          *)
Choke_KeepQueue ==
    /\ up = "open" /\ ~amChoking
    /\ Len(toDown) < MaxQueue
    /\ amChoking' = TRUE
    /\ toDown' = Append(toDown, Msg("choke"))
    /\ UNCHANGED <<hasFast, downVars, peerRequests, responding, up, toUp, dropped>>

(* The indices of a list in any order.                                     *)
Orders(K) ==
    {f \in [1 .. Cardinality(K) -> K] : \A i, j \in DOMAIN f : f[i] = f[j] => i = j}

(* choke(): without the Fast Extension the queue is emptied silently; with *)
(* it every request is rejected, those for allowed fast pieces are kept.   *)
(* Removing the ones rejected moves the others around.                     *)
Choke ==
    /\ up = "open" /\ ~amChoking
    /\ Len(toDown) < MaxQueue
    /\ amChoking' = TRUE
    /\ LET kept    == {i \in 1 .. Len(peerRequests) : Fast(peerRequests[i].block)}
           refused == IF hasFast THEN (1 .. Len(peerRequests)) \ kept ELSE {}
       IN  \E f \in Orders(kept), g \in Orders(refused) :
              /\ peerRequests' = [i \in DOMAIN f |-> peerRequests[f[i]]]
              /\ toDown' = Append(toDown, Msg("choke")) \o
                     [i \in DOMAIN g |-> BlockMsg("reject", peerRequests[g[i]].block)]
    /\ UNCHANGED <<hasFast, downVars, responding, up, toUp, dropped>>

Unchoke ==
    /\ up = "open" /\ amChoking
    /\ Len(toDown) < MaxQueue
    /\ amChoking' = FALSE
    /\ toDown' = Append(toDown, Msg("unchoke"))
    /\ UNCHANGED <<hasFast, downVars, peerRequests, responding, up, toUp, dropped>>

(* end() of the uploading end, or the peer's end of stream.                *)
Close ==
    /\ up = "open"
    /\ up' = "finished"
    /\ peerRequests' = << >>
    /\ toDown' = Append(toDown, Msg("eof"))
    /\ toUp' = IF toUp # << >> /\ Head(toUp).type = "eof" THEN Tail(toUp) ELSE toUp
    /\ UNCHANGED <<hasFast, downVars, responding, amChoking, dropped>>

-----------------------------------------------------------------------------
Next ==
    \/ \E b \in Blocks : Request(b) \/ Cancel(b)
    \/ End \/ OnTimeout \/ Finish
    \/ OnChoke \/ OnUnchoke \/ OnPiece \/ OnReject \/ OnEof
    \/ OnRequest \/ OnCancel
    \/ \E r \in responding, ok \in BOOLEAN : Respond(r, ok)
    \/ Choke \/ Unchoke \/ Close

Spec == Init /\ [][Next]_vars

(* The streams deliver, the store answers, an armed timer fires, a stream  *)
(* that was ended finishes.  Nobody has to choke, unchoke or close.        *)
Fairness ==
    /\ WF_vars(OnChoke \/ OnUnchoke \/ OnPiece \/ OnReject \/ OnEof)
    /\ WF_vars(OnRequest \/ OnCancel)
    /\ \A i \in 1 .. MaxRequests :
          WF_vars(\E r \in responding, ok \in BOOLEAN : r.id = i /\ Respond(r, ok))
    /\ WF_vars(OnTimeout) /\ WF_vars(Finish)

FairSpec == Spec /\ Fairness

-----------------------------------------------------------------------------
(* Properties.                                                             *)

(* The callback of a request runs exactly once: it has run if and only if  *)
(* the request is no longer listed, whatever answers, chokes, timeouts,    *)
(* cancels and closes crossed on the way.                                  *)
Accounted ==
    \A i \in 1 .. MaxRequests :
        /\ (\E r \in Members(requests) : r.id = i) => i <= issued
        /\ calls[i] = IF i > issued \/ (\E r \in Members(requests) : r.id = i) THEN 0 ELSE 1

Count(queue, types, b) ==
    Cardinality({i \in 1 .. Len(queue) : queue[i].type \in types /\ queue[i].block = b})

(* The requests for b that something may still answer: on their way to the *)
(* peer, listed by the peer, or answered on the way back.                  *)
Pending(b) ==
    Count(toUp, {"request"}, b) + Cardinality(Matching(peerRequests, b))
        + Count(toDown, {"piece", "reject"}, b)

(* A choke (without the Fast Extension) or the end of the stream is coming *)
(* and will fail whatever is listed.                                       *)
Failing ==
    \/ down # "open"
    \/ \E m \in Members(toDown) : m.type = "eof" \/ (m.type = "choke" /\ ~hasFast)

(* No request is forgotten between the two ends, except by the two places  *)
(* of the uploading end that discard one: a read that failed or was        *)
(* overtaken by a choke, and reject() pulling a second request.            *)
Conserved ==
    \A b \in Blocks :
        Failing \/ Cardinality(Matching(requests, b)) <= Pending(b) + dropped[b]

(* A block leaves a choking end only if it belongs to an allowed fast      *)
(* piece: choke() leaves nothing for a late read to answer.                *)
NoPieceWhileChoking ==
    [][ \A b \in Blocks :
          toDown' = Append(toDown, BlockMsg("piece", b)) => ~amChoking \/ Fast(b) ]_vars

(* Without the Fast Extension every request is answered, refused, timed    *)
(* out or failed by the end of the connection.                             *)
Answered ==
    \A i \in 1 .. MaxRequests : (issued >= i /\ ~hasFast) ~> calls[i] = 1

(* Both: a request has one callback and one answer on its way.             *)
RequestsKept == Accounted /\ Conserved
=============================================================================
