--------------------------------- MODULE Pex ---------------------------------
(***************************************************************************)
(* ut-pex/src/index.ts: the two ends of a wire tell each other which peers *)
(* they are connected to, and no longer are.  Each end keeps what it has   *)
(* still to tell and what it was told, and leaves out what it thinks the   *)
(* other knows.  Addresses of IPv4 and of IPv6 go the same way, in fields  *)
(* of their own; flags are left out.  Time passes in ticks: the pause      *)
(* between two messages is 13 of them, the shortest that is allowed 12,    *)
(* and a message is on its way for some.                                   *)
(***************************************************************************)
EXTENDS Integers, Sequences, SequencesExt

CONSTANTS
    Casts,        \* bound: the peers the users of the two ends may add and drop
    Interval,     \* PEX_INTERVAL
    MinInterval,  \* PEX_MIN_ALLOWED_INTERVAL
    MaxDelay,     \* bound: how long a message may be on its way
    MaxPeers      \* PEX_MAX_PEERS

(* A message is sooner there than the next one leaves.                     *)
ASSUME PexAssumption ==
    /\ Interval \in Nat /\ MinInterval \in Nat /\ MaxPeers \in Nat /\ MaxDelay \in Nat
    /\ MaxDelay < Interval

Ends == {"a", "b"}
Other(e) == IF e = "a" THEN "b" ELSE "a"
Off == -1

VARIABLES
    known,    \* the cast
    pex,      \* the UtPex of each end
    sent,     \* the messages on their way from each end, with their age
    open,     \* the wire is open
    members,  \* history: the peers the user of each end is connected to
    crossed   \* history: the peers an end left out when it was told to pass them on

pexVars == <<known, pex, sent, open, members, crossed>>

NewPex == [localAdded |-> <<>>, localDropped |-> <<>>, remoteAdded |-> {}, remoteDropped |-> {},
           timer |-> Off, since |-> MinInterval]

PexInit ==
    /\ known \in Casts
    /\ pex = [e \in Ends |-> NewPex]
    /\ sent = [e \in Ends |-> <<>>]
    /\ open = TRUE
    /\ members = [e \in Ends |-> {}]
    /\ crossed = [e \in Ends |-> {}]

-----------------------------------------------------------------------------
(* reset: lastMessageTimestamp stays.                                      *)
Reset(x) == [NewPex EXCEPT !.since = x.since]

(* The keys of an object keep the order they came in.                      *)
Keyed(s, p) == IF Contains(s, p) THEN s ELSE Append(s, p)

Start(e) ==
    /\ open
    /\ pex' = [pex EXCEPT ![e].timer = Interval]
    /\ UNCHANGED <<known, sent, open, members, crossed>>

Stop(e) ==
    /\ open
    /\ pex' = [pex EXCEPT ![e].timer = Off]
    /\ UNCHANGED <<known, sent, open, members, crossed>>

(* Mutant: a peer that was to be dropped stays among those.                *)
AddPeer_Both(x, p) == [x EXCEPT !.localAdded = Keyed(@, p)]

(* #addPeer, unless the other end told of the peer; then a drop that still *)
(* waits is not taken back.                                                *)
AddPeer(x, p) == [x EXCEPT !.localDropped = RemoveFirst(@, p), !.localAdded = Keyed(@, p)]

DropPeer(x, p) == [x EXCEPT !.localAdded = RemoveFirst(@, p), !.localDropped = Keyed(@, p)]

Connect(e, p) ==
    /\ open /\ p \in known[e] \ members[e]
    /\ members' = [members EXCEPT ![e] = @ \cup {p}]
    /\ IF p \in pex[e].remoteAdded
       THEN crossed' = [crossed EXCEPT ![e] = @ \cup {p}] /\ UNCHANGED pex
       ELSE crossed' = [crossed EXCEPT ![e] = @ \ {p}]
            /\ pex' = [pex EXCEPT ![e] = AddPeer(@, p)]
    /\ UNCHANGED <<known, sent, open>>

Disconnect(e, p) ==
    /\ open /\ p \in members[e]
    /\ members' = [members EXCEPT ![e] = @ \ {p}]
    /\ IF p \in pex[e].remoteDropped
       THEN crossed' = [crossed EXCEPT ![e] = @ \cup {p}] /\ UNCHANGED pex
       ELSE crossed' = [crossed EXCEPT ![e] = @ \ {p}]
            /\ pex' = [pex EXCEPT ![e] = DropPeer(@, p)]
    /\ UNCHANGED <<known, sent, open>>

(* sendMessage, when the interval is over: the first peers of each kind.   *)
Batch(s) == SubSeq(s, 1, IF Len(s) < MaxPeers THEN Len(s) ELSE MaxPeers)
Rest(s)  == SubSeq(s, Len(Batch(s)) + 1, Len(s))

SendMessage(e) ==
    /\ open /\ pex[e].timer = 0
    /\ LET x == pex[e] IN
       /\ pex' = [pex EXCEPT ![e] = [x EXCEPT !.timer = Interval,
                      !.localAdded = Rest(@), !.localDropped = Rest(@)]]
       /\ sent' = IF x.localAdded = <<>> /\ x.localDropped = <<>> THEN sent
                  ELSE [sent EXCEPT ![e] = Append(@, [added |-> Batch(x.localAdded),
                            dropped |-> Batch(x.localDropped), age |-> 0])]
    /\ UNCHANGED <<known, open, members, crossed>>

(* What is added first, then what is dropped.                              *)
Told(x, m) ==
    LET added == ToSet(m.added)
        dropped == ToSet(m.dropped)
    IN  [x EXCEPT !.since = 0,
                  !.remoteAdded = (@ \cup added) \ dropped,
                  !.remoteDropped = (@ \ added) \cup dropped]

(* onMessage; the wire's 'close' resets both ends.                         *)
OnMessage(e) ==
    /\ open /\ sent[Other(e)] # <<>>
    /\ IF pex[e].since < MinInterval
       THEN /\ open' = FALSE
            /\ pex' = [d \in Ends |-> Reset(pex[d])]
            /\ sent' = [d \in Ends |-> <<>>]
       ELSE /\ pex' = [pex EXCEPT ![e] = Told(@, Head(sent[Other(e)]))]
            /\ sent' = [sent EXCEPT ![Other(e)] = Tail(@)]
            /\ UNCHANGED open
    /\ UNCHANGED <<known, members, crossed>>

(* Nothing that is due waits for the next tick.                            *)
Tick ==
    /\ open
    /\ \A e \in Ends :
        /\ pex[e].timer # 0
        /\ \A i \in DOMAIN sent[e] : sent[e][i].age < MaxDelay
    /\ pex' = [e \in Ends |-> [pex[e] EXCEPT
                  !.timer = IF @ = Off THEN Off ELSE @ - 1,
                  !.since = IF @ < MinInterval THEN @ + 1 ELSE @]]
    /\ sent' = [e \in Ends |-> [i \in DOMAIN sent[e] |-> [sent[e][i] EXCEPT !.age = @ + 1]]]
    /\ UNCHANGED <<known, open, members, crossed>>

PexNext ==
    \/ Tick
    \/ \E e \in Ends :
          \/ Start(e) \/ Stop(e) \/ SendMessage(e) \/ OnMessage(e)
          \/ \E p \in known[e] : Connect(e, p) \/ Disconnect(e, p)

PexSpec == PexInit /\ [][PexNext]_pexVars

-----------------------------------------------------------------------------
(* Properties *)

(* What an end has told or still has to tell the other of a peer, the last *)
(* word of it.                                                             *)
Underway(e, p, kind) == \E i \in DOMAIN sent[e] : Contains(sent[e][i][kind], p)

LastWord(e, p) ==
    IF Contains(pex[e].localAdded, p) THEN "added"
    ELSE IF Contains(pex[e].localDropped, p) THEN "dropped"
    ELSE IF Underway(e, p, "added") THEN "added"
    ELSE IF Underway(e, p, "dropped") THEN "dropped"
    ELSE IF p \in pex[Other(e)].remoteAdded THEN "added"
    ELSE "dropped"

(* An end never has a peer to add and to drop at once, whatever the other  *)
(* end says meanwhile; and unless it left the last change of a peer out,   *)
(* because the other end had announced the same, the other end knows of    *)
(* the peer what is true, or will be told.                                 *)
Truthful ==
    \A e \in Ends :
        /\ ToSet(pex[e].localAdded) \cap ToSet(pex[e].localDropped) = {}
        /\ open => \A p \in known[e] \ crossed[e] :
                      LastWord(e, p) = "added" <=> p \in members[e]

(* Two ends that leave sending to the interval are never taken for ones    *)
(* that send too often, however often they are stopped and started, as     *)
(* long as no message is later than the two intervals differ.              *)
NeverTooOften == Interval >= MinInterval + MaxDelay => open

(* The two ends keep each other up to date, and keep the wire.             *)
PeersExchanged == Truthful /\ NeverTooOften
=============================================================================
