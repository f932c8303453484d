--------------------------------- MODULE Dht ---------------------------------
(***************************************************************************)
(* The DHT node of dht/src/client.ts: the care for its routing table, the  *)
(* tokens it hands out and checks, the values it stores, and the remote    *)
(* Hosts, nodes of the same class, that announce, get and put.             *)
(*                                                                         *)
(* k-rpc, k-bucket, lru-cache and last-one-wins are libraries: they are    *)
(* modelled from how client.ts uses them.                                  *)
(***************************************************************************)
EXTENDS Naturals, Sequences, FiniteSets

CONSTANTS
    Scenes,     \* what a behaviour tries, see Scene
    Nodes,      \* nodes that may be in the routing table
    K,          \* room in the routing table
    Hosts,
    Ticks,      \* ROTATE_INTERVAL, which is also the ttl of #tables
    MaxValues,  \* room in #values
    MaxSeq,     \* bound: sequence numbers of the mutable item
    Other,      \* the writer of what another node stores
    None

(* The routing table, announces, and the store share no state but the      *)
(* tokens, so that each behaviour tries one of them.                       *)
Scene == {"table", "announce", "store"}

ASSUME DhtAssumption ==
    /\ Scenes \subseteq Scene
    /\ IsFiniteSet(Nodes) /\ K \in Nat \ {0}
    /\ Ticks \in Nat \ {0} /\ MaxValues \in Nat \ {0} /\ MaxSeq \in Nat
    /\ Other \notin Hosts /\ None \notin Nodes \cup Hosts \cup {Other}

VARIABLES
    scene,
    me,       \* listening, destroyed, and how far #bootstrap is
    nodes,    \* this.nodes
    up,       \* the nodes that answer
    outdated, \* lastChange is older than timeBucketOutdated
    check,    \* the bucket check: none, its timer, or a round of pings
    ping,     \* the work of onping, with the node that wants a place
    waiting,  \* the latest call of onping that found it at work
    phase,    \* ticks until the secrets rotate
    peers,    \* #peers: the hosts that announced themselves
    values,   \* #values, the one used last at the end
    op,       \* what each host is doing
    tables,   \* the #tables of each host
    read,     \* what the last get of each host found
    evicted,  \* history: the hosts whose item left #values since they read
    refused   \* history: was a token refused, and could that be

tableVars == <<me, nodes, up, outdated, check, ping, waiting>>
storeVars == <<phase, peers, values, op, tables, read, evicted, refused>>
vars == <<scene, tableVars, storeVars>>

-----------------------------------------------------------------------------
(* The routing table *)

(* The bucket check between two rounds.                                    *)
Timer == [cur |-> None, acc |-> {}, newer |-> None, down |-> FALSE]
InRound(work) == work \notin {None, Timer}

(* #checkNodes' test: the next node to ping, in the order of an array that *)
(* nobody chose, and the rest; or none.  A ping not forced skips the nodes *)
(* heard of within 10 seconds, whichever they are.  `down` says that the   *)
(* node was not up at some time of the ping.                               *)
Tests(acc, force, newer) ==
    (IF force /\ acc # {} THEN {} ELSE {None}) \cup
    {[cur |-> n, acc |-> (acc \ {n}) \ skipped, newer |-> newer, down |-> n \notin up] :
        n \in acc, skipped \in (IF force THEN {{}} ELSE SUBSET acc)}

(* last-one-wins: the work is done, the latest call that waits is next.    *)
Worked(next) ==
    /\ ping' \in IF next = None THEN {None} ELSE Tests(next.older, FALSE, next.newer)
    /\ waiting' = None

(* rpc.on('ping') -> onping, with the oldest nodes of a full bucket.       *)
OnPing(newer) ==
    IF ping = None THEN Worked([older |-> nodes, newer |-> newer])
    ELSE /\ waiting' = [older |-> nodes, newer |-> newer]
         /\ UNCHANGED ping

(* nodes.add (k-bucket): a full bucket asks for a ping of its nodes.       *)
Add(n) ==
    IF n \in nodes \/ Cardinality(nodes) < K
    THEN /\ nodes' = nodes \cup {n}
         /\ UNCHANGED <<ping, waiting>>
    ELSE OnPing(n) /\ UNCHANGED nodes

(* A message of n, or the answer to the ping of addNode without an id.     *)
Heard(n) ==
    /\ n \in up
    /\ Add(n)
    /\ UNCHANGED <<me, up, outdated, check>>

(* addNode with an id, as another client told.                             *)
AddNode(n) ==
    /\ Add(n)
    /\ outdated' = (outdated /\ n \in nodes)
    /\ UNCHANGED <<me, up, check>>

Listening ==
    /\ ~me.listening
    /\ me' = [me EXCEPT !.listening = TRUE]
    /\ outdated' = FALSE
    /\ check' = Timer
    /\ UNCHANGED <<nodes, up, ping, waiting>>

(* The callback of #pingAll: one without nodes starts from bootstrap.      *)
Checked(left) ==
    /\ check' = Timer
    /\ me' = IF left = {} THEN [me EXCEPT !.boot = "running"] ELSE me

(* checkBucket, when the timer of queueNext fires.                         *)
CheckBucket ==
    /\ check = Timer
    /\ IF ~outdated THEN UNCHANGED <<check, me>>
       ELSE IF nodes = {} THEN Checked({})
       ELSE check' \in Tests(nodes, TRUE, None) /\ UNCHANGED me
    /\ UNCHANGED <<nodes, up, outdated, ping, waiting>>

(* #sendPing, of a round of the bucket check, is answered ...              *)
CheckAnswered ==
    /\ InRound(check) /\ check.cur \in up
    /\ outdated' = FALSE
    /\ IF check.acc = {} THEN Checked(nodes)
       ELSE check' \in Tests(check.acc, TRUE, None) /\ UNCHANGED me
    /\ UNCHANGED <<nodes, up, ping, waiting>>

(* ... or fails: the round ends, its node is removed.                      *)
CheckFailed ==
    /\ InRound(check) /\ check.down
    /\ nodes' = nodes \ {check.cur}
    /\ Checked(nodes')
    /\ UNCHANGED <<up, outdated, ping, waiting>>

PingAnswered ==
    /\ ping # None /\ ping.cur \in up
    /\ outdated' = FALSE
    /\ \E rest \in Tests(ping.acc, FALSE, ping.newer) :
         IF rest = None THEN Worked(waiting) ELSE ping' = rest /\ UNCHANGED waiting
    /\ UNCHANGED <<me, nodes, up, check>>

(* Mutant: the first of the older nodes makes place, whoever was pinged.   *)
PingFailed_First ==
    /\ ping # None /\ ping.down
    /\ \E dead \in {ping.cur} \cup ping.acc :
         /\ nodes' = (nodes \ {dead}) \cup {ping.newer}
    /\ Worked(waiting)
    /\ UNCHANGED <<me, up, outdated, check>>

(* swap: the dead node makes place for the newer one, if no other node has *)
(* taken it in the meantime; else the newer one asks again.                *)
PingFailed ==
    /\ ping # None /\ ping.down
    /\ LET left == nodes \ {ping.cur} IN
       IF ping.newer \in left \/ Cardinality(left) < K
       THEN /\ nodes' = left \cup {ping.newer}
            /\ Worked(waiting)
       ELSE /\ nodes' = left
            /\ Worked([older |-> left, newer |-> ping.newer])
    /\ UNCHANGED <<me, up, outdated, check>>

(* The microtask of the constructor, unless destroy comes first.           *)
Bootstrap ==
    /\ me.boot = "queued"
    /\ me' = [me EXCEPT !.boot = "running"]
    /\ UNCHANGED <<nodes, up, outdated, check, ping, waiting>>

(* rpc.populate ends with the nodes it met, and the DHT is ready.          *)
Populated(met) ==
    /\ me.boot = "running"
    /\ Cardinality(nodes \cup met) <= K
    /\ nodes' = nodes \cup met
    /\ me' = [me EXCEPT !.boot = "none"]
    /\ UNCHANGED <<up, outdated, check, ping, waiting>>

Destroy ==
    /\ me' = [me EXCEPT !.destroyed = TRUE]
    /\ check' = None
    /\ UNCHANGED <<nodes, up, outdated, ping, waiting>>

(* Nodes come and go, and time passes.                                     *)
Fell(work, n) ==
    IF ~InRound(work) THEN work ELSE [work EXCEPT !.down = @ \/ work.cur = n]
Down(n) ==
    /\ n \in up
    /\ up' = up \ {n}
    /\ check' = Fell(check, n) /\ ping' = Fell(ping, n)
    /\ UNCHANGED <<me, nodes, outdated, waiting>>

Up(n) == n \notin up /\ up' = up \cup {n}
         /\ UNCHANGED <<me, nodes, outdated, check, ping, waiting>>

Outdated == ~outdated /\ outdated' = TRUE
            /\ UNCHANGED <<me, nodes, up, check, ping, waiting>>

-----------------------------------------------------------------------------
(* Tokens, announces and values.  A token is its age, the rotations since  *)
(* it was made, up to 2.                                                   *)

(* #validateToken: made with the secret or with the one before.            *)
Valid(age) == age # None /\ age <= 1

Older(age) == IF age = None \/ age = 2 THEN age ELSE age + 1

Targets == {"hash", "key"}

Stored == {i \in 1 .. Len(values) : values[i].key = "key"}
Item == IF Stored = {} THEN None ELSE values[CHOOSE i \in Stored : TRUE]
Without(key) == SelectSeq(values, LAMBDA v : v.key # key)

(* #values.set of an LRU cache.                                            *)
Cached(v) ==
    LET all == Append(Without(v.key), v)
    IN  IF Len(all) > MaxValues THEN Tail(all) ELSE all

(* #values.get makes it the one used last.                                 *)
Touched == IF Item = None THEN values ELSE Append(Without("key"), Item)

Num(v) == IF v = None THEN 0 ELSE v.seq

Begun(kind) == [kind |-> kind, at |-> "lookup", age |-> None, cut |-> FALSE,
                rot |-> FALSE,
                best |-> None, other |-> FALSE]

Target(kind) == IF kind = "announce" THEN "hash" ELSE "key"

(* announce and put: with a table the query goes out, else a lookup comes  *)
(* first (#preannounce, #preput).  A table may be without a token.         *)
Asked(h, kind) ==
    LET t == tables[h][Target(kind)]
    IN  IF t = None THEN Begun(kind)
        ELSE [Begun(kind) EXCEPT !.at = "query", !.age = t.age, !.cut = t.cut]

Announce(h) ==
    /\ op[h] = None /\ h \notin peers
    /\ op' = [op EXCEPT ![h] = Asked(h, "announce")]
    /\ UNCHANGED <<phase, peers, values, tables, read, evicted, refused>>

(* put of the mutable item: what was read, one further, `cas` what was     *)
(* read, if anything was.                                                  *)
Put(h) ==
    /\ op[h] = None /\ Num(read[h]) < MaxSeq
    /\ op' = [op EXCEPT ![h] = Asked(h, "put")]
    /\ UNCHANGED <<phase, peers, values, tables, read, evicted, refused>>

(* get past the own cache.                                                 *)
Get(h) ==
    /\ op[h] = None
    /\ op' = [op EXCEPT ![h] = Begun("get")]
    /\ evicted' = evicted \ {h}
    /\ UNCHANGED <<phase, peers, values, tables, read, refused>>

(* onreply of get: the value of the highest sequence number.               *)
Newest(best, v) == IF v = None \/ Num(v) <= Num(best) THEN best ELSE v

Taken(o, v) ==
    IF o.kind = "get" THEN [o EXCEPT !.best = Newest(@, v)] ELSE o

(* #ongetpeers, #onget: an answer with a token of the current secret, and  *)
(* onreply of #closest, which keeps it.                                    *)
Answer(h) ==
    /\ op[h] # None /\ op[h].at = "lookup" /\ op[h].age = None
    /\ op' = [op EXCEPT ![h] = Taken([@ EXCEPT !.age = 0], Item)]
    /\ values' = IF op[h].kind = "announce" THEN values ELSE Touched
    /\ UNCHANGED <<phase, peers, tables, read, evicted, refused>>

(* Another node answers a get: it has what this one has, or missed puts,   *)
(* or got others.  That it comes second adds nothing: a number that is not *)
(* higher changes nothing, a higher one wins in any order.                 *)
OtherAnswer(h, q) ==
    /\ op[h] # None /\ op[h].at = "lookup" /\ op[h].kind = "get"
    /\ ~op[h].other /\ op[h].age = None
    /\ op' = [op EXCEPT ![h] =
                Taken([@ EXCEPT !.other = TRUE],
                      IF Num(Item) = q THEN Item ELSE [key |-> "key", seq |-> q, by |-> Other])]
    /\ UNCHANGED <<phase, peers, values, tables, read, evicted, refused>>

(* done of #closest: a table, be it empty, for as long as secrets last.    *)
NewTable(o) == [age |-> o.age, cut |-> o.cut, ttl |-> Ticks]

(* The lookup ends; announce and put start over, with a table now.         *)
LookedUp(h) ==
    /\ op[h] # None /\ op[h].at = "lookup"
    /\ tables' = [tables EXCEPT ![h][Target(op[h].kind)] = NewTable(op[h])]
    /\ IF op[h].kind = "get"
       THEN /\ read' = [read EXCEPT ![h] = op[h].best]
            /\ op' = [op EXCEPT ![h] = None]
       ELSE /\ op' = [op EXCEPT ![h].at = "query", ![h].rot = FALSE]
            /\ UNCHANGED read
    /\ UNCHANGED <<phase, peers, values, evicted, refused>>

(* removeTorrentRoutingTable.                                              *)
RemoveTable(h) ==
    /\ tables[h]["hash"] # None
    /\ tables' = [tables EXCEPT ![h]["hash"] = None]
    /\ UNCHANGED <<phase, peers, values, op, read, evicted, refused>>

(* A query without nodes to send it to fails, and so does a lost one.      *)
Lost(h) ==
    /\ op[h] # None /\ op[h].at = "query"
    /\ op' = [op EXCEPT ![h] = None]
    /\ UNCHANGED <<phase, peers, values, tables, read, evicted, refused>>

Refuse(h) == IF Valid(op[h].age) THEN refused
             ELSE IF op[h].cut THEN [refused EXCEPT !.late = TRUE]
             ELSE [refused EXCEPT !.early = TRUE]

(* #onannouncepeer.                                                        *)
OnAnnouncePeer(h) ==
    /\ op[h] # None /\ op[h].at = "query" /\ op[h].kind = "announce" /\ op[h].age # None
    /\ peers' = IF Valid(op[h].age) THEN peers \cup {h} ELSE peers
    /\ refused' = Refuse(h)
    /\ op' = [op EXCEPT ![h] = None]
    /\ UNCHANGED <<phase, values, tables, read, evicted>>

(* #onput of a mutable item: cas names the number stored, which grows.     *)
Accepts(h) ==
    Item = None \/ /\ read[h] = None \/ Num(Item) = Num(read[h])
                   /\ Num(Item) < Num(read[h]) + 1

(* Whose item is gone from #values.                                        *)
Forgotten == IF Item' = None /\ Item # None THEN Hosts ELSE evicted

OnPut(h) ==
    /\ op[h] # None /\ op[h].at = "query" /\ op[h].kind = "put" /\ op[h].age # None
    /\ values' = IF Valid(op[h].age) /\ Accepts(h)
                 THEN Cached([key |-> "key", seq |-> Num(read[h]) + 1, by |-> h])
                 ELSE IF Valid(op[h].age) THEN Touched ELSE values
    /\ refused' = Refuse(h)
    /\ op' = [op EXCEPT ![h] = None]
    /\ UNCHANGED <<phase, peers, tables, read, evicted>>

(* put of an immutable value: #put keeps it here first.                    *)
PutImmutable ==
    /\ values' = Cached([key |-> "immutable", seq |-> 0, by |-> None])
    /\ evicted' = Forgotten
    /\ UNCHANGED <<phase, peers, op, tables, read, refused>>

(* Mutant: the ttl of a table starts over with each use.                   *)
Left_Used(ttl) == ttl

(* The ttl runs from when the table was set.                               *)
Left(ttl) == ttl - 1

(* Time passes: #rotateSecrets with the interval, and #tables lose what is *)
(* older than their ttl.  `cut` says that the secrets rotated while the    *)
(* token was on its way, in a lookup or in a query; neither takes as long  *)
(* as the interval.                                                        *)
Tick ==
    /\ phase = 1 => \A h \in Hosts : op[h] # None => ~op[h].rot
    /\ phase' = IF phase = 1 THEN Ticks ELSE phase - 1
    /\ LET rotates == phase = 1
           aged(o) == IF ~rotates THEN o
                      ELSE [o EXCEPT !.age = Older(@), !.cut = @ \/ o.age # None, !.rot = TRUE]
           kept(t) == IF t = None \/ t.ttl = 0 THEN None
                      ELSE [t EXCEPT !.ttl = Left(@), !.age = IF rotates THEN Older(@) ELSE @]
       IN  /\ op' = [h \in Hosts |-> IF op[h] = None THEN None ELSE aged(op[h])]
           /\ tables' = [h \in Hosts |-> [t \in Targets |-> kept(tables[h][t])]]
    /\ UNCHANGED <<peers, values, read, evicted, refused>>

-----------------------------------------------------------------------------
Init ==
    /\ scene \in Scenes
    /\ me = [listening |-> FALSE, destroyed |-> FALSE, boot |-> "queued"]
    /\ nodes = {} /\ up = Nodes /\ outdated = FALSE
    /\ check = None /\ ping = None /\ waiting = None
    /\ phase = Ticks /\ peers = {} /\ values = <<>> /\ evicted = {}
    /\ op = [h \in Hosts |-> None] /\ read = [h \in Hosts |-> None]
    /\ tables = [h \in Hosts |-> [t \in Targets |-> None]]
    /\ refused = [late |-> FALSE, early |-> FALSE]

Table ==
    /\ ~me.destroyed
    /\ \/ Bootstrap \/ Destroy
       \/ me.boot # "queued" /\ Listening
       \/ /\ me.listening
          /\ \/ \E n \in Nodes : Heard(n) \/ AddNode(n) \/ Down(n) \/ Up(n)
             \/ CheckBucket \/ CheckAnswered \/ CheckFailed
             \/ PingAnswered \/ PingFailed \/ Outdated
             \/ \E met \in SUBSET up : Populated(met)
    /\ UNCHANGED <<scene, storeVars>>

Announces ==
    /\ \/ \E h \in Hosts : Announce(h) \/ Answer(h) \/ LookedUp(h) \/ Lost(h)
                           \/ OnAnnouncePeer(h) \/ RemoveTable(h)
       \/ Tick
    /\ UNCHANGED <<scene, tableVars>>

Store ==
    /\ \/ \E h \in Hosts : \/ Put(h) \/ Get(h) \/ Answer(h) \/ LookedUp(h) \/ Lost(h)
                           \/ OnPut(h)
                           \/ \E q \in 1 .. MaxSeq - 1 : OtherAnswer(h, q)
       \/ PutImmutable
    /\ UNCHANGED <<scene, tableVars>>

Next ==
    \/ scene = "table" /\ Table
    \/ scene = "announce" /\ Announces
    \/ scene = "store" /\ Store

(* Timers fire, pings end, and bootstrap nodes that answer are met at last.*)
(* Hosts announce again, their lookups end, and an answer or an announce   *)
(* that is sent again and again arrives.                                   *)
InTable(A) == scene = "table" /\ A /\ UNCHANGED <<scene, storeVars>>
InAnnounces(A) == scene = "announce" /\ A /\ UNCHANGED <<scene, tableVars>>

Fairness ==
    /\ WF_vars(InTable(CheckBucket \/ Outdated \/ CheckAnswered \/ CheckFailed))
    /\ SF_vars(InTable(\E met \in SUBSET up : met # {} /\ Populated(met)))
    /\ WF_vars(InAnnounces(Tick))
    /\ \A h \in Hosts :
         /\ WF_vars(InAnnounces(Announce(h) \/ LookedUp(h) \/ Lost(h)))
         /\ SF_vars(InAnnounces(Answer(h)))
         /\ SF_vars(InAnnounces(op[h] # None /\ Valid(op[h].age) /\ OnAnnouncePeer(h)))

Spec == Init /\ [][Next]_vars /\ Fairness

-----------------------------------------------------------------------------
(* Properties *)

(* A node leaves the routing table only when a ping of it failed, and it   *)
(* was down at some time of that ping, also when a round of the bucket     *)
(* check, pings for places and new nodes overlap.                          *)
PingedDown(work, n) == InRound(work) /\ work.cur = n /\ work.down
OnlyDeadLeave ==
    [][\A n \in nodes \ nodes' : PingedDown(check, n) \/ PingedDown(ping, n)]_vars

(* A node that listens and has lost all its nodes gets others, as long as  *)
(* there are any: the bucket check starts again from bootstrap.            *)
IsolationEnds ==
    scene = "table" /\ me.listening /\ nodes = {} ~> nodes # {} \/ up = {} \/ me.destroyed

(* A token that a node keeps in a table as long as ROTATE_INTERVAL is      *)
(* honoured, unless the secrets rotated while it was on its way.           *)
TokensHonoured == [][~refused'.early]_vars

(* A put with cas never overwrites what its writer has not seen, unless    *)
(* the item left the LRU cache since, or was read from another node.       *)
NoLostUpdate ==
    [][\A h \in Hosts :
          Item' # Item /\ Item' # None /\ Item'.by = h =>
              \/ Item \in {None, read[h]}
              \/ h \in evicted
              \/ read[h] # None /\ read[h].by = Other]_vars

(* Hosts that go on announcing become peers, although lookups fail and     *)
(* leave a table without nodes, and tokens grow old.                       *)
AnnounceLands == scene = "announce" ~> peers = Hosts

(* Both: the routing table keeps its nodes and gets others.                *)
NodesKept == OnlyDeadLeave /\ IsolationEnds

(* All three: tokens are honoured, announces land, and what is put is not  *)
(* lost.                                                                   *)
Announced == TokensHonoured /\ AnnounceLands /\ NoLostUpdate
=============================================================================
