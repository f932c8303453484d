---------------------------- MODULE HttpProofs ----------------------------
(* The HTTP servers: the bodies of a Node server, which are readers of     *)
(* Streaming, for any files, requests and readers, and the ports of a      *)
(* browser's, for any number of tabs and fetches.                          *)
EXTENDS HttpServer, BrowserServer, FiniteSetTheorems, SequenceTheorems,
        WellFoundedInduction, TLAPS

Port == [phase : {"unused", "asked", "streaming", "clean"},
         iterator : {"none", "open", "closed"},
         next : BOOLEAN, sent : BOOLEAN, pulled : BOOLEAN]

Steps == {"none", "asking", "streaming", "answered", "failed", "hanging"}

Quiet(x) == ~x.next /\ ~x.pulled

(* A port that was not answered on has been asked for nothing, and those   *)
(* of a fetch that has not begun are unused.                               *)
Ports(p, w) ==
    /\ p \in [Fetches -> [Tabs -> Port]] /\ w \in [Fetches -> Steps]
    /\ \A f \in Fetches, t \in Tabs :
          /\ p[f][t].phase \in {"unused", "asked"} => Quiet(p[f][t])
          /\ w[f] = "none" => p[f][t].phase = "unused"

StreamsIn(p, t) == {f \in Fetches : p[f][t].phase = "streaming"}

(* What the server of tab t knows of its ports.                            *)
Counted(p, t, n, alive) ==
    /\ IsFiniteSet(StreamsIn(p, t)) /\ n = Cardinality(StreamsIn(p, t))
    /\ (\E f \in StreamsIn(p, t) : p[f][t].pulled) => alive

Counts == \A t \in Tabs \ twice : Counted(port, t, count[t], t \in keepAlive)

BInv == Ports(port, worker) /\ count \in [Tabs -> Int] /\ Counts

-----------------------------------------------------------------------------
(* A port is counted from its answer to its cleanup.                       *)
LEMMA Opened ==
    ASSUME NEW p, NEW q, NEW t, NEW f, StreamsIn(q, t) = StreamsIn(p, t) \cup {f},
           f \notin StreamsIn(p, t), ~q[f][t].pulled,
           \A g \in StreamsIn(p, t) : q[g][t] = p[g][t],
           NEW n, NEW alive \in BOOLEAN, Counted(p, t, n, alive)
    PROVE  Counted(q, t, n + 1, alive)
<1>1. IsFiniteSet(StreamsIn(p, t)) /\ n = Cardinality(StreamsIn(p, t))
  BY DEF Counted
<1>2. IsFiniteSet(StreamsIn(q, t)) /\ Cardinality(StreamsIn(q, t)) = n + 1
  BY <1>1, FS_AddElement
<1>. QED
  BY <1>2 DEF Counted

LEMMA Shut ==
    ASSUME NEW p, NEW q, NEW t, NEW f \in StreamsIn(p, t), StreamsIn(q, t) = StreamsIn(p, t) \ {f},
           \A g \in StreamsIn(q, t) : q[g][t] = p[g][t],
           NEW n, NEW alive \in BOOLEAN, NEW now \in BOOLEAN, Counted(p, t, n, alive),
           alive => now \/ n - 1 = 0
    PROVE  Counted(q, t, n - 1, now)
<1>1. IsFiniteSet(StreamsIn(p, t)) /\ n = Cardinality(StreamsIn(p, t))
  BY DEF Counted
<1>2. IsFiniteSet(StreamsIn(q, t)) /\ Cardinality(StreamsIn(q, t)) = n - 1
  BY <1>1, FS_RemoveElement
<1>3. n - 1 = 0 => StreamsIn(q, t) = {}
  BY <1>2, FS_EmptySet
<1>. QED
  BY <1>2, <1>3 DEF Counted

-----------------------------------------------------------------------------
(* Steps of the worker and of tabs that leave the ports alone.             *)
LEMMA WorkerKeeps ==
    ASSUME BInv, UNCHANGED <<port, count, keepAlive, twice>>,
           worker' \in [Fetches -> Steps],
           \A f \in Fetches : worker'[f] = "none" => worker[f] = "none"
    PROVE  BInv'
BY DEF BInv, Ports, Counts

LEMMA WorkerSteps ==
    ASSUME BInv, NEW f \in Fetches,
           \/ AskTimeout(f) \/ PullBody(f) \/ OnChunk(f) \/ Cancel(f) \/ StreamTimeout(f)
           \/ \E t \in Tabs : OnAnswer(f, t)
    PROVE  BInv'
<1>1. UNCHANGED <<port, count, keepAlive, twice>>
  BY DEF AskTimeout, PullBody, OnChunk, Cancel, StreamTimeout, OnAnswer
<1>2. \/ UNCHANGED worker
      \/ \E how \in {"answered", "failed", "hanging", "streaming"} : worker' = [worker EXCEPT ![f] = how]
  BY DEF AskTimeout, PullBody, OnChunk, Cancel, StreamTimeout, OnAnswer, StopsReading
<1>3. worker \in [Fetches -> Steps]
  BY DEF BInv, Ports
<1>4. /\ worker' \in [Fetches -> Steps]
      /\ \A g \in Fetches : worker'[g] = "none" => worker[g] = "none"
  BY <1>2, <1>3 DEF Steps
<1>. QED
  BY <1>1, <1>4, WorkerKeeps

LEMMA FetchKeeps ==
    ASSUME BInv, NEW f \in Fetches, Fetch(f)
    PROVE  BInv'
<1>1. /\ worker[f] = "none" /\ UNCHANGED <<count, keepAlive, twice>>
      /\ Ports(port, worker)
  BY DEF Fetch, BInv
<1>2. CASE open = {}
  <2>1. worker' = [worker EXCEPT ![f] = "answered"] /\ UNCHANGED port
    BY <1>2 DEF Fetch
  <2>2. /\ worker' \in [Fetches -> Steps]
        /\ \A g \in Fetches : worker'[g] = "none" => worker[g] = "none"
    BY <1>1, <2>1 DEF Ports, Steps
  <2>. QED
    BY <1>1, <2>1, <2>2, WorkerKeeps
<1>3. CASE open # {}
  <2>. DEFINE row == [t \in Tabs |-> IF t \in serving THEN [Unused EXCEPT !.phase = "asked"] ELSE Unused]
  <2>1. worker' = [worker EXCEPT ![f] = "asking"] /\ port' = [port EXCEPT ![f] = row]
    BY <1>3 DEF Fetch
  <2>2. row \in [Tabs -> Port] /\ \A t \in Tabs : row[t].phase \in {"unused", "asked"} /\ Quiet(row[t])
    BY DEF Unused, Port, Quiet
  <2>. HIDE DEF row
  <2>3. /\ port' \in [Fetches -> [Tabs -> Port]] /\ port'[f] = row
        /\ \A g \in Fetches \ {f} : port'[g] = port[g]
    BY <1>1, <2>1, <2>2 DEF Ports
  <2>4. Ports(port', worker')
    <3>1. worker' \in [Fetches -> Steps] /\ worker'[f] = "asking"
          /\ \A g \in Fetches \ {f} : worker'[g] = worker[g]
      BY <1>1, <2>1 DEF Ports, Steps
    <3>2. ASSUME NEW g \in Fetches, NEW t \in Tabs
          PROVE  /\ port'[g][t].phase \in {"unused", "asked"} => Quiet(port'[g][t])
                 /\ worker'[g] = "none" => port'[g][t].phase = "unused"
      <4>1. CASE g = f
        BY <2>2, <2>3, <3>1, <4>1
      <4>2. CASE g # f
        BY <1>1, <2>3, <3>1, <4>2 DEF Ports
      <4>. QED
        BY <4>1, <4>2
    <3>. QED
      BY <2>3, <3>1, <3>2 DEF Ports
  <2>5. ASSUME NEW t \in Tabs \ twice PROVE Counted(port', t, count[t], t \in keepAlive)
    <3>1. StreamsIn(port', t) = StreamsIn(port, t) /\ f \notin StreamsIn(port, t)
      <4>1. port[f][t].phase = "unused" /\ port'[f][t].phase \in {"unused", "asked"}
        BY <1>1, <2>2, <2>3 DEF Ports
      <4>2. \A g \in Fetches \ {f} : port'[g][t] = port[g][t]
        BY <2>3
      <4>. QED
        BY <4>1, <4>2 DEF StreamsIn
    <3>2. \A g \in StreamsIn(port, t) : port'[g][t] = port[g][t]
      BY <2>3, <3>1 DEF StreamsIn
    <3>3. Counted(port, t, count[t], t \in keepAlive)
      BY DEF BInv, Counts
    <3>. QED
      BY <3>1, <3>2, <3>3 DEF Counted
  <2>. QED
    BY <1>1, <2>4, <2>5 DEF BInv, Counts
<1>. QED
  BY <1>2, <1>3 DEF Steps

-----------------------------------------------------------------------------
(* Steps on the port of one fetch in one tab: the parts they share.        *)
LEMMA PortStep ==
    ASSUME BInv, NEW f \in Fetches, NEW t \in Tabs, NEW x \in Port,
           port' = [port EXCEPT ![f][t] = x], UNCHANGED worker, count' \in [Tabs -> Int],
           x.phase \notin {"unused", "asked"}, port[f][t].phase # "unused",
           \A u \in Tabs \ {t} : count'[u] = count[u] /\ (u \in keepAlive => u \in keepAlive'),
           \A u \in Tabs : u \in twice => u \in twice',
           t \notin twice' => Counted(port', t, count'[t], t \in keepAlive')
    PROVE  BInv'
<1>1. /\ Ports(port, worker) /\ port \in [Fetches -> [Tabs -> Port]]
      /\ \A u \in Tabs \ twice : Counted(port, u, count[u], u \in keepAlive)
  BY DEF BInv, Ports, Counts
<1>2. /\ port' \in [Fetches -> [Tabs -> Port]] /\ port'[f][t] = x
      /\ \A g \in Fetches, u \in Tabs : g # f \/ u # t => port'[g][u] = port[g][u]
      /\ \A u \in Tabs \ {t} : StreamsIn(port', u) = StreamsIn(port, u)
  <2>1. /\ port' \in [Fetches -> [Tabs -> Port]] /\ port'[f][t] = x
        /\ \A g \in Fetches, u \in Tabs : g # f \/ u # t => port'[g][u] = port[g][u]
    BY <1>1
  <2>2. \A u \in Tabs \ {t} : StreamsIn(port', u) = StreamsIn(port, u)
    BY <2>1 DEF StreamsIn
  <2>. QED
    BY <2>1, <2>2
<1>3. Ports(port', worker')
  BY <1>1, <1>2 DEF Ports
<1>4. ASSUME NEW u \in Tabs \ twice' PROVE Counted(port', u, count'[u], u \in keepAlive')
  <2>1. CASE u # t
    <3>1. Counted(port, u, count[u], u \in keepAlive)
      BY <1>1, <1>4
    <3>2. StreamsIn(port', u) = StreamsIn(port, u)
      BY <1>2, <2>1
    <3>3. \A g \in StreamsIn(port, u) : port'[g][u] = port[g][u]
      BY <1>2, <2>1 DEF StreamsIn
    <3>4. (u \in keepAlive => u \in keepAlive') /\ count'[u] = count[u]
      BY <2>1
    <3>. QED
      BY <3>1, <3>2, <3>3, <3>4 DEF Counted
  <2>. QED
    BY <1>4, <2>1
<1>. QED
  BY <1>3, <1>4 DEF BInv, Counts

(* The port of this step, before and after.                                *)
LEMMA ThisPort ==
    ASSUME BInv, NEW f \in Fetches, NEW t \in Tabs, NEW x \in Port, port' = [port EXCEPT ![f][t] = x]
    PROVE  /\ port[f][t] \in Port /\ port'[f][t] = x
           /\ \A g \in Fetches \ {f} : port'[g][t] = port[g][t]
           /\ port[f][t].phase \in {"unused", "asked"} => Quiet(port[f][t])
           /\ x.phase = "streaming" => StreamsIn(port', t) = StreamsIn(port, t) \cup {f}
           /\ x.phase # "streaming" => StreamsIn(port', t) = StreamsIn(port, t) \ {f}
           /\ f \in StreamsIn(port, t) <=> port[f][t].phase = "streaming"
           /\ t \notin twice => Counted(port, t, count[t], t \in keepAlive)
<1>1. Ports(port, worker) /\ port \in [Fetches -> [Tabs -> Port]]
  BY DEF BInv, Ports
<1>2. port'[f][t] = x /\ \A g \in Fetches \ {f} : port'[g][t] = port[g][t]
  BY <1>1
<1>3. x.phase = "streaming" => StreamsIn(port', t) = StreamsIn(port, t) \cup {f}
  BY <1>2 DEF StreamsIn
<1>4. x.phase # "streaming" => StreamsIn(port', t) = StreamsIn(port, t) \ {f}
  BY <1>2 DEF StreamsIn
<1>5. /\ port[f][t] \in Port
      /\ port[f][t].phase \in {"unused", "asked"} => Quiet(port[f][t])
      /\ f \in StreamsIn(port, t) <=> port[f][t].phase = "streaming"
  BY <1>1 DEF Ports, StreamsIn
<1>6. t \notin twice => Counted(port, t, count[t], t \in keepAlive)
  BY DEF BInv, Counts
<1>. QED
  BY <1>2, <1>3, <1>4, <1>5, <1>6

LEMMA AnswerKeeps ==
    ASSUME BInv, NEW f \in Fetches, NEW t \in Tabs, Answer(f, t)
    PROVE  BInv'
<1>. DEFINE x == [port[f][t] EXCEPT !.phase = "streaming",
                      !.iterator = IF content[t] = "page" THEN "none" ELSE "open"]
<1>1. /\ port[f][t] \in Port /\ count \in [Tabs -> Int] /\ port[f][t].phase = "asked"
      /\ port \in [Fetches -> [Tabs -> Port]]
  BY DEF BInv, Ports, Answer
<1>2. /\ port' = [port EXCEPT ![f][t] = x] /\ count' = [count EXCEPT ![t] = @ + 1]
      /\ UNCHANGED <<worker, keepAlive, twice>>
  BY DEF Answer, workerVars
<1>3. x \in Port /\ x.phase = "streaming" /\ x.pulled = port[f][t].pulled
  BY <1>1 DEF Port
<1>. HIDE DEF x
<1>4. /\ port'[f][t] = x /\ ~port[f][t].pulled
      /\ \A g \in Fetches \ {f} : port'[g][t] = port[g][t]
      /\ StreamsIn(port', t) = StreamsIn(port, t) \cup {f} /\ f \notin StreamsIn(port, t)
      /\ t \notin twice => Counted(port, t, count[t], t \in keepAlive)
  <2>1. x \in Port /\ port' = [port EXCEPT ![f][t] = x]
    BY <1>2, <1>3
  <2>2. /\ port'[f][t] = x /\ \A g \in Fetches \ {f} : port'[g][t] = port[g][t]
        /\ port[f][t].phase \in {"unused", "asked"} => Quiet(port[f][t])
        /\ x.phase = "streaming" => StreamsIn(port', t) = StreamsIn(port, t) \cup {f}
        /\ f \in StreamsIn(port, t) <=> port[f][t].phase = "streaming"
        /\ t \notin twice => Counted(port, t, count[t], t \in keepAlive)
    BY <2>1, ThisPort
  <2>. QED
    BY <1>1, <1>3, <2>2 DEF Quiet
<1>5. ASSUME t \notin twice' PROVE Counted(port', t, count'[t], t \in keepAlive')
  <2>. DEFINE S == StreamsIn(port, t)
              n == count[t]
  <2>1. IsFiniteSet(S) /\ n = Cardinality(S) /\ ((\E g \in S : port[g][t].pulled) => t \in keepAlive)
    BY <1>2, <1>4, <1>5 DEF Counted
  <2>2. \A g \in S : g \in Fetches \ {f}
    BY <1>4 DEF StreamsIn
  <2>. HIDE DEF S, n
  <2>3. IsFiniteSet(S \cup {f}) /\ Cardinality(S \cup {f}) = n + 1
    BY <1>4, <2>1, FS_AddElement DEF S
  <2>4. StreamsIn(port', t) = S \cup {f} /\ count'[t] = n + 1 /\ keepAlive' = keepAlive
    BY <1>1, <1>2, <1>4 DEF S, n
  <2>5. \A g \in S \cup {f} : port'[g][t].pulled => g \in S /\ port[g][t].pulled
    BY <1>3, <1>4, <2>2
  <2>. QED
    BY <2>1, <2>3, <2>4, <2>5 DEF Counted
<1>6. count' \in [Tabs -> Int] /\ \A u \in Tabs \ {t} : count'[u] = count[u]
  BY <1>1, <1>2
<1>. QED
  BY <1>1, <1>2, <1>3, <1>5, <1>6, PortStep

LEMMA CleanUpKeeps ==
    ASSUME BInv, NEW f \in Fetches, NEW t \in Tabs, NEW x \in Port, port' = [port EXCEPT ![f][t] = x],
           x.phase = "clean", port[f][t].phase \in {"streaming", "clean"}, UNCHANGED worker,
           NEW restarts \in BOOLEAN, CleanUp(f, t, restarts)
    PROVE  BInv'
<1>1. /\ count \in [Tabs -> Int] /\ count' = [count EXCEPT ![t] = @ - 1]
      /\ \A u \in Tabs \ {t} : u \in keepAlive => u \in keepAlive'
      /\ t \in keepAlive => t \in keepAlive' \/ count'[t] = 0
      /\ \A u \in Tabs : u \in twice => u \in twice'
      /\ port[f][t].phase = "clean" => t \in twice'
      /\ port[f][t].phase # "clean" => twice' = twice
  BY DEF CleanUp, BInv
<1>2. count' \in [Tabs -> Int] /\ (\A u \in Tabs \ {t} : count'[u] = count[u]) /\ count'[t] = count[t] - 1
  BY <1>1
<1>3. ASSUME t \notin twice' PROVE Counted(port', t, count'[t], t \in keepAlive')
  <2>. DEFINE S == StreamsIn(port, t)
              n == count[t]
  <2>1. /\ f \in S /\ StreamsIn(port', t) = S \ {f}
        /\ Counted(port, t, n, t \in keepAlive)
        /\ \A g \in Fetches \ {f} : port'[g][t] = port[g][t]
    BY <1>1, <1>3, ThisPort
  <2>2. IsFiniteSet(S) /\ n = Cardinality(S) /\ ((\E g \in S : port[g][t].pulled) => t \in keepAlive)
    BY <2>1 DEF Counted
  <2>3. S \subseteq Fetches
    BY DEF StreamsIn
  <2>. HIDE DEF S, n
  <2>4. IsFiniteSet(S \ {f}) /\ Cardinality(S \ {f}) = n - 1
    BY <2>1, <2>2, FS_RemoveElement
  <2>5. n - 1 = 0 => S \ {f} = {}
    BY <2>4, FS_EmptySet
  <2>6. \A g \in S \ {f} : port'[g][t] = port[g][t]
    BY <2>1, <2>3
  <2>7. count'[t] = n - 1
    BY <1>2 DEF n
  <2>. QED
    BY <1>1, <2>1, <2>2, <2>4, <2>5, <2>6, <2>7 DEF Counted
<1>. QED
  BY <1>1, <1>2, <1>3, PortStep

LEMMA OnPortKeeps ==
    ASSUME BInv, NEW f \in Fetches, NEW t \in Tabs, OnPort(f, t)
    PROVE  BInv'
<1>1. /\ port \in [Fetches -> [Tabs -> Port]] /\ port[f][t] \in Port /\ UNCHANGED worker
      /\ count \in [Tabs -> Int]
  BY DEF BInv, Ports, OnPort, workerVars
<1>2. CASE port[f][t].phase = "streaming" /\ OnMessage(f, t)
  <2>. DEFINE x == [port[f][t] EXCEPT !.next = TRUE]
  <2>1. port' = [port EXCEPT ![f][t] = x] /\ UNCHANGED <<count, keepAlive, twice>>
    BY <1>1, <1>2 DEF OnPort
  <2>2. x \in Port /\ x.phase = "streaming" /\ x.pulled = port[f][t].pulled
    BY <1>1, <1>2 DEF Port
  <2>. HIDE DEF x
  <2>3. ASSUME t \notin twice' PROVE Counted(port', t, count'[t], t \in keepAlive')
    <3>1. /\ port'[f][t] = x /\ \A g \in Fetches \ {f} : port'[g][t] = port[g][t]
          /\ StreamsIn(port', t) = StreamsIn(port, t) \cup {f} /\ f \in StreamsIn(port, t)
          /\ Counted(port, t, count[t], t \in keepAlive)
      <4>1. x \in Port /\ port' = [port EXCEPT ![f][t] = x] /\ t \notin twice
        BY <2>1, <2>2, <2>3
      <4>2. /\ port'[f][t] = x /\ \A g \in Fetches \ {f} : port'[g][t] = port[g][t]
            /\ x.phase = "streaming" => StreamsIn(port', t) = StreamsIn(port, t) \cup {f}
            /\ f \in StreamsIn(port, t) <=> port[f][t].phase = "streaming"
            /\ t \notin twice => Counted(port, t, count[t], t \in keepAlive)
        BY <4>1, ThisPort
      <4>. QED
        BY <1>2, <2>2, <4>1, <4>2
    <3>2. \A g \in StreamsIn(port, t) : g \in Fetches
      BY DEF StreamsIn
    <3>3. \A g \in StreamsIn(port, t) : port'[g][t].pulled = port[g][t].pulled
      BY <2>2, <3>1, <3>2
    <3>4. StreamsIn(port', t) = StreamsIn(port, t)
      BY <3>1
    <3>. QED
      BY <2>1, <3>1, <3>3, <3>4 DEF Counted
  <2>. QED
    BY <1>1, <1>2, <2>1, <2>2, <2>3, PortStep
<1>3. CASE port[f][t].phase = "streaming" /\ ~OnMessage(f, t)
  <2>. DEFINE x == Cleaned(port[f][t], t)
  <2>1. port' = [port EXCEPT ![f][t] = x] /\ CleanUp(f, t, FALSE)
    BY <1>1, <1>3 DEF OnPort
  <2>2. x \in Port /\ x.phase = "clean"
    BY <1>1 DEF Port, Cleaned
  <2>. HIDE DEF x
  <2>. QED
    BY <1>1, <1>3, <2>1, <2>2, CleanUpKeeps
<1>4. CASE port[f][t].phase = "clean"
  <2>1. UNCHANGED <<port, count, keepAlive, twice, worker>>
    BY <1>4 DEF OnPort, workerVars
  <2>. QED
    BY <2>1 DEF BInv, Ports, Counts
<1>. QED
  BY <1>2, <1>3, <1>4 DEF OnPort

LEMMA ChunkKeeps ==
    ASSUME BInv, NEW f \in Fetches, NEW t \in Tabs, Chunk(f, t)
    PROVE  BInv'
<1>. DEFINE x == [port[f][t] EXCEPT !.next = FALSE, !.sent = TRUE, !.pulled = TRUE]
<1>1. /\ port \in [Fetches -> [Tabs -> Port]] /\ port[f][t] \in Port /\ UNCHANGED worker
      /\ count \in [Tabs -> Int] /\ port[f][t].next
      /\ port[f][t].phase \in {"unused", "asked"} => Quiet(port[f][t])
  BY DEF BInv, Ports, Chunk, workerVars
<1>2. /\ port' = [port EXCEPT ![f][t] = x] /\ UNCHANGED <<count, twice>>
      /\ keepAlive' = keepAlive \cup {t}
  BY <1>1 DEF Chunk
<1>3. /\ x \in Port /\ x.phase = port[f][t].phase /\ x.phase \notin {"unused", "asked"}
  BY <1>1 DEF Port, Quiet
<1>. HIDE DEF x
<1>4. ASSUME t \notin twice' PROVE Counted(port', t, count'[t], t \in keepAlive')
  <2>1. Counted(port, t, count[t], t \in keepAlive)
    BY <1>2, <1>4 DEF BInv, Counts
  <2>2. StreamsIn(port', t) = StreamsIn(port, t)
    <3>1. port'[f][t] = x /\ \A g \in Fetches \ {f} : port'[g][t] = port[g][t]
      BY <1>1, <1>2
    <3>. QED
      BY <1>3, <3>1 DEF StreamsIn
  <2>. QED
    BY <1>2, <2>1, <2>2 DEF Counted
<1>. QED
  BY <1>1, <1>2, <1>3, <1>4, PortStep

LEMMA NoChunkKeeps ==
    ASSUME BInv, NEW f \in Fetches, NEW t \in Tabs, NoChunk(f, t)
    PROVE  BInv'
<1>. DEFINE x == [Cleaned(port[f][t], t) EXCEPT !.iterator = "closed", !.next = FALSE]
<1>1. /\ port \in [Fetches -> [Tabs -> Port]] /\ port[f][t] \in Port /\ UNCHANGED worker
      /\ port[f][t].next /\ CleanUp(f, t, TRUE)
      /\ port[f][t].phase \in {"unused", "asked"} => Quiet(port[f][t])
  BY DEF BInv, Ports, NoChunk, workerVars
<1>2. port' = [port EXCEPT ![f][t] = x]
  BY <1>1 DEF NoChunk
<1>3. x \in Port /\ x.phase = "clean" /\ port[f][t].phase \in {"streaming", "clean"}
  BY <1>1 DEF Port, Quiet, Cleaned
<1>. HIDE DEF x
<1>. QED
  BY <1>1, <1>2, <1>3, CleanUpKeeps

(* A server that is closed forgets requests, not streams.                  *)
LEMMA CloseKeeps ==
    ASSUME BInv, NEW t \in Tabs, CloseTabServer(t)
    PROVE  BInv'
<1>1. PICK deaf \in SUBSET {f \in Fetches : port[f][t].phase = "asked"} :
          port' = [f \in Fetches |-> [port[f] EXCEPT ![t].phase = IF f \in deaf THEN "unused" ELSE @]]
  BY DEF CloseTabServer
<1>2. /\ Ports(port, worker) /\ UNCHANGED <<worker, count, keepAlive, twice>>
  BY DEF BInv, CloseTabServer, workerVars
<1>3. ASSUME NEW f \in Fetches, NEW u \in Tabs
      PROVE  \/ port'[f][u] = port[f][u]
             \/ port[f][u].phase = "asked" /\ port'[f][u] = [port[f][u] EXCEPT !.phase = "unused"]
  <2>1. port[f] \in [Tabs -> Port] /\ port[f][u] \in Port
    BY <1>2 DEF Ports
  <2>2. port'[f] = [port[f] EXCEPT ![t].phase = IF f \in deaf THEN "unused" ELSE @]
    BY <1>1
  <2>3. CASE f \in deaf /\ u = t
    BY <1>1, <2>1, <2>2, <2>3
  <2>4. CASE f \notin deaf /\ u = t
    BY <2>1, <2>2, <2>4 DEF Port
  <2>5. CASE u # t
    BY <2>1, <2>2, <2>5
  <2>. QED
    BY <2>3, <2>4, <2>5
<1>4. \A f \in Fetches, u \in Tabs :
          /\ port'[f][u] \in Port
          /\ port'[f][u].phase \in {"unused", "asked"} => Quiet(port'[f][u])
          /\ port[f][u].phase = "unused" => port'[f][u].phase = "unused"
          /\ port[f][u].phase = "streaming" <=> port'[f][u].phase = "streaming"
          /\ port'[f][u].pulled = port[f][u].pulled
  <2>1. ASSUME NEW f \in Fetches, NEW u \in Tabs
        PROVE  /\ port'[f][u] \in Port
               /\ port'[f][u].phase \in {"unused", "asked"} => Quiet(port'[f][u])
               /\ port[f][u].phase = "unused" => port'[f][u].phase = "unused"
               /\ port[f][u].phase = "streaming" <=> port'[f][u].phase = "streaming"
               /\ port'[f][u].pulled = port[f][u].pulled
    <3>1. port[f][u] \in Port /\ (port[f][u].phase \in {"unused", "asked"} => Quiet(port[f][u]))
      BY <1>2 DEF Ports
    <3>. QED
      <4>1. CASE port'[f][u] = port[f][u]
        BY <3>1, <4>1
      <4>2. CASE port[f][u].phase = "asked" /\ port'[f][u] = [port[f][u] EXCEPT !.phase = "unused"]
        BY <3>1, <4>2 DEF Port, Quiet
      <4>. QED
        BY <1>3, <4>1, <4>2
  <2>. QED
    BY <2>1
<1>5. port' \in [Fetches -> [Tabs -> Port]]
  <2>1. ASSUME NEW f \in Fetches PROVE port'[f] \in [Tabs -> Port]
    <3>1. port[f] \in [Tabs -> Port]
      BY <1>2 DEF Ports
    <3>2. port'[f] = [port[f] EXCEPT ![t].phase = IF f \in deaf THEN "unused" ELSE @]
      BY <1>1
    <3>3. port'[f] = [u \in Tabs |-> port'[f][u]]
      BY <3>1, <3>2
    <3>. QED
      BY <1>4, <3>3
  <2>. QED
    BY <1>1, <2>1
<1>6. Ports(port', worker')
  BY <1>2, <1>4, <1>5 DEF Ports
<1>7. \A u \in Tabs : StreamsIn(port', u) = StreamsIn(port, u)
  BY <1>4 DEF StreamsIn
<1>8. \A u \in Tabs, f \in Fetches : port'[f][u].pulled = port[f][u].pulled
  BY <1>4
<1>9. ASSUME NEW u \in Tabs \ twice PROVE Counted(port', u, count[u], u \in keepAlive)
  <2>1. Counted(port, u, count[u], u \in keepAlive)
    BY DEF BInv, Counts
  <2>2. \A f \in StreamsIn(port, u) : port'[f][u].pulled = port[f][u].pulled
    BY <1>8 DEF StreamsIn
  <2>. QED
    BY <1>7, <2>1, <2>2 DEF Counted
<1>. QED
  BY <1>2, <1>6, <1>9 DEF BInv, Counts

-----------------------------------------------------------------------------
LEMMA InitBInv == BrowserInit => BInv
<1>. SUFFICES ASSUME BrowserInit PROVE BInv
  OBVIOUS
<1>1. Unused \in Port /\ Unused.phase = "unused" /\ Quiet(Unused)
  BY DEF Unused, Port, Quiet
<1>2. \A f \in Fetches, t \in Tabs : port[f][t] = Unused
  BY DEF BrowserInit
<1>3. \A t \in Tabs : StreamsIn(port, t) = {}
  BY <1>1, <1>2 DEF StreamsIn
<1>4. Ports(port, worker)
  BY <1>1 DEF BrowserInit, Ports, Steps
<1>5. \A t \in Tabs : Counted(port, t, 0, FALSE)
  BY <1>3, FS_EmptySet DEF Counted
<1>. QED
  <2>1. /\ count \in [Tabs -> Int] /\ \A t \in Tabs : count[t] = 0
        /\ \A t : (t \in keepAlive) = FALSE
    BY DEF BrowserInit
  <2>. QED
    BY <1>4, <1>5, <2>1 DEF BInv, Counts

LEMMA StepKeeps ==
    ASSUME BInv, [BrowserNext]_browserVars
    PROVE  BInv'
<1>1. CASE UNCHANGED browserVars
  BY <1>1 DEF browserVars, tabVars, workerVars, BInv, Ports, Counts
<1>2. CASE \E f \in Fetches : \/ AskTimeout(f) \/ PullBody(f) \/ OnChunk(f) \/ Cancel(f) \/ StreamTimeout(f)
                              \/ \E t \in Tabs : OnAnswer(f, t)
  BY <1>2, WorkerSteps
<1>3. CASE \E f \in Fetches : Fetch(f)
  BY <1>3, FetchKeeps
<1>4. CASE \E f \in Fetches, t \in Tabs : Answer(f, t)
  BY <1>4, AnswerKeeps
<1>5. CASE \E f \in Fetches, t \in Tabs : OnPort(f, t)
  BY <1>5, OnPortKeeps
<1>6. CASE \E f \in Fetches, t \in Tabs : Chunk(f, t)
  BY <1>6, ChunkKeeps
<1>7. CASE \E f \in Fetches, t \in Tabs : NoChunk(f, t)
  BY <1>7, NoChunkKeeps
<1>8. CASE \E t \in Tabs : CloseTabServer(t)
  BY <1>8, CloseKeeps
<1>9. CASE \E t \in Tabs : CloseTab(t)
  <2>1. UNCHANGED <<port, worker, count, keepAlive, twice>>
    BY <1>9 DEF CloseTab, workerVars
  <2>. QED
    BY <2>1 DEF BInv, Ports, Counts
<1>. QED
  BY <1>1, <1>2, <1>3, <1>4, <1>5, <1>6, <1>7, <1>8, <1>9 DEF BrowserNext, Serve

(* workerPortCount is the number of ports that are not cleaned, and a tab  *)
(* that streams has its keep-alive interval, for any number of fetches and *)
(* tabs, unless a cancelled port was cleaned again (wrapRequest, cleanup). *)
THEOREM PortsRight == BrowserSpec => []PortsCounted
<1>1. ASSUME BInv PROVE PortsCounted
  <2>1. \A t : Streams(t) = StreamsIn(port, t)
    BY DEF Streams, StreamsIn
  <2>. QED
    BY <1>1, <2>1 DEF PortsCounted, BInv, Counts, Counted
<1>. QED
  BY <1>1, InitBInv, StepKeeps, PTL DEF BrowserSpec
-----------------------------------------------------------------------------
(* Readers.  A consumer that goes on has received what it asked for, but   *)
(* for the piece that is on its way.                                       *)
OnItsWay(r) == IF call[r] = "none" THEN 0 ELSE 1

ReaderRight(r) ==
    /\ phase[r] = "none" => outcome[r] = "none" /\ call[r] = "none" /\ got[r] = 0
    /\ phase[r] = "destroyed" => outcome[r] # "none"
    /\ phase[r] = "open" /\ outcome[r] = "none" =>
          /\ nextPiece[r] <= range[r].to + 1
          /\ got[r] + OnItsWay(r) = nextPiece[r] - range[r].from
    /\ outcome[r] = "done" => phase[r] = "destroyed"
    /\ outcome[r] = "done" /\ r \notin failedReads => got[r] = range[r].to - range[r].from + 1

ReaderTypes ==
    /\ phase \in [Readers -> {"none", "open", "destroyed"}]
    /\ range \in [Readers -> [from : Int, to : Int]]
    /\ nextPiece \in [Readers -> Int]
    /\ call \in [Readers -> {"none", "waiting", "reading"}]
    /\ outcome \in [Readers -> {"none", "done", "left", "failed"}]
    /\ got \in [Readers -> Int]

ReadersRight == ReaderTypes /\ \A r \in Readers : ReaderRight(r)

(* What a step leaves alone of every reader but r.                         *)
OthersKept(r) ==
    \A q \in Readers \ {r} :
        /\ phase'[q] = phase[q] /\ range'[q] = range[q] /\ nextPiece'[q] = nextPiece[q]
        /\ call'[q] = call[q] /\ outcome'[q] = outcome[q] /\ got'[q] = got[q]
        /\ q \in failedReads' <=> q \in failedReads

LEMMA OneReader ==
    ASSUME ReadersRight, NEW r \in Readers, OthersKept(r), ReaderTypes', ReaderRight(r)'
    PROVE  ReadersRight'
<1>1. ASSUME NEW q \in Readers, q # r PROVE ReaderRight(q)'
  BY <1>1 DEF ReadersRight, ReaderRight, OnItsWay, OthersKept
<1> QED BY <1>1 DEF ReadersRight

LEMMA InitReaders == Init => ReadersRight
BY DEF Init, ReadersRight, ReaderTypes, ReaderRight, OnItsWay

LEMMA OpenRight ==
    ASSUME ReadersRight, NEW r \in Readers, NEW a \in Int, NEW b \in Int, a <= b + 1, Open(r, a, b)
    PROVE  ReadersRight'
<1>1. ReaderTypes' BY DEF Open, ReadersRight, ReaderTypes
<1>2. OthersKept(r) BY DEF Open, OthersKept, ReadersRight, ReaderTypes
<1>3. ReaderRight(r)'
  BY DEF Open, ReaderRight, OnItsWay, ReadersRight, ReaderTypes
<1> QED BY <1>1, <1>2, <1>3, OneReader

(* What CallNext does to the reader.                                       *)
LEMMA CallNextDoes ==
    ASSUME NEW r \in Readers, CallNext(r)
    PROVE  /\ phase[r] = "open" /\ call[r] = "none" /\ outcome[r] = "none"
           /\ range' = range /\ got' = got /\ failedReads' = failedReads
           /\ \/ /\ ~Remaining(r) /\ nextPiece' = nextPiece /\ call' = call
                 /\ phase' = [phase EXCEPT ![r] = "destroyed"]
                 /\ outcome' = [outcome EXCEPT ![r] = "done"]
              \/ /\ Remaining(r) /\ phase' = phase
                 /\ nextPiece' = [nextPiece EXCEPT ![r] = @ + 1]
                 /\ \/ \E c \in {"waiting", "reading"} :
                          call' = [call EXCEPT ![r] = c] /\ outcome' = outcome
                    \/ call' = call /\ outcome' = [outcome EXCEPT ![r] = "failed"]
<1>1. CASE ~Remaining(r) BY <1>1 DEF CallNext, Close, End
<1>2. CASE Remaining(r) BY <1>2 DEF CallNext, End
<1> QED BY <1>1, <1>2

LEMMA CallNextRight ==
    ASSUME ReadersRight, NEW r \in Readers, CallNext(r)
    PROVE  ReadersRight'
<1>1. ReaderTypes' BY CallNextDoes DEF ReadersRight, ReaderTypes
<1>2. OthersKept(r) BY CallNextDoes DEF OthersKept, ReadersRight, ReaderTypes
<1>3. ReaderRight(r) /\ ReaderTypes BY DEF ReadersRight
<1>4. ReaderRight(r)'
  <2>1. /\ nextPiece[r] \in Int /\ got[r] \in Int
        /\ range[r].from \in Int /\ range[r].to \in Int
        /\ nextPiece[r] <= range[r].to + 1 /\ got[r] = nextPiece[r] - range[r].from
    BY <1>3, CallNextDoes DEF ReaderRight, OnItsWay, ReaderTypes
  <2>2. CASE ~Remaining(r)
    <3>1. /\ nextPiece'[r] = nextPiece[r] /\ got'[r] = got[r] /\ range'[r] = range[r]
          /\ phase'[r] = "destroyed" /\ outcome'[r] = "done"
      BY <1>3, <2>2, CallNextDoes DEF ReaderTypes
    <3>2. got[r] = range[r].to - range[r].from + 1 BY <2>1, <2>2 DEF Remaining
    <3> QED BY <3>1, <3>2 DEF ReaderRight
  <2>3. CASE Remaining(r)
    <3>1. /\ nextPiece'[r] = nextPiece[r] + 1 /\ got'[r] = got[r] /\ range'[r] = range[r]
          /\ phase'[r] = "open" /\ outcome'[r] \in {"none", "failed"}
          /\ outcome'[r] = "none" => call'[r] # "none"
      BY <1>3, <2>3, CallNextDoes DEF ReaderTypes
    <3>2. nextPiece[r] + 1 <= range[r].to + 1 BY <2>1, <2>3 DEF Remaining
    <3> QED BY <2>1, <3>1, <3>2 DEF ReaderRight, OnItsWay
  <2> QED BY <2>2, <2>3
<1> QED BY <1>1, <1>2, <1>4, OneReader

LEMMA VerifyRight ==
    ASSUME ReadersRight, NEW p \in Pieces, Verify(p)
    PROVE  ReadersRight'
<1>1. ReaderTypes' BY DEF Verify, ReadersRight, ReaderTypes
<1>2. ASSUME NEW r \in Readers PROVE ReaderRight(r)'
  BY <1>2 DEF Verify, Told, ReadersRight, ReaderTypes, ReaderRight, OnItsWay
<1> QED BY <1>1, <1>2 DEF ReadersRight

LEMMA ReadRight ==
    ASSUME ReadersRight, NEW r \in Readers, NEW ok \in BOOLEAN, Read(r, ok)
    PROVE  ReadersRight'
<1>1. ReaderTypes' BY DEF Read, Close, End, ReadersRight, ReaderTypes
<1>2. OthersKept(r) BY DEF Read, Close, End, OthersKept, ReadersRight, ReaderTypes
<1>3. ReaderRight(r) /\ ReaderTypes BY DEF ReadersRight
<1>4. ReaderRight(r)'
  BY <1>3 DEF Read, Close, End, ReaderRight, OnItsWay, ReaderTypes
<1> QED BY <1>1, <1>2, <1>4, OneReader

LEMMA LeaveRight ==
    ASSUME ReadersRight, NEW r \in Readers, Leave(r)
    PROVE  ReadersRight'
<1>1. ReaderTypes' BY DEF Leave, Close, End, ReadersRight, ReaderTypes
<1>2. OthersKept(r) BY DEF Leave, Close, End, OthersKept, ReadersRight, ReaderTypes
<1>3. ReaderRight(r) /\ ReaderTypes BY DEF ReadersRight
<1>4. ReaderRight(r)'
  BY <1>3 DEF Leave, Close, End, ReaderRight, OnItsWay, ReaderTypes
<1> QED BY <1>1, <1>2, <1>4, OneReader

LEMMA ReadersStay == ASSUME ReadersRight, UNCHANGED readerVars PROVE ReadersRight'
BY DEF readerVars, ReadersRight, ReaderTypes, ReaderRight, OnItsWay

LEMMA NextReaders == ASSUME ReadersRight, [Next]_vars PROVE ReadersRight'
<1>1. CASE \E ab \in Calls : Select(ab[1], ab[2]) \/ Deselect(ab[1], ab[2])
  BY <1>1, ReadersStay DEF Select, Deselect
<1>2. CASE Destroy BY <1>2, ReadersStay DEF Destroy
<1>3. CASE \E r \in Readers, ab \in Requests : Open(r, ab[1], ab[2])
  <2>1. PICK r \in Readers, ab \in Requests : Open(r, ab[1], ab[2]) BY <1>3
  <2>2. ab[1] \in Int /\ ab[2] \in Int /\ ab[1] <= ab[2] + 1
    BY StreamingAssumption DEF Ranges, Pieces
  <2> QED BY <2>1, <2>2, OpenRight
<1>4. CASE \E r \in Readers : CallNext(r) \/ Leave(r) BY <1>4, CallNextRight, LeaveRight
<1>5. CASE \E r \in Readers, ok \in BOOLEAN : Read(r, ok) BY <1>5, ReadRight
<1>6. CASE \E p \in Pieces : Verify(p) BY <1>6, VerifyRight
<1>7. CASE UNCHANGED vars BY <1>7, ReadersStay DEF vars
<1> QED BY <1>1, <1>2, <1>3, <1>4, <1>5, <1>6, <1>7 DEF Next

LEMMA RightIsWhole == ReadersRight => WholeRange
BY DEF ReadersRight, ReaderRight, WholeRange

(* A consumer that sees the end of the data has received all of it, unless *)
(* a read failed: FileIterator.next.                                       *)
THEOREM ReadersGetAll == Spec => []WholeRange
<1>1. Init => ReadersRight BY InitReaders
<1>2. ReadersRight /\ [Next]_vars => ReadersRight' BY NextReaders
<1>3. ReadersRight => WholeRange BY RightIsWhole
<1> QED BY <1>1, <1>2, <1>3, PTL DEF Spec
-----------------------------------------------------------------------------
(* Answers.  A body is read by the reader of its request, as far as the    *)
(* last byte asked for; an answer that is read by nobody is whole.         *)
AnswerType == [status : Int, length : Int, from : Int, to : Int]

HttpTypes ==
    /\ handled \in [Readers -> {"none", "pending", "getting", "thrown", "lost", "stored",
                               "sending", "done", "cut"}]
    /\ answer \in [Readers -> AnswerType]
    /\ DOMAIN ask = Readers

Asked(part) ==
    /\ part.from \in 0 .. Size - 1 /\ part.to \in part.from .. Size - 1
    /\ part = Whole \/ part.part = TRUE

Excused(part) == part.part /\ part.to = 0

AnswerRight(r) ==
    /\ Asked(ask[r].range)
    /\ handled[r] \in {"none", "pending", "getting", "thrown", "lost", "stored"}
          => phase[r] = "none"
    /\ handled[r] = "pending" => answer[r].length < 0
    /\ handled[r] = "sending" => phase[r] # "none"
    /\ handled[r] = "done" /\ phase[r] # "none" => outcome[r] = "done"
    /\ phase[r] # "none" =>
          /\ range[r] = [from |-> ask[r].range.from, to |-> LastByte(ask[r].range)]
          /\ answer[r].length = ContentLength(ask[r].range)
    /\ handled[r] \in {"stored", "done"} /\ phase[r] = "none" =>
          \/ ask[r].method # "GET" \/ answer[r].length < 0
          \/ answer[r].to - answer[r].from + 1 = answer[r].length
          \/ Excused(ask[r].range)

HttpInv == ReadersRight /\ HttpTypes /\ \A r \in Readers : AnswerRight(r)

LEMMA Lengths ==
    ASSUME NEW part, Asked(part)
    PROVE  /\ part.from \in Int /\ part.to \in Int /\ LastByte(part) \in Int
           /\ part.from <= LastByte(part) + 1 /\ ContentLength(part) \in Int
           /\ Excused(part) \/ LastByte(part) = part.to
<1>1. Size \in Nat \ {0} BY StreamingAssumption DEF Size
<1>2. part.from \in Int /\ part.to \in Int /\ part.from <= part.to /\ part.to < Size
  BY <1>1 DEF Asked
<1>3. LastByte(part) \in {part.to, Size - 1} /\ (part.to # 0 => LastByte(part) = part.to)
  BY <1>1, <1>2 DEF LastByte
<1>4. part.to = 0 => part.part \/ Size = 1
  BY <1>1, <1>2 DEF Asked, Whole
<1>5. part.to = 0 /\ Size = 1 => LastByte(part) = part.to
  BY <1>1, <1>3
<1> QED BY <1>1, <1>2, <1>3, <1>4, <1>5 DEF ContentLength, Excused

LEMMA InitHttp == HttpInit => HttpInv
<1> SUFFICES ASSUME HttpInit PROVE HttpInv OBVIOUS
<1>1. ReadersRight BY InitReaders DEF HttpInit
<1>2. HttpTypes BY DEF HttpInit, HttpTypes, AnswerType, Page
<1>3. Asked(Whole)
  BY StreamingAssumption DEF Asked, Whole, Size
<1>4. ASSUME NEW r \in Readers PROVE AnswerRight(r)
  <2>1. ask[r].range = Whole /\ handled[r] = "none" /\ phase[r] = "none"
    BY DEF HttpInit, Init, NoAsk
  <2> QED BY <1>3, <2>1 DEF AnswerRight
<1> QED BY <1>1, <1>2, <1>4 DEF HttpInv

(* Readers that go on: what they read and how they ended stays.            *)
GoesOn ==
    /\ range' = range
    /\ \A r \in Readers : (phase'[r] = "none" <=> phase[r] = "none")
                         /\ (outcome[r] = "done" => outcome'[r] = "done")

LEMMA GoingOnRight ==
    ASSUME HttpInv, ReadersRight', GoesOn, UNCHANGED httpVars
    PROVE  HttpInv'
<1>1. HttpTypes' BY DEF HttpInv, HttpTypes, httpVars
<1>2. ASSUME NEW r \in Readers PROVE AnswerRight(r)'
  <2>1. /\ AnswerRight(r) /\ range'[r] = range[r] /\ ask'[r] = ask[r]
        /\ handled'[r] = handled[r] /\ answer'[r] = answer[r]
    BY DEF HttpInv, GoesOn, httpVars
  <2> QED BY <2>1 DEF AnswerRight, GoesOn
<1> QED BY <1>1, <1>2 DEF HttpInv

LEMMA PullRight == ASSUME HttpInv, NEW r \in Readers, Pull(r) PROVE HttpInv'
<1>1. CallNext(r) /\ ReadersRight /\ UNCHANGED httpVars BY DEF Pull, HttpInv
<1>2. ReadersRight' BY <1>1, CallNextRight
<1>3. GoesOn BY <1>1, CallNextDoes DEF GoesOn, ReadersRight, ReaderTypes
<1> QED BY <1>1, <1>2, <1>3, GoingOnRight

LEMMA LeaveCutRight == ASSUME HttpInv, NEW r \in Readers, LeaveCut(r) PROVE HttpInv'
<1>1. Leave(r) /\ ReadersRight /\ UNCHANGED httpVars BY DEF LeaveCut, HttpInv
<1>2. ReadersRight' BY <1>1, LeaveRight
<1>3. GoesOn BY <1>1 DEF Leave, Close, End, GoesOn, ReadersRight, ReaderTypes
<1> QED BY <1>1, <1>2, <1>3, GoingOnRight

LEMMA EngineRight == ASSUME HttpInv, Engine PROVE HttpInv'
<1>1. ReadersRight /\ UNCHANGED httpVars BY DEF Engine, HttpInv
<1>2. CASE Destroy
  <2>1. ReadersRight' BY <1>1, <1>2, ReadersStay DEF Destroy
  <2>2. GoesOn BY <1>2 DEF Destroy, readerVars, GoesOn
  <2> QED BY <1>1, <2>1, <2>2, GoingOnRight
<1>3. CASE \E p \in Pieces : p \in Covered(items) /\ Verify(p)
  <2>1. ReadersRight' BY <1>1, <1>3, VerifyRight
  <2>2. GoesOn BY <1>3 DEF Verify, GoesOn
  <2> QED BY <1>1, <2>1, <2>2, GoingOnRight
<1>4. CASE \E r \in Readers, ok \in BOOLEAN : Read(r, ok)
  <2>1. PICK r \in Readers, ok \in BOOLEAN : Read(r, ok) BY <1>4
  <2>2. ReadersRight' BY <1>1, <2>1, ReadRight
  <2>3. GoesOn BY <1>1, <2>1 DEF Read, Close, End, GoesOn, ReadersRight, ReaderTypes, ReaderRight
  <2> QED BY <1>1, <2>2, <2>3, GoingOnRight
<1> QED BY <1>2, <1>3, <1>4 DEF Engine
(* Steps of the server alone leave the readers as they are.                *)
LEMMA ServerStep ==
    ASSUME HttpInv, UNCHANGED vars, HttpTypes', \A r \in Readers : AnswerRight(r)'
    PROVE  HttpInv'
BY ReadersStay DEF HttpInv, vars

(* Requests that are left, dropped or cut off.                             *)
LEMMA Shuts ==
    ASSUME HttpInv, UNCHANGED <<ask, answer, vars>>, NEW S \in SUBSET Readers,
           NEW how \in {"cut", "lost"},
           how = "lost" => \A r \in S : handled[r] = "pending",
           handled' = [r \in Readers |-> IF r \in S THEN how ELSE handled[r]]
    PROVE  HttpInv'
<1>1. HttpTypes' BY DEF HttpInv, HttpTypes
<1>2. ASSUME NEW r \in Readers PROVE AnswerRight(r)'
  <2>1. /\ AnswerRight(r) /\ range'[r] = range[r] /\ ask'[r] = ask[r] /\ answer'[r] = answer[r]
        /\ phase'[r] = phase[r] /\ outcome'[r] = outcome[r]
    BY DEF HttpInv, vars, readerVars
  <2>2. CASE r \notin S
    <3>1. handled'[r] = handled[r] BY <2>2
    <3> QED BY <2>1, <3>1 DEF AnswerRight
  <2>3. CASE r \in S
    <3>1. handled'[r] = how BY <2>3
    <3> QED BY <2>1, <2>3, <3>1 DEF AnswerRight
  <2> QED BY <2>2, <2>3
<1> QED BY <1>1, <1>2, ServerStep

LEMMA OnRequestRight ==
    ASSUME HttpInv, NEW r \in Readers, NEW k \in Asks(r), OnRequest(r, k)
    PROVE  HttpInv'
<1>1. /\ UNCHANGED vars /\ handled[r] = "none" /\ ask' = [ask EXCEPT ![r] = k]
      /\ \E h \in {"cut", "done", "pending", "thrown", "getting"}, n \in Int :
            /\ handled' = [handled EXCEPT ![r] = h]
            /\ answer' = [answer EXCEPT ![r] = Page(n)]
  <2> DEFINE icon == k.path = <<"favicon.ico">> /\ ~site.hosting
             now == icon \/ k.method \notin {"GET", "HEAD"}
             n == IF now THEN (IF icon THEN 404 ELSE IF k.method = "OPTIONS" THEN 204 ELSE 405)
                  ELSE 200
             h == IF k.path = <<"elsewhere">> THEN "cut" ELSE IF now THEN "done"
                  ELSE IF ~ready THEN "pending" ELSE Handle(k)
  <2>1. Handle(k) \in {"done", "thrown", "getting"} BY DEF Handle
  <2>2. h \in {"cut", "done", "pending", "thrown", "getting"} BY <2>1
  <2>3. n \in Int OBVIOUS
  <2>4. /\ UNCHANGED vars /\ handled[r] = "none" /\ ask' = [ask EXCEPT ![r] = k]
        /\ handled' = [handled EXCEPT ![r] = h] /\ answer' = [answer EXCEPT ![r] = Page(n)]
    BY DEF OnRequest
  <2> HIDE DEF h, n
  <2> QED BY <2>2, <2>3, <2>4
<1>2. PICK h \in {"cut", "done", "pending", "thrown", "getting"}, n \in Int :
         /\ handled' = [handled EXCEPT ![r] = h]
         /\ answer' = [answer EXCEPT ![r] = Page(n)]
  BY <1>1
<1>3. Page(n) \in AnswerType /\ Page(n).length < 0 BY DEF Page, AnswerType
<1>4. HttpTypes' BY <1>1, <1>2, <1>3 DEF HttpInv, HttpTypes
<1>5. ASSUME NEW q \in Readers PROVE AnswerRight(q)'
  <2>1. AnswerRight(q) /\ phase' = phase /\ range' = range /\ outcome' = outcome
    BY <1>1 DEF HttpInv, vars, readerVars
  <2>2. CASE q # r
    <3>1. ask'[q] = ask[q] /\ handled'[q] = handled[q] /\ answer'[q] = answer[q]
      BY <1>1, <1>2, <2>2 DEF HttpInv, HttpTypes
    <3> QED BY <2>1, <3>1 DEF AnswerRight
  <2>3. CASE q = r
    <3>1. ask'[q] = k /\ handled'[q] = h /\ answer'[q] = Page(n) /\ phase[q] = "none"
      BY <1>1, <1>2, <2>1, <2>3 DEF HttpInv, HttpTypes, AnswerRight
    <3>2. Asked(k.range) BY <2>3, HttpAssumption DEF Asked
    <3> QED BY <1>3, <2>1, <3>1, <3>2 DEF AnswerRight
  <2> QED BY <2>2, <2>3
<1> QED BY <1>1, <1>4, <1>5, ServerStep

LEMMA BecomeReadyRight == ASSUME HttpInv, BecomeReady PROVE HttpInv'
<1>1. /\ UNCHANGED <<ask, answer, vars>>
      /\ \A r \in Readers :
            \/ handled'[r] = handled[r]
            \/ handled[r] = "pending" /\ handled'[r] \in {"done", "thrown", "getting"}
  BY DEF BecomeReady, Woken, Handle
<1>2. HttpTypes'
  <2>1. DOMAIN handled' = Readers /\ handled' = [r \in Readers |-> handled'[r]]
    BY DEF BecomeReady
  <2> QED BY <1>1, <2>1 DEF HttpInv, HttpTypes
<1>3. ASSUME NEW r \in Readers PROVE AnswerRight(r)'
  <2>1. /\ AnswerRight(r) /\ range'[r] = range[r] /\ ask'[r] = ask[r] /\ answer'[r] = answer[r]
        /\ phase'[r] = phase[r] /\ outcome'[r] = outcome[r]
    BY <1>1 DEF HttpInv, vars, readerVars
  <2>2. CASE handled'[r] = handled[r] BY <2>1, <2>2 DEF AnswerRight
  <2>3. CASE handled[r] = "pending" /\ handled'[r] \in {"done", "thrown", "getting"}
    BY <2>1, <2>3 DEF AnswerRight
  <2> QED BY <1>1, <2>2, <2>3
<1> QED BY <1>1, <1>2, <1>3, ServerStep

LEMMA SentRight == ASSUME HttpInv, NEW r \in Readers, Sent(r) PROVE HttpInv'
<1>1. /\ UNCHANGED <<ask, answer, vars>>
      /\ \E h \in {"done", "cut"} :
            /\ handled' = [handled EXCEPT ![r] = h]
            /\ \/ handled[r] = "sending" /\ (h = "done" => outcome[r] = "done")
               \/ handled[r] = "stored"
  BY DEF Sent
<1>2. PICK h \in {"done", "cut"} :
         /\ handled' = [handled EXCEPT ![r] = h]
         /\ \/ handled[r] = "sending" /\ (h = "done" => outcome[r] = "done")
            \/ handled[r] = "stored"
  BY <1>1
<1>3. HttpTypes' BY <1>1, <1>2 DEF HttpInv, HttpTypes
<1>4. ASSUME NEW q \in Readers PROVE AnswerRight(q)'
  <2>1. /\ AnswerRight(q) /\ range'[q] = range[q] /\ ask'[q] = ask[q] /\ answer'[q] = answer[q]
        /\ phase'[q] = phase[q] /\ outcome'[q] = outcome[q]
    BY <1>1 DEF HttpInv, vars, readerVars
  <2>2. handled'[q] = IF q = r THEN h ELSE handled[q] BY <1>2 DEF HttpInv, HttpTypes
  <2> QED BY <1>2, <2>1, <2>2 DEF AnswerRight
<1> QED BY <1>1, <1>3, <1>4, ServerStep

(* What the answer of client.get leads to.                                 *)
LEMMA GotDoes ==
    ASSUME HttpInv, NEW r \in Readers, Got(r)
    PROVE  /\ handled[r] = "getting" /\ UNCHANGED ask
           /\ \E a \in AnswerType :
                 /\ answer' = [answer EXCEPT ![r] = a]
                 /\ \/ /\ handled' = [handled EXCEPT ![r] = "done"] /\ UNCHANGED vars
                       /\ \/ ask[r].method # "GET" \/ a.length < 0
                          \/ a.to - a.from + 1 = a.length
                    \/ /\ a.length = ContentLength(ask[r].range)
                       /\ a.from = ask[r].range.from /\ a.to = LastByte(ask[r].range)
                       /\ \/ /\ Open(r, ask[r].range.from, LastByte(ask[r].range))
                             /\ handled' = [handled EXCEPT ![r] = "sending"]
                          \/ UNCHANGED vars /\ handled' = [handled EXCEPT ![r] = "stored"]
<1> DEFINE p == Tail(ask[r].path)
           res == Resolve(site, p, FALSE)
           a == ServeFile(ask[r], res)
           reply(b) == /\ handled' = [handled EXCEPT ![r] = "done"]
                       /\ answer' = [answer EXCEPT ![r] = b]
                       /\ UNCHANGED vars
<1>1. \A n \in Int : Page(n) \in AnswerType /\ Page(n).length = -1 BY DEF Page, AnswerType
<1>2. /\ [Page(301) EXCEPT !.length = 0] \in AnswerType
      /\ LET b == [Page(301) EXCEPT !.length = 0] IN b.to - b.from + 1 = b.length
  BY DEF Page, AnswerType
<1>3. /\ a \in AnswerType /\ [a EXCEPT !.to = -1] \in AnswerType
      /\ a.length = ContentLength(ask[r].range)
      /\ a.from = ask[r].range.from /\ a.to = LastByte(ask[r].range)
  <2>1. Asked(ask[r].range) BY DEF HttpInv, AnswerRight
  <2>2. /\ ask[r].range.from \in Int /\ LastByte(ask[r].range) \in Int
        /\ ContentLength(ask[r].range) \in Int
    BY <2>1, Lengths
  <2>3. a.status \in Int BY DEF ServeFile
  <2>4. a = [status |-> a.status, length |-> ContentLength(ask[r].range),
             from |-> ask[r].range.from, to |-> LastByte(ask[r].range)]
    BY DEF ServeFile
  <2> HIDE DEF a
  <2> QED BY <2>2, <2>3, <2>4 DEF AnswerType
<1>4. \/ reply(Page(404)) \/ reply(Page(200)) \/ reply([Page(301) EXCEPT !.length = 0])
      \/ ask[r].method = "HEAD" /\ reply([a EXCEPT !.to = -1])
      \/ /\ answer' = [answer EXCEPT ![r] = a]
         /\ \/ /\ Open(r, ask[r].range.from, LastByte(ask[r].range))
               /\ handled' = [handled EXCEPT ![r] = "sending"]
            \/ UNCHANGED vars /\ handled' = [handled EXCEPT ![r] = "stored"]
  <2> HIDE DEF res
  <2>1. CASE destroyed \/ Head(ask[r].path) # "hash" BY <2>1 DEF Got
  <2>2. CASE ~(destroyed \/ Head(ask[r].path) # "hash")
    <3>1. CASE p = << >> BY <2>2, <3>1 DEF Got
    <3>2. CASE p # << >> /\ site.hosting /\ p \in site.redirects BY <2>2, <3>2 DEF Got
    <3>3. CASE p # << >> /\ ~(site.hosting /\ p \in site.redirects)
      BY <2>2, <3>3 DEF Got, res
    <3> QED BY <3>1, <3>2, <3>3
  <2> QED BY <2>1, <2>2
<1>5. handled[r] = "getting" /\ UNCHANGED ask BY DEF Got
<1> DEFINE b == [Page(301) EXCEPT !.length = 0]
           c == [a EXCEPT !.to = -1]
<1> HIDE DEF res, a, b, c
<1>6. CASE reply(Page(404)) \/ reply(Page(200))
  <2>1. PICK n \in Int : reply(Page(n)) BY <1>6
  <2>2. Page(n) \in AnswerType /\ Page(n).length < 0 BY <1>1
  <2> HIDE DEF p
  <2> QED BY <1>5, <2>1, <2>2
<1>7. CASE reply(b)
  <2>1. b \in AnswerType /\ b.to - b.from + 1 = b.length BY <1>2 DEF b
  <2> QED BY <1>5, <1>7, <2>1
<1>8. CASE ask[r].method = "HEAD" /\ reply(c)
  <2>1. c \in AnswerType BY <1>3 DEF c
  <2> QED BY <1>5, <1>8, <2>1
<1>9. CASE /\ answer' = [answer EXCEPT ![r] = a]
           /\ \/ /\ Open(r, ask[r].range.from, LastByte(ask[r].range))
                 /\ handled' = [handled EXCEPT ![r] = "sending"]
              \/ UNCHANGED vars /\ handled' = [handled EXCEPT ![r] = "stored"]
  BY <1>3, <1>5, <1>9
<1> QED BY <1>4, <1>6, <1>7, <1>8, <1>9 DEF b, c
LEMMA GotRight == ASSUME HttpInv, NEW r \in Readers, Got(r) PROVE HttpInv'
<1>1. handled[r] = "getting" /\ UNCHANGED ask BY GotDoes
<1>2. PICK a \in AnswerType :
         /\ answer' = [answer EXCEPT ![r] = a]
         /\ \/ /\ handled' = [handled EXCEPT ![r] = "done"] /\ UNCHANGED vars
               /\ \/ ask[r].method # "GET" \/ a.length < 0
                  \/ a.to - a.from + 1 = a.length
            \/ /\ a.length = ContentLength(ask[r].range)
               /\ a.from = ask[r].range.from /\ a.to = LastByte(ask[r].range)
               /\ \/ /\ Open(r, ask[r].range.from, LastByte(ask[r].range))
                     /\ handled' = [handled EXCEPT ![r] = "sending"]
                  \/ UNCHANGED vars /\ handled' = [handled EXCEPT ![r] = "stored"]
  BY GotDoes
<1>3. HttpTypes' BY <1>1, <1>2 DEF HttpInv, HttpTypes
<1>4. \A q \in Readers : AnswerRight(q) BY DEF HttpInv
<1>5. HttpTypes BY DEF HttpInv
<1>6. ASSUME NEW q \in Readers, q # r
      PROVE  ask'[q] = ask[q] /\ handled'[q] = handled[q] /\ answer'[q] = answer[q]
  BY <1>1, <1>2, <1>5, <1>6 DEF HttpTypes
<1>7. answer'[r] = a /\ ask'[r] = ask[r] BY <1>1, <1>2, <1>5 DEF HttpTypes
<1>8. phase[r] = "none" /\ Asked(ask[r].range) BY <1>1, <1>4 DEF AnswerRight
<1>9. CASE UNCHANGED vars
  <2>1. phase' = phase /\ range' = range /\ outcome' = outcome BY <1>9 DEF vars, readerVars
  <2>2. ASSUME NEW q \in Readers, q # r PROVE AnswerRight(q)'
    BY <1>4, <1>6, <2>1, <2>2 DEF AnswerRight
  <2>3. \/ /\ handled'[r] = "done"
           /\ ask[r].method # "GET" \/ a.length < 0 \/ a.to - a.from + 1 = a.length
        \/ /\ handled'[r] = "stored"
           /\ a.length = ContentLength(ask[r].range)
           /\ a.from = ask[r].range.from /\ a.to = LastByte(ask[r].range)
    <3>1. phase'[r] = "none" BY <1>8, <2>1
    <3>2. ~Open(r, ask[r].range.from, LastByte(ask[r].range))
      BY <1>8, <2>1, <1>9 DEF Open, HttpInv, ReadersRight, ReaderTypes
    <3> QED BY <1>2, <1>5, <3>2 DEF HttpTypes
  <2>4. /\ Excused(ask[r].range) \/ LastByte(ask[r].range) = ask[r].range.to
        /\ ContentLength(ask[r].range) = ask[r].range.to - ask[r].range.from + 1
    BY <1>8, Lengths DEF ContentLength
  <2>5. AnswerRight(r)'
    BY <1>7, <1>8, <2>1, <2>3, <2>4 DEF AnswerRight
  <2> QED BY <1>3, <1>9, <2>2, <2>5, ServerStep
<1>10. CASE /\ a.length = ContentLength(ask[r].range)
            /\ Open(r, ask[r].range.from, LastByte(ask[r].range))
            /\ handled' = [handled EXCEPT ![r] = "sending"]
  <2>1. ReadersRight /\ ReadersRight'
    <3>1. /\ ask[r].range.from \in Int /\ LastByte(ask[r].range) \in Int
          /\ ask[r].range.from <= LastByte(ask[r].range) + 1
      BY <1>8, Lengths
    <3> QED BY <1>10, <3>1, OpenRight DEF HttpInv
  <2>2. /\ phase' = [phase EXCEPT ![r] = "open"] /\ outcome' = outcome
        /\ range' = [range EXCEPT ![r] = [from |-> ask[r].range.from,
                                          to |-> LastByte(ask[r].range)]]
    BY <1>10 DEF Open
  <2>3. ASSUME NEW q \in Readers, q # r PROVE AnswerRight(q)'
    <3>1. phase'[q] = phase[q] /\ range'[q] = range[q] /\ outcome'[q] = outcome[q]
      BY <2>1, <2>2, <2>3 DEF ReadersRight, ReaderTypes
    <3> QED BY <1>4, <1>6, <2>3, <3>1 DEF AnswerRight
  <2>4. AnswerRight(r)'
    <3>1. /\ phase'[r] = "open" /\ handled'[r] = "sending"
          /\ range'[r] = [from |-> ask[r].range.from, to |-> LastByte(ask[r].range)]
      BY <1>5, <1>10, <2>1, <2>2 DEF ReadersRight, ReaderTypes, HttpTypes
    <3> QED BY <1>7, <1>8, <1>10, <3>1 DEF AnswerRight
  <2> QED BY <1>3, <2>1, <2>3, <2>4 DEF HttpInv
<1> QED BY <1>2, <1>9, <1>10

LEMMA NextHttp == ASSUME HttpInv, [HttpNext]_<<httpVars, vars>> PROVE HttpInv'
<1>1. CASE Listen \/ OnClosed \/ UNCHANGED <<httpVars, vars>>
  <2>1. UNCHANGED <<ask, answer, handled, vars>>
    <3>1. CASE Listen \/ OnClosed BY <3>1 DEF Listen, OnClosed
    <3>2. CASE UNCHANGED <<httpVars, vars>> BY <3>2 DEF httpVars
    <3> QED BY <1>1, <3>1, <3>2
  <2> DEFINE none == {r \in Readers : FALSE}
  <2>2. none \in SUBSET Readers
        /\ handled' = [r \in Readers |-> IF r \in none THEN "cut" ELSE handled[r]]
    BY <2>1 DEF HttpInv, HttpTypes
  <2> HIDE DEF none
  <2> QED BY <2>1, <2>2, Shuts
<1>2. CASE BecomeReady BY <1>2, BecomeReadyRight
<1>3. CASE CloseServer
  <2>1. Woken \in SUBSET Readers /\ \A r \in Woken : handled[r] = "pending" BY DEF Woken
  <2>2. handled' = [r \in Readers |-> IF r \in Woken THEN "lost" ELSE handled[r]]
    BY <1>3 DEF CloseServer, Woken
  <2> QED BY <1>3, <2>1, <2>2, Shuts DEF CloseServer
<1>4. CASE DestroyServer
  <2>1. Disconnected \in SUBSET Readers BY DEF Disconnected, Connected
  <2>2. UNCHANGED <<ask, answer, vars>>
        /\ handled' = [r \in Readers |-> IF r \in Disconnected THEN "cut" ELSE handled[r]]
    BY <1>4 DEF DestroyServer
  <2> HIDE DEF Disconnected
  <2> QED BY <2>1, <2>2, Shuts
<1>5. CASE Engine BY <1>5, EngineRight
<1>6. CASE \E r \in Readers : \E k \in Asks(r) : OnRequest(r, k) BY <1>6, OnRequestRight
<1>7. CASE \E r \in Readers : Got(r) \/ Pull(r) \/ Sent(r) \/ LeaveCut(r)
  BY <1>7, GotRight, PullRight, SentRight, LeaveCutRight
<1>8. CASE \E r \in Readers : Abandon(r)
  <2>1. PICK r \in Readers : Abandon(r) BY <1>8
  <2>2. handled' = [q \in Readers |-> IF q \in {r} THEN "cut" ELSE handled[q]]
    BY <2>1 DEF Abandon, HttpInv, HttpTypes
  <2> QED BY <2>1, <2>2, Shuts DEF Abandon
<1> QED BY <1>1, <1>2, <1>3, <1>4, <1>5, <1>6, <1>7, <1>8 DEF HttpNext

(* An answer that is read by its reader ends as the reader does.           *)
LEMMA InvIsWhole == HttpInv => NothingMissing
<1> SUFFICES ASSUME HttpInv PROVE NothingMissing OBVIOUS
<1>1. ReadersRight /\ WholeRange BY RightIsWhole DEF HttpInv
<1>2. ASSUME NEW r \in Readers, handled[r] = "done", ask[r].method = "GET", answer[r].length >= 0,
             r \notin failedReads, ~(ask[r].range.part /\ ask[r].range.to = 0)
      PROVE  BytesSent(r) = answer[r].length
  <2>1. AnswerRight(r) /\ Asked(ask[r].range) BY DEF HttpInv, AnswerRight
  <2>2. LastByte(ask[r].range) = ask[r].range.to
    BY <1>2, <2>1, Lengths DEF Excused
  <2>3. CASE phase[r] = "none"
    <3>1. answer[r].length \in Int BY DEF HttpInv, HttpTypes, AnswerType
    <3> QED BY <1>2, <2>1, <2>3, <3>1 DEF AnswerRight, BytesSent, Excused
  <2>4. CASE phase[r] # "none"
    <3>1. /\ outcome[r] = "done" /\ range[r].from = ask[r].range.from
          /\ range[r].to = ask[r].range.to /\ answer[r].length = ContentLength(ask[r].range)
      BY <1>2, <2>1, <2>2, <2>4 DEF AnswerRight
    <3>2. got[r] = range[r].to - range[r].from + 1 BY <1>1, <1>2, <3>1 DEF WholeRange
    <3> QED BY <2>4, <3>1, <3>2 DEF BytesSent, ContentLength
  <2> QED BY <2>3, <2>4
<1>3. LengthExplained BY <1>2 DEF LengthExplained, Honoured
<1> QED BY <1>1, <1>3 DEF NothingMissing

(* The end of the data comes after all of it, and an answer has the length *)
(* it told: unless a read failed, or the first byte alone was asked for    *)
(* (serveFile, File's iterator, FileIterator.next).                        *)
THEOREM AnswersAreWhole == HttpSpec => []NothingMissing
<1>1. HttpInit => HttpInv BY InitHttp
<1>2. HttpInv /\ [HttpNext]_<<httpVars, vars>> => HttpInv' BY NextHttp
<1>3. HttpInv => NothingMissing BY InvIsWhole
<1> QED BY <1>1, <1>2, <1>3, PTL DEF HttpSpec
-----------------------------------------------------------------------------
(* Sites.  The paths tried for a site in its folder are those tried for    *)
(* the same site without it, in the folder, but for the first.             *)
Named == <<"site/">>

LEMMA IntoFolder ==
    ASSUME NEW q \in Path
    PROVE  /\ Named \o q \in Path /\ Named \o q # << >>
           /\ (Named \o q)[1] = "site/" /\ Tail(Named \o q) = q
<1>1. Named \in Seq(Names) /\ Len(Named) = 1 /\ Named[1] = "site/"
  BY HttpAssumption DEF Named
<1>2. /\ Named \o q \in Seq(Names) /\ Len(Named \o q) = 1 + Len(q)
      /\ \A i \in 1 .. 1 + Len(q) : (Named \o q)[i] = IF i <= 1 THEN Named[i] ELSE q[i - 1]
  <2>1. q \in Seq(Names) BY DEF Path
  <2>2. /\ Named \o q \in Seq(Names) /\ Len(Named \o q) = Len(Named) + Len(q)
        /\ \A i \in 1 .. Len(Named) + Len(q) :
              (Named \o q)[i] = IF i <= Len(Named) THEN Named[i] ELSE q[i - Len(Named)]
    BY <1>1, <2>1, ConcatProperties
  <2> HIDE DEF Named
  <2> QED BY <1>1, <2>2
<1>3. q \in Seq(Names) /\ Len(q) \in Nat BY LenProperties DEF Path
<1>4. Named \o q # << >> BY <1>2, <1>3, EmptySeq
<1>5. (Named \o q)[1] = "site/" BY <1>1, <1>2, <1>3
<1>6. /\ Tail(Named \o q) \in Seq(Names) /\ Len(Tail(Named \o q)) = Len(q)
      /\ \A i \in 1 .. Len(q) : Tail(Named \o q)[i] = (Named \o q)[i + 1]
  BY <1>2, <1>3, <1>4, HeadTailProperties
<1>7. \A i \in 1 .. Len(q) : Tail(Named \o q)[i] = q[i]
  BY <1>2, <1>3, <1>6
<1>8. Tail(Named \o q) = q BY <1>3, <1>6, <1>7, SeqEqual
<1> QED BY <1>2, <1>4, <1>5, <1>8 DEF Path

LEMMA FromFolder ==
    ASSUME NEW f \in Path, f # << >>, Head(f) = "site/"
    PROVE  Tail(f) \in Path /\ Named \o Tail(f) = f
<1>1. f \in Seq(Names) /\ Len(f) \in Nat \ {0} /\ f[1] = "site/"
  BY EmptySeq DEF Path
<1>2. /\ Tail(f) \in Seq(Names) /\ Len(Tail(f)) = Len(f) - 1
      /\ \A i \in 1 .. Len(Tail(f)) : Tail(f)[i] = f[i + 1]
  BY <1>1, HeadTailProperties
<1>3. Named \in Seq(Names) /\ Len(Named) = 1 /\ Named[1] = "site/"
  BY HttpAssumption DEF Named
<1>4. /\ Named \o Tail(f) \in Seq(Names) /\ Len(Named \o Tail(f)) = 1 + Len(Tail(f))
      /\ \A i \in 1 .. 1 + Len(Tail(f)) :
            (Named \o Tail(f))[i] = IF i <= 1 THEN Named[i] ELSE Tail(f)[i - 1]
  <2>0. Named \in Seq(Names) /\ Tail(f) \in Seq(Names) BY <1>2, <1>3
  <2>1. /\ Named \o Tail(f) \in Seq(Names) /\ Len(Named \o Tail(f)) = Len(Named) + Len(Tail(f))
        /\ \A i \in 1 .. Len(Named) + Len(Tail(f)) :
              (Named \o Tail(f))[i] = IF i <= Len(Named) THEN Named[i] ELSE Tail(f)[i - Len(Named)]
    BY <2>0, ConcatProperties, Zenon
  <2> QED BY <1>3, <2>1
<1>5. \A i \in 1 .. Len(f) : (Named \o Tail(f))[i] = f[i]
  BY <1>1, <1>2, <1>3, <1>4
<1>6. Named \o Tail(f) = f BY <1>1, <1>2, <1>4, <1>5, SeqEqual
<1> QED BY <1>2, <1>6 DEF Path

LEMMA Earliest ==
    ASSUME NEW S \in SUBSET Nat, S # {}, NEW m, m = CHOOSE i \in S : \A j \in S : i <= j
    PROVE  m \in S /\ \A j \in S : m <= j
<1>1. PICK i \in S : \A j \in S : ~(<<j, i>> \in OpToRel(<, Nat))
  BY NatLessThanWellFounded, WFMin
<1>2. \A j \in S : ~(j < i) BY <1>1 DEF OpToRel
<1>3. \A j \in S : i <= j BY <1>2
<1> QED BY <1>3

Paired(all, bare, p) ==
    /\ DOMAIN all = 1 .. 5 /\ DOMAIN bare = 1 .. 5
    /\ all[1] = p /\ bare[1] = p /\ bare[2] = p
    /\ \A i \in 1 .. 5 : bare[i] \in Path \ {<< >>}
    /\ \A i \in 2 .. 5 : all[i] = Named \o bare[i]

LEMMA TwoCandidates ==
    ASSUME NEW s \in Site, FolderOf(s) = Named, NEW p \in Path, p # << >>, NEW document \in BOOLEAN,
           NEW all, all = Candidates(s, p, document),
           NEW bare, bare = Candidates(Unfolded(s), p, document)
    PROVE  Paired(all, bare, p)
<1> DEFINE u == Unfolded(s)
           html == <<".html">>
           last == p[Len(p)]
           app == s.hosting /\ s.spa /\ document
<1>1. FolderOf(u) = << >> /\ u.hosting = s.hosting /\ u.spa = s.spa
  BY DEF Unfolded, Site, FolderOf
<1>2. /\ html \in Path /\ Index \in Path /\ Index # << >> /\ p \in Seq(Names)
      /\ html \in Seq(Names) /\ Index \in Seq(Names)
  BY HttpAssumption DEF Path, Index
<1>3. p \o html \in Path \ {<< >>} /\ p \o Index \in Path \ {<< >>}
  BY <1>2, ConcatProperties, ConcatEqualIffEmpty DEF Path
<1>4. \A q \in Path : << >> \o q = q BY ConcatEmptySeq DEF Path
<1>5. all = <<p, Named \o p, IF last = "/" THEN Named \o (p \o Index) ELSE Named \o p,
              Named \o (p \o html), IF app THEN Named \o Index ELSE Named \o p>>
  BY DEF Candidates, Extended
<1>6. bare = <<p, p, IF last = "/" THEN p \o Index ELSE p, p \o html, IF app THEN Index ELSE p>>
  BY <1>1, <1>2, <1>3, <1>4 DEF Candidates, Extended
<1> HIDE DEF html, last, app
<1>7. bare[3] \in {p \o Index, p} /\ bare[4] = p \o html /\ bare[5] \in {Index, p}
  BY <1>6
<1>8. /\ all[2] = Named \o bare[2] /\ all[3] = Named \o bare[3]
      /\ all[4] = Named \o bare[4] /\ all[5] = Named \o bare[5]
  <2>1. all[2] = Named \o bare[2] BY <1>5, <1>6
  <2>2. all[4] = Named \o bare[4] BY <1>5, <1>6
  <2>3. all[3] = Named \o bare[3]
    <3>1. CASE last = "/"
      <4>1. all[3] = Named \o (p \o Index) BY <1>5, <3>1
      <4>2. bare[3] = p \o Index BY <1>6, <3>1
      <4> QED BY <4>1, <4>2
    <3>2. CASE last # "/"
      <4>1. all[3] = Named \o p BY <1>5, <3>2
      <4>2. bare[3] = p BY <1>6, <3>2
      <4> QED BY <4>1, <4>2
    <3> QED BY <3>1, <3>2
  <2>4. all[5] = Named \o bare[5]
    <3>1. CASE app
      <4>1. all[5] = Named \o Index BY <1>5, <3>1
      <4>2. bare[5] = Index BY <1>6, <3>1
      <4> QED BY <4>1, <4>2
    <3>2. CASE ~app
      <4>1. all[5] = Named \o p BY <1>5, <3>2
      <4>2. bare[5] = p BY <1>6, <3>2
      <4> QED BY <4>1, <4>2
    <3> QED BY <3>1, <3>2
  <2> QED BY <2>1, <2>2, <2>3, <2>4
<1>9. 2 .. 5 = {2, 3, 4, 5} /\ 1 .. 5 = {1, 2, 3, 4, 5} OBVIOUS
<1>10. /\ DOMAIN all = 1 .. 5 /\ DOMAIN bare = 1 .. 5
       /\ all[1] = p /\ bare[1] = p /\ bare[2] = p
  BY <1>5, <1>6
<1>11. \A i \in 1 .. 5 : bare[i] \in Path \ {<< >>}
  BY <1>2, <1>3, <1>7, <1>9, <1>10
<1>12. \A i \in 2 .. 5 : all[i] = Named \o bare[i] BY <1>8, <1>9
<1> QED BY <1>10, <1>11, <1>12 DEF Paired

LEMMA FolderSame ==
    ASSUME NEW s \in Site, FolderOf(s) = Named, \A f \in s.files : Head(f) = "site/",
           NEW p \in Path, p # << >>, p[1] # "site/", NEW document \in BOOLEAN
    PROVE  SameAnswer(s, p, document)
<1> DEFINE u == Unfolded(s)
           all == Candidates(s, p, document)
           bare == Candidates(u, p, document)
           found == {i \in DOMAIN all : all[i] \in s.files}
           left == {i \in DOMAIN bare : bare[i] \in u.files}
           m == CHOOSE i \in found : \A j \in found : i <= j
           n == CHOOSE i \in left : \A j \in left : i <= j
<1>1. /\ DOMAIN all = 1 .. 5 /\ DOMAIN bare = 1 .. 5
      /\ all[1] = p /\ bare[1] = p /\ bare[2] = p
      /\ \A i \in 1 .. 5 : bare[i] \in Path \ {<< >>}
      /\ \A i \in 2 .. 5 : all[i] = Named \o bare[i]
  <2>1. all = Candidates(s, p, document) /\ bare = Candidates(Unfolded(s), p, document) OBVIOUS
  <2> HIDE DEF all, bare
  <2>2. Paired(all, bare, p) BY <2>1, TwoCandidates
  <2> QED BY <2>2 DEF Paired
<1>2. u.files = {Tail(f) : f \in s.files} /\ u.hosting = s.hosting /\ u.error = s.error
  BY DEF Unfolded, Site
<1>3. ASSUME NEW q \in Path PROVE q \in u.files <=> Named \o q \in s.files
  <2>1. ASSUME q \in u.files PROVE Named \o q \in s.files
    <3>1. PICK f \in s.files : q = Tail(f) BY <1>2, <2>1
    <3>2. f \in Path /\ f # << >> BY DEF Site
    <3> QED BY <3>1, <3>2, FromFolder
  <2>2. ASSUME Named \o q \in s.files PROVE q \in u.files
    BY <1>2, <2>2, IntoFolder
  <2> QED BY <2>1, <2>2
<1>4. p \notin s.files
  <2>1. p \in s.files => Head(p) = "site/" OBVIOUS
  <2> QED BY <2>1 DEF Path
<1> HIDE DEF all, bare, u
<1>5. 1 \notin found /\ found \subseteq 2 .. 5 /\ left \subseteq 1 .. 5
  BY <1>1, <1>4
<1>6. \A i \in 2 .. 5 : i \in found <=> i \in left BY <1>1, <1>3
<1>7. 1 \in left <=> 2 \in left BY <1>1
<1>8. found = {} <=> left = {} BY <1>5, <1>6, <1>7
<1>9. /\ Resolve(s, p, document) = IF found # {} THEN [file |-> all[m], status |-> 200]
            ELSE IF s.hosting /\ s.error \in s.files THEN [file |-> s.error, status |-> 404]
            ELSE [file |-> << >>, status |-> 404]
      /\ Resolve(u, p, document) = IF left # {} THEN [file |-> bare[n], status |-> 200]
            ELSE IF u.hosting /\ u.error \in u.files THEN [file |-> u.error, status |-> 404]
            ELSE [file |-> << >>, status |-> 404]
  BY DEF Resolve, all, bare
<1>10. CASE found = {}
  <2>1. CASE s.error # << >>
    <3>1. Resolve(s, p, document).status = 404 BY <1>9, <1>10
    <3> QED BY <2>1, <3>1 DEF SameAnswer
  <2>2. CASE s.error = << >>
    <3>1. s.error \notin s.files BY <2>2 DEF Site
    <3>2. Resolve(s, p, document) = [file |-> << >>, status |-> 404] BY <1>9, <1>10, <3>1
    <3>3. Resolve(u, p, document) = [file |-> << >>, status |-> 404]
      BY <1>2, <1>8, <1>9, <1>10, <2>2
    <3> QED BY <3>2, <3>3 DEF SameAnswer, u
  <2> QED BY <2>1, <2>2
<1>11. CASE found # {}
  <2> HIDE DEF found, left
  <2>1. found \in SUBSET Nat /\ left \in SUBSET Nat /\ left # {}
    <3>1. 2 .. 5 \subseteq Nat /\ 1 .. 5 \subseteq Nat OBVIOUS
    <3> QED BY <1>5, <1>8, <1>11, <3>1
  <2>2. m \in found /\ \A j \in found : m <= j BY <1>11, <2>1, Earliest
  <2>3. n \in left /\ \A j \in left : n <= j BY <2>1, Earliest
  <2> HIDE DEF m, n
  <2>4. m \in 2 .. 5 /\ n \in 1 .. 5 /\ m \in left BY <1>5, <1>6, <2>2, <2>3
  <2>5. bare[n] = bare[m]
    <3>1. CASE n = 1
      <4>1. m = 2 BY <1>6, <1>7, <2>2, <2>3, <2>4, <3>1
      <4> QED BY <1>1, <3>1, <4>1
    <3>2. CASE n # 1
      <4>1. n \in found /\ n <= m /\ m <= n BY <1>6, <2>2, <2>3, <2>4, <3>2
      <4> QED BY <2>4, <4>1
    <3> QED BY <3>1, <3>2
  <2>6. all[m] = Named \o bare[n] /\ bare[n] # << >> BY <1>1, <2>4, <2>5
  <2>7. Resolve(s, p, document) = [file |-> Named \o bare[n], status |-> 200]
    BY <1>9, <1>11, <2>6
  <2>8. Resolve(u, p, document) = [file |-> bare[n], status |-> 200] BY <1>9, <2>1
  <2> DEFINE res == Resolve(s, p, document)
             other == Resolve(u, p, document)
  <2>9. /\ other.file # << >> /\ FolderOf(s) \o other.file = Named \o bare[n]
        /\ res = [other EXCEPT !.file = Named \o bare[n]]
    <3>1. other = [file |-> bare[n], status |-> 200] BY <2>8
    <3>2. res = [file |-> Named \o bare[n], status |-> 200] BY <2>7
    <3> HIDE DEF res, other
    <3>3. FolderOf(s) = Named /\ bare[n] # << >> BY <2>6
    <3>4. other.file = bare[n] BY <3>1
    <3>5. [other EXCEPT !.file = Named \o bare[n]]
             = [file |-> Named \o bare[n], status |-> 200]
      <4>1. ASSUME NEW f, NEW x
            PROVE  [[file |-> f, status |-> 200] EXCEPT !.file = x]
                      = [file |-> x, status |-> 200] OBVIOUS
      <4> QED BY <3>1, <4>1, Zenon
    <3>6. res = [other EXCEPT !.file = Named \o bare[n]] BY <3>2, <3>5, Zenon
    <3>7. FolderOf(s) \o other.file = Named \o bare[n] BY <3>3, <3>4, Zenon
    <3> QED BY <3>3, <3>4, <3>6, <3>7, Zenon
  <2> QED BY <2>9 DEF SameAnswer, u
<1> QED BY <1>10, <1>11

(* A hosted torrent whose files are all in its own folder serves what it   *)
(* would serve without that folder, but for the error page: resolveFile.   *)
THEOREM AlwaysSame == HttpSpec => []SameSite
<1>1. HttpInit => site \in Sites BY DEF HttpInit
<1>2. site \in Sites /\ [HttpNext]_<<httpVars, vars>> => (site \in Sites)'
  <2>1. HttpNext => site' = site
    BY DEF HttpNext, Listen, BecomeReady, CloseServer, DestroyServer, OnClosed, Engine, OnRequest,
           Got, Pull, Sent, Abandon, LeaveCut, httpVars
  <2> QED BY <2>1 DEF httpVars
<1>3. ASSUME site \in Sites PROVE SameSite
  <2> SUFFICES ASSUME FolderOf(site) # << >>, \A f \in site.files : Head(f) = "site/",
                      NEW r \in Readers, NEW k \in Asks(r), NEW document \in BOOLEAN,
                      Len(k.path) > 1, k.path[2] # "site/"
               PROVE  SameAnswer(site, Tail(k.path), document)
    BY DEF SameSite
  <2>1. site \in Site /\ k.path \in Seq(Names) BY <1>3, HttpAssumption DEF Path
  <2>2. FolderOf(site) = Named BY DEF FolderOf, Named
  <2>3. k.path # << >> /\ Len(k.path) \in Nat BY <2>1, EmptySeq, LenProperties
  <2>4. /\ Tail(k.path) \in Seq(Names) /\ Len(Tail(k.path)) = Len(k.path) - 1
        /\ \A i \in 1 .. Len(Tail(k.path)) : Tail(k.path)[i] = k.path[i + 1]
    BY <2>1, <2>3, HeadTailProperties
  <2>5. Tail(k.path) # << >> /\ Tail(k.path)[1] = k.path[2]
    <3>1. Len(Tail(k.path)) \in Nat /\ Len(Tail(k.path)) >= 1 BY <2>3, <2>4
    <3>2. ASSUME NEW q, Len(q) >= 1 PROVE q # << >> BY <3>2
    <3>4. Tail(k.path) # << >> BY <3>1, <3>2
    <3> QED BY <2>4, <3>1, <3>4
  <2> QED BY <2>1, <2>2, <2>4, <2>5, FolderSame DEF Path
<1> QED BY <1>1, <1>2, <1>3, PTL DEF HttpSpec
=============================================================================
