---------------------------- MODULE ProcessProofs ----------------------------
(***************************************************************************)
(* What the processes keep while they start and stop, for every number of  *)
(* cores, tickers, errors and commands: the control centres of server and  *)
(* client, the price feed and the Kafka adapter.                           *)
(***************************************************************************)
EXTENDS ServerControl, PriceFeed, KafkaAdapter, FiniteSetTheorems, TLAPS

\* The client; what it has under the same names is here that of the server.
CONSTANT MaxEvents
VARIABLES engine, ipc, state, trading, upstream, closed, sending, events, lossHandled, nullWrite
Client == INSTANCE ClientControl WITH network <- ipc

\* The time, in seconds, that a prover may take over a leaf.
USE SMTT(30), ZenonT(30)

-----------------------------------------------------------------------------
(* Queues of tasks *)

\* What posting a task does to a queue.
LEMMA Posts ==
  ASSUME NEW S, NEW q \in Seq(S), NEW x \in S
  PROVE  /\ Append(q, x) \in Seq(S) /\ Append(q, x) # <<>> /\ Len(Append(q, x)) = Len(q) + 1
         /\ q # <<>> => Head(Append(q, x)) = Head(q)
         /\ \A k \in 1..Len(q) + 1 : Append(q, x)[k] = IF k <= Len(q) THEN q[k] ELSE x
  OBVIOUS

\* What taking one does.
LEMMA Takes ==
  ASSUME NEW S, NEW q \in Seq(S), q # <<>>
  PROVE  /\ Tail(q) \in Seq(S) /\ Len(Tail(q)) = Len(q) - 1 /\ Len(q) \in Nat \ {0}
         /\ Head(q) = q[1] /\ Head(q) \in S
         /\ \A k \in 1..Len(q) - 1 : Tail(q)[k] = q[k + 1]
  OBVIOUS

-----------------------------------------------------------------------------
(* The server: the chunks of tickers *)

LEMMA Counts == ServerConstants => WorkerCount \in Nat \ {0} /\ Workers = 0..(WorkerCount - 1)
  BY DEF ServerConstants, WorkerCount, Workers

LEMMA ThreadNumbers ==
  ASSUME ServerConstants
  PROVE  /\ gateway \in Threads /\ network \in Threads /\ gateway # network
         /\ gateway \notin Workers /\ network \notin Workers /\ Workers \subseteq Threads
         /\ \A t \in Threads : t \in Workers \/ t = gateway \/ t = network
  BY Counts DEF gateway, network, Threads, Workers

\* A product grows with its factor.
LEMMA TimesGrows ==
  ASSUME NEW a \in Nat, NEW b \in Nat, NEW q \in Nat, a <= b
  PROVE  a * q <= b * q
<1>1. b * q = a * q + (b - a) * q /\ (b - a) * q \in Nat
  OBVIOUS
<1> QED
  BY <1>1

\* No chunk begins behind the last ticker, and that of a worker too many there.
LEMMA ChunksCover ==
  ASSUME ServerConstants, NEW v \in Nat, v >= WorkerCount
  PROVE  FirstOf(v) >= Tickers
<1> DEFINE q == Tickers \div WorkerCount
           r == Tickers % WorkerCount
<1>1. WorkerCount \in Nat \ {0} /\ Tickers \in Nat
  BY Counts, Zenon DEF ServerConstants
<1>2. q \in Nat /\ r \in 0..(WorkerCount - 1) /\ Tickers = WorkerCount * q + r
  BY <1>1
<1>3. FirstOf(v) = v * q + IF v < r THEN v ELSE r
  BY Zenon DEF FirstOf
<1> HIDE DEF q, r
<1>4. WorkerCount * q <= v * q
  BY <1>1, <1>2, TimesGrows, Zenon
<1>5. WorkerCount * q \in Nat /\ v * q \in Nat
  BY <1>1, <1>2
<1> QED
  BY <1>1, <1>2, <1>3, <1>4, <1>5

\* Storage::loadMarketData gives every ticker a worker there is.
LEMMA WorkerExists ==
  ASSUME ServerConstants, NEW i \in 0..(Tickers - 1)
  PROVE  workerId(i) \in Workers
<1> DEFINE Full == {w \in 0..Tickers : FirstOf(w + 1) <= i}
<1>1. WorkerCount \in Nat \ {0} /\ Tickers \in Nat /\ i \in Nat /\ i < Tickers
  BY Counts DEF ServerConstants
<1>2. ASSUME NEW w \in Full PROVE w \in 0..(WorkerCount - 2)
  <2>1. w \in Nat /\ FirstOf(w + 1) <= i
    BY <1>1
  <2>2. ~(w + 1 >= WorkerCount)
    <3>1. SUFFICES ASSUME w + 1 >= WorkerCount PROVE FALSE
      BY Zenon
    <3>2. FirstOf(w + 1) >= Tickers
      BY <2>1, <3>1, ChunksCover
    <3>3. FirstOf(w + 1) \in Nat
      BY <1>1, <2>1 DEF FirstOf
    <3> QED
      BY <1>1, <2>1, <3>2, <3>3
  <2> QED
    BY <1>1, <2>1, <2>2
<1>3. IsFiniteSet(0..(WorkerCount - 2)) /\ Cardinality(0..(WorkerCount - 2)) = WorkerCount - 1
  <2>1. 0 \in Int /\ WorkerCount - 2 \in Int
    BY <1>1
  <2>2. /\ IsFiniteSet(0..(WorkerCount - 2))
        /\ Cardinality(0..(WorkerCount - 2)) = IF 0 > WorkerCount - 2 THEN 0 ELSE (WorkerCount - 2) - 0 + 1
    BY <2>1, FS_Interval, Zenon
  <2> QED
    BY <1>1, <2>2
<1>4. PICK T : T = 0..(WorkerCount - 2)
  BY Zenon
<1>5. Full \subseteq T /\ IsFiniteSet(T) /\ Cardinality(T) = WorkerCount - 1
  BY <1>2, <1>3, <1>4, Zenon
<1> HIDE DEF Full
<1>6. IsFiniteSet(Full) /\ Cardinality(Full) <= WorkerCount - 1
  BY <1>5, FS_Subset, Zenon
<1>7. Cardinality(Full) \in Nat
  BY <1>6, FS_CardinalityType, Zenon
<1>8. workerId(i) = Cardinality(Full)
  BY Zenon DEF workerId, Full
<1> QED
  BY <1>1, <1>6, <1>7, <1>8, Counts
-----------------------------------------------------------------------------
(* The server: what its steps leave alone *)

\* The workers that are up are counted in 0..WorkerCount.
LEMMA UpCount ==
  ASSUME ServerConstants
  PROVE  LET U == {w \in Workers : Up(w)}
         IN  /\ IsFiniteSet(U) /\ Cardinality(U) \in Nat /\ Cardinality(U) <= WorkerCount
             /\ Cardinality(U) = WorkerCount => \A w \in Workers : Up(w)
<1> DEFINE U == {w \in Workers : Up(w)}
<1>1. IsFiniteSet(Workers) /\ Cardinality(Workers) = WorkerCount
  <2>1. 0 \in Int /\ WorkerCount - 1 \in Int /\ WorkerCount \in Nat \ {0}
    BY Counts
  <2>2. /\ IsFiniteSet(0..(WorkerCount - 1))
        /\ Cardinality(0..(WorkerCount - 1)) = IF 0 > WorkerCount - 1 THEN 0 ELSE (WorkerCount - 1) - 0 + 1
    BY <2>1, FS_Interval, Zenon
  <2> QED
    BY <2>1, <2>2 DEF Workers
<1>2. U \subseteq Workers
  BY Zenon
<1> HIDE DEF U
<1>3. IsFiniteSet(U) /\ Cardinality(U) <= Cardinality(Workers) /\ (Cardinality(U) = Cardinality(Workers) => U = Workers)
  BY <1>1, <1>2, FS_Subset, Zenon
<1>4. Cardinality(U) \in Nat
  BY <1>3, FS_CardinalityType, Zenon
<1>5. U = Workers => \A w \in Workers : Up(w)
  BY Zenon DEF U
<1> QED
  BY <1>1, <1>3, <1>4, <1>5, Zenon DEF U

\* A step that brings no component up and reports none keeps the start in order.
LEMMA StartsKept ==
  ASSUME StartsInOrder, main # "ctor", main' \notin {"ctor", "gateway"},
         main' = "coordinator" => main = "coordinator",
         \A w \in Workers : thread'[w] = "none" <=> thread[w] = "none",
         \A t \in Workers \cup {gateway} : (Up(t)' <=> Up(t)) /\ joinable'[t] = joinable[t],
         counter' = counter,
         Reported("Coordinator")' => Reported("Coordinator"), Reported("Gateway")' => Reported("Gateway"),
         ~subscribed' => queue' # <<>> /\ Head(queue') = "subscribe"
  PROVE  StartsInOrder'
<1>1. {w \in Workers : Up(w)'} = {w \in Workers : Up(w)}
  BY Zenon
<1>2. counter' = Cardinality({w \in Workers : Up(w)})'
  BY <1>1, Zenon DEF StartsInOrder
<1>3. main' = "coordinator" => \E n \in Workers : \A w \in Workers : thread'[w] = "none" <=> n <= w
  BY Zenon DEF StartsInOrder
<1>4. \A t \in Workers \cup {gateway} : Up(t)' => joinable'[t]
  BY Zenon DEF StartsInOrder
<1>5. (Reported("Coordinator")' => counter' = WorkerCount) /\ (Reported("Gateway")' => Up(gateway)')
  BY Zenon DEF StartsInOrder
<1> QED
  BY <1>2, <1>3, <1>4, <1>5, Zenon DEF StartsInOrder

\* A step of a thread under which nothing that is over starts again keeps the
\* shutdown in order.
LEMMA StopsKept ==
  ASSUME StopsInOrder, GatewayOutlivesWorkers, Transport = "shm" => SessionsOutliveNetwork,
         main' = main, stopReq' = stopReq, routed' = routed, joinable'[network] = joinable[network],
         \A t \in routed \cup {network} : Gone(t) => Gone(t)',
         thread'[network] # "none" => thread[network] # "none"
  PROVE  StopsInOrder' /\ GatewayOutlivesWorkers' /\ (Transport = "shm" => SessionsOutliveNetwork')
<1>1. GatewayOutlivesWorkers'
  BY Zenon DEF GatewayOutlivesWorkers
<1>2. Transport = "shm" => SessionsOutliveNetwork'
  BY Zenon DEF SessionsOutliveNetwork
<1>3. StopsInOrder'
  BY Zenon DEF StopsInOrder
<1> QED
  BY <1>1, <1>2, <1>3, Zenon

\* What a posted task changes about the reports.
LEMMA PostReports ==
  ASSUME queue \in Seq(Tasks), NEW x \in Tasks, queue' = Append(queue, x), ready' = ready,
         NEW c, Reported(c)'
  PROVE  Reported(c) \/ c = x
<1>1. CASE c \in ready
  BY <1>1, Zenon DEF Reported
<1>2. CASE \E k \in 1..Len(queue') : queue'[k] = c
  <2>1. PICK k \in 1..Len(queue') : queue'[k] = c
    BY <1>2, Zenon
  <2>2. Len(queue') = Len(queue) + 1 /\ queue'[k] = IF k <= Len(queue) THEN queue[k] ELSE x
    BY <2>1, Posts
  <2>3. k <= Len(queue) => k \in 1..Len(queue)
    BY <2>1
  <2> QED
    BY <2>1, <2>2, <2>3, Zenon DEF Reported
<1> QED
  BY <1>1, <1>2, Zenon DEF Reported

\* Nor does a task that leaves the queue, or the Time event it posts, report
\* another component.
LEMMA DispatchReports ==
  ASSUME queue \in Seq(Tasks), queue # <<>>, queue' \in {Tail(queue), Append(Tail(queue), "Time")},
         ready' \subseteq ready \cup {Head(queue)}, NEW c, c # "Time", Reported(c)'
  PROVE  Reported(c)
<1>1. /\ Tail(queue) \in Seq(Tasks) /\ Len(Tail(queue)) = Len(queue) - 1 /\ Len(queue) \in Nat \ {0}
      /\ Head(queue) = queue[1] /\ \A k \in 1..Len(queue) - 1 : Tail(queue)[k] = queue[k + 1]
  BY Takes, Zenon
<1>2. CASE c \in ready'
  <2>1. c \in ready \/ (c = queue[1] /\ 1 \in 1..Len(queue))
    BY <1>1, <1>2
  <2> QED
    BY <2>1, Zenon DEF Reported
<1>3. CASE \E k \in 1..Len(queue') : queue'[k] = c
  <2>1. PICK k \in 1..Len(queue') : queue'[k] = c
    BY <1>3, Zenon
  <2>2. k \in 1..Len(queue) - 1 /\ queue'[k] = Tail(queue)[k]
    <3>1. CASE queue' = Tail(queue)
      BY <1>1, <2>1, <3>1, Zenon
    <3>2. CASE queue' = Append(Tail(queue), "Time")
      <4>1. "Time" \in Tasks
        BY Zenon DEF Tasks
      <4>2. PICK q \in Seq(Tasks) : q = Tail(queue)
        BY <1>1, Zenon
      <4>3. /\ Len(queue') = Len(q) + 1
            /\ \A j \in 1..Len(q) + 1 : queue'[j] = IF j <= Len(q) THEN q[j] ELSE "Time"
        BY <3>2, <4>1, <4>2, Posts
      <4>4. Len(q) = Len(queue) - 1
        BY <1>1, <4>2, Zenon
      <4>5. k \in 1..Len(q) + 1 /\ queue'[k] # "Time"
        BY <2>1, <4>3, Zenon
      <4>6. k <= Len(q) /\ queue'[k] = q[k]
        BY <4>3, <4>5, Zenon
      <4> QED
        BY <1>1, <4>2, <4>4, <4>5, <4>6
    <3> QED
      BY <3>1, <3>2, Zenon
  <2>3. k + 1 \in 1..Len(queue) /\ queue[k + 1] = c
    BY <1>1, <2>1, <2>2
  <2> QED
    BY <2>3, Zenon DEF Reported
<1> QED
  BY <1>2, <1>3, Zenon DEF Reported
\* A step under which what is up stays up, and which does not start the network.
LEMMA UpStays ==
  ASSUME ServerConstants, NetworkStartsLast, OrdersFindTheirWorker,
         \A t \in Workers \cup {gateway} : Up(t) => Up(t)', routed' = routed,
         thread'[network] # "none" => thread[network] # "none"
  PROVE  NetworkStartsLast' /\ OrdersFindTheirWorker'
<1>1. NetworkStartsLast'
  BY Zenon DEF NetworkStartsLast, Up
<1>2. OrdersFindTheirWorker'
  BY Zenon DEF OrdersFindTheirWorker, Up
<1> QED
  BY <1>1, <1>2, Zenon

\* Posting keeps the subscription in front.
LEMMA PostKeepsHead ==
  ASSUME StartsInOrder, main # "ctor", queue \in Seq(Tasks), NEW x \in Tasks, queue' = Append(queue, x),
         subscribed' = subscribed
  PROVE  queue' \in Seq(Tasks) /\ (~subscribed' => queue' # <<>> /\ Head(queue') = "subscribe")
<1>1. ~subscribed => queue # <<>> /\ Head(queue) = "subscribe"
  BY Zenon DEF StartsInOrder
<1> QED
  BY <1>1, Posts

-----------------------------------------------------------------------------
(* The server: one lemma per step *)

LEMMA EndKeeps ==
  ASSUME ServerConstants, ServerInv, NEW t \in Threads, ThreadEnds(t) \/ ThreadFails(t)
  PROVE  ServerInv'
<1>1. /\ TypeOK /\ NoEventLost /\ NetworkStartsLast /\ OrdersFindTheirWorker /\ GatewayOutlivesWorkers
      /\ Transport = "shm" => SessionsOutliveNetwork
      /\ StartsInOrder /\ StopsInOrder
  BY Zenon DEF ServerInv
<1>2. /\ thread[t] = "running" /\ thread' = [thread EXCEPT ![t] = "ended"]
      /\ UNCHANGED <<main, subscribed, ready, joinable, counter, stopReq, lost, routed>>
  BY Zenon DEF ThreadEnds, ThreadFails
<1>3. main \notin {"ctor", "gateway"}
  BY <1>1, <1>2, Zenon DEF StartsInOrder
<1>4. thread \in [Threads -> {"none", "starting", "running", "asleep", "ended"}] /\ queue \in Seq(Tasks)
  BY <1>1, Zenon DEF TypeOK
<1>5. \A u \in Threads : /\ Up(u)' <=> Up(u)
                         /\ thread'[u] = "none" <=> thread[u] = "none"
                         /\ Gone(u) => Gone(u)'
  BY <1>2, <1>4, Zenon DEF Up, Gone
<1>6. /\ queue' \in Seq(Tasks) /\ (~subscribed' => queue' # <<>> /\ Head(queue') = "subscribe")
      /\ Reported("Coordinator")' => Reported("Coordinator")
      /\ Reported("Gateway")' => Reported("Gateway")
  <2>1. CASE ThreadEnds(t)
    BY <1>1, <1>2, <1>3, <1>4, <2>1 DEF ThreadEnds, StartsInOrder, Reported
  <2>2. CASE ThreadFails(t)
    <3>1. queue' = Append(queue, "error") /\ "error" \in Tasks
      BY <2>2, Zenon DEF ThreadFails, Tasks
    <3>2. queue' \in Seq(Tasks) /\ (~subscribed' => queue' # <<>> /\ Head(queue') = "subscribe")
      BY <1>1, <1>2, <1>3, <1>4, <3>1, PostKeepsHead
    <3> QED
      BY <1>2, <1>4, <3>1, <3>2, PostReports, Zenon
  <2> QED
    BY <2>1, <2>2, Zenon
<1>7. TypeOK'
  <2>1. thread' \in [Threads -> {"none", "starting", "running", "asleep", "ended"}]
    BY <1>2, <1>4, Zenon
  <2>2. errors' \in 0..MaxErrors
    <3>1. errors \in 0..MaxErrors /\ MaxErrors \in Nat
      BY <1>1, Zenon DEF TypeOK, ServerConstants
    <3> QED
      BY <3>1 DEF ThreadEnds, ThreadFails
  <2>3. ioStopped' \in BOOLEAN
    <3>1. ioStopped \in BOOLEAN
      BY <1>1, Zenon DEF TypeOK
    <3> QED
      BY <3>1, Zenon DEF ThreadEnds, ThreadFails
  <2> QED
    BY <1>1, <1>2, <1>6, <2>1, <2>2, <2>3 DEF TypeOK
<1>8. /\ \A w \in Workers : thread'[w] = "none" <=> thread[w] = "none"
      /\ \A u \in Workers \cup {gateway} : Up(u)' <=> Up(u)
  BY <1>5, ThreadNumbers, Zenon
<1>9. StartsInOrder'
  BY <1>1, <1>2, <1>3, <1>6, <1>8, StartsKept
<1>10. thread'[network] # "none" => thread[network] # "none"
  BY <1>5, ThreadNumbers, Zenon
<1>11. NetworkStartsLast' /\ OrdersFindTheirWorker'
  BY <1>1, <1>2, <1>8, <1>10, UpStays
<1>12. \A u \in routed \cup {network} : Gone(u) => Gone(u)'
  BY <1>1, <1>5, ThreadNumbers, Zenon DEF OrdersFindTheirWorker
<1>13. StopsInOrder' /\ GatewayOutlivesWorkers' /\ (Transport = "shm" => SessionsOutliveNetwork')
  BY <1>1, <1>2, <1>10, <1>12, StopsKept
<1>14. NoEventLost'
  BY <1>1, <1>2, Zenon DEF NoEventLost
<1> QED
  BY <1>7, <1>9, <1>11, <1>13, <1>14 DEF ServerInv
\* The reactor sleeps over the stop, and is woken: no other thread is touched.
LEMMA SleepKeeps ==
  ASSUME ServerConstants, ServerInv, Oversleep \/ PeerWrites
  PROVE  ServerInv'
<1>1. /\ TypeOK /\ NoEventLost /\ NetworkStartsLast /\ OrdersFindTheirWorker /\ GatewayOutlivesWorkers
      /\ Transport = "shm" => SessionsOutliveNetwork
      /\ StartsInOrder /\ StopsInOrder
  BY Zenon DEF ServerInv
<1>2. PICK x \in {"asleep", "ended"} : thread' = [thread EXCEPT ![network] = x]
  BY Zenon DEF Oversleep, PeerWrites
<1>3. /\ thread[network] \in {"running", "asleep"}
      /\ UNCHANGED <<main, queue, subscribed, ready, joinable, counter, stopReq, ioStopped, errors, lost, routed>>
  BY Zenon DEF Oversleep, PeerWrites
<1>4. /\ thread \in [Threads -> {"none", "starting", "running", "asleep", "ended"}]
      /\ gateway \in Threads /\ network \in Threads /\ Workers \subseteq Threads
      /\ gateway # network /\ network \notin Workers
  BY <1>1, ThreadNumbers, Zenon DEF TypeOK
<1>5. \A t \in Workers \cup {gateway} : thread'[t] = thread[t]
  BY <1>2, <1>4, Zenon
<1>6. thread'[network] # "none" /\ thread[network] # "none" /\ ~Gone(network)
  BY <1>2, <1>3, <1>4, Zenon DEF Gone
<1>7. main \notin {"ctor", "gateway"}
  BY <1>1, <1>4, <1>6, Zenon DEF StartsInOrder
<1>8. TypeOK'
  BY <1>1, <1>2, <1>3, <1>4, Zenon DEF TypeOK
<1>9. /\ \A w \in Workers : thread'[w] = "none" <=> thread[w] = "none"
      /\ \A t \in Workers \cup {gateway} : Up(t)' <=> Up(t)
      /\ \A t \in Workers : Gone(t) => Gone(t)'
  BY <1>5, Zenon DEF Up, Gone
<1>10. /\ queue' \in Seq(Tasks) /\ (~subscribed' => queue' # <<>> /\ Head(queue') = "subscribe")
       /\ Reported("Coordinator")' => Reported("Coordinator")
       /\ Reported("Gateway")' => Reported("Gateway")
  BY <1>1, <1>3, <1>7, Zenon DEF TypeOK, StartsInOrder, Reported
<1>11. StartsInOrder'
  BY <1>1, <1>3, <1>7, <1>9, <1>10, StartsKept
<1>12. NetworkStartsLast' /\ OrdersFindTheirWorker'
  BY <1>1, <1>3, <1>6, <1>9, UpStays
<1>13. \A t \in routed \cup {network} : Gone(t) => Gone(t)'
  BY <1>1, <1>6, <1>9, Zenon DEF OrdersFindTheirWorker
<1>14. StopsInOrder' /\ GatewayOutlivesWorkers' /\ (Transport = "shm" => SessionsOutliveNetwork')
  BY <1>1, <1>3, <1>6, <1>13, StopsKept
<1>15. NoEventLost'
  BY <1>1, <1>3, Zenon DEF NoEventLost
<1> QED
  BY <1>8, <1>11, <1>12, <1>14, <1>15 DEF ServerInv

\* The gateway or a worker comes up: it is counted and reported, not before.
LEMMA RunsKeeps ==
  ASSUME ServerConstants, ServerInv, GatewayRuns \/ \E w \in Workers : WorkerRuns(w)
  PROVE  ServerInv'
<1>1. /\ TypeOK /\ NoEventLost /\ NetworkStartsLast /\ OrdersFindTheirWorker /\ GatewayOutlivesWorkers
      /\ Transport = "shm" => SessionsOutliveNetwork
      /\ StartsInOrder /\ StopsInOrder
  BY Zenon DEF ServerInv
<1>2. PICK t \in Workers \cup {gateway} :
        /\ thread[t] = "starting" /\ thread' = [thread EXCEPT ![t] = "running"]
        /\ joinable' = [joinable EXCEPT ![t] = TRUE]
        /\ IF t = gateway
             THEN queue' = Append(queue, "Gateway") /\ counter' = counter
             ELSE /\ counter' = counter + 1
                  /\ queue' = IF counter + 1 = WorkerCount THEN Append(queue, "Coordinator") ELSE queue
  BY ThreadNumbers DEF GatewayRuns, WorkerRuns
<1>3. UNCHANGED <<main, subscribed, ready, stopReq, ioStopped, errors, lost, routed>>
  BY Zenon DEF GatewayRuns, WorkerRuns
<1>4. /\ thread \in [Threads -> {"none", "starting", "running", "asleep", "ended"}] /\ queue \in Seq(Tasks)
      /\ joinable \in [Threads -> BOOLEAN] /\ counter \in 0..WorkerCount
  BY <1>1, Zenon DEF TypeOK
<1>5. t \in Threads /\ t # network /\ network \in Threads
  BY ThreadNumbers, Zenon
<1>6. main \notin {"ctor", "gateway"}
  BY <1>1, <1>2, <1>5, Zenon DEF StartsInOrder
<1>7. /\ thread' \in [Threads -> {"none", "starting", "running", "asleep", "ended"}] /\ joinable' \in [Threads -> BOOLEAN]
      /\ \A u \in Threads : /\ Up(u)' <=> (Up(u) \/ u = t)
                            /\ thread'[u] = "none" <=> thread[u] = "none"
                            /\ Gone(u) => Gone(u)'
                            /\ joinable'[u] = IF u = t THEN TRUE ELSE joinable[u]
  BY <1>2, <1>4, <1>5, Zenon DEF Up, Gone
<1>8. ~Up(t)
  BY <1>2, Zenon DEF Up
<1>9. /\ queue' \in Seq(Tasks) /\ (~subscribed' => queue' # <<>> /\ Head(queue') = "subscribe")
      /\ Reported("Coordinator")' => Reported("Coordinator") \/ (t \in Workers /\ counter' = WorkerCount)
      /\ Reported("Gateway")' => Reported("Gateway") \/ t = gateway
  <2>1. CASE queue' = queue
    BY <1>1, <1>3, <1>4, <1>6, <2>1 DEF StartsInOrder, Reported
  <2>2. CASE t = gateway
    <3>1. queue' = Append(queue, "Gateway") /\ "Gateway" \in Tasks
      BY <1>2, <2>2, Zenon DEF Tasks
    <3>2. queue' \in Seq(Tasks) /\ (~subscribed' => queue' # <<>> /\ Head(queue') = "subscribe")
      BY <1>1, <1>3, <1>4, <1>6, <3>1, PostKeepsHead
    <3>3. Reported("Coordinator")' => Reported("Coordinator")
      BY <1>3, <1>4, <3>1, PostReports
    <3> QED
      BY <2>2, <3>2, <3>3, Zenon
  <2>3. CASE t # gateway /\ queue' # queue
    <3>1. queue' = Append(queue, "Coordinator") /\ "Coordinator" \in Tasks /\ counter' = WorkerCount /\ t \in Workers
      BY <1>2, <2>3, Zenon DEF Tasks
    <3>2. queue' \in Seq(Tasks) /\ (~subscribed' => queue' # <<>> /\ Head(queue') = "subscribe")
      BY <1>1, <1>3, <1>4, <1>6, <3>1, PostKeepsHead
    <3>3. Reported("Gateway")' => Reported("Gateway")
      BY <1>3, <1>4, <3>1, PostReports, Zenon
    <3> QED
      BY <3>1, <3>2, <3>3, Zenon
  <2> QED
    BY <2>1, <2>2, <2>3, Zenon
<1>10. /\ counter' = Cardinality({w \in Workers : Up(w)})' /\ counter' \in 0..WorkerCount
       /\ Reported("Coordinator") => counter' = WorkerCount
  <2>1. PICK U : U = {w \in Workers : Up(w)}
    BY Zenon
  <2>2. PICK V : V = {w \in Workers : Up(w)'}
    BY Zenon
  <2>3. counter = Cardinality(U) /\ IsFiniteSet(U) /\ (Reported("Coordinator") => counter = WorkerCount)
    BY <1>1, <2>1, UpCount, Zenon DEF StartsInOrder
  <2>4. CASE t = gateway
    <3>1. V = U /\ counter' = counter
      BY <1>2, <1>7, <2>1, <2>2, <2>4, ThreadNumbers
    <3> QED
      BY <1>4, <2>2, <2>3, <3>1, Zenon
  <2>5. CASE t \in Workers
    <3>1. V = U \cup {t} /\ t \notin U /\ counter' = counter + 1
      BY <1>2, <1>7, <1>8, <2>1, <2>2, <2>5, ThreadNumbers
    <3>2. Cardinality(V) = Cardinality(U) + 1
      BY <2>3, <3>1, FS_AddElement, Zenon
    <3>3. counter # WorkerCount
      BY <1>8, <2>1, <2>3, <2>5, UpCount
    <3> QED
      BY <1>4, <2>2, <2>3, <3>1, <3>2, <3>3, Counts
  <2> QED
    BY <2>4, <2>5, Zenon
<1>11. TypeOK'
  BY <1>1, <1>3, <1>7, <1>9, <1>10 DEF TypeOK
<1>12. StartsInOrder'
  <2>1. main' = "coordinator" => \E n \in Workers : \A w \in Workers : thread'[w] = "none" <=> n <= w
    BY <1>1, <1>3, <1>7, ThreadNumbers, Zenon DEF StartsInOrder
  <2>2. \A u \in Workers \cup {gateway} : Up(u)' => joinable'[u]
    BY <1>1, <1>7, ThreadNumbers, Zenon DEF StartsInOrder
  <2>3. Reported("Gateway")' => Up(gateway)'
    BY <1>1, <1>7, <1>9, ThreadNumbers, Zenon DEF StartsInOrder
  <2>4. Reported("Coordinator")' => counter' = WorkerCount
    BY <1>9, <1>10, Zenon
  <2> QED
    BY <1>3, <1>6, <1>9, <1>10, <2>1, <2>2, <2>3, <2>4 DEF StartsInOrder
<1>13. thread'[network] # "none" => thread[network] # "none"
  BY <1>5, <1>7, Zenon
<1>14. \A u \in Workers \cup {gateway} : Up(u) => Up(u)'
  BY <1>7, ThreadNumbers, Zenon
<1>15. NetworkStartsLast' /\ OrdersFindTheirWorker'
  BY <1>1, <1>3, <1>13, <1>14, UpStays
<1>16. joinable'[network] = joinable[network] /\ \A u \in routed \cup {network} : Gone(u) => Gone(u)'
  BY <1>1, <1>5, <1>7, ThreadNumbers, Zenon DEF OrdersFindTheirWorker
<1>17. StopsInOrder' /\ GatewayOutlivesWorkers' /\ (Transport = "shm" => SessionsOutliveNetwork')
  BY <1>1, <1>3, <1>13, <1>16, StopsKept
<1>18. NoEventLost'
  BY <1>1, <1>3, Zenon DEF NoEventLost
<1> QED
  BY <1>11, <1>12, <1>15, <1>17, <1>18 DEF ServerInv
\* The network's thread comes up, or someone posts an error or a shutdown.
LEMMA PostKeeps ==
  ASSUME ServerConstants, ServerInv, NetworkRuns \/ PostError
  PROVE  ServerInv'
<1>1. /\ TypeOK /\ NoEventLost /\ NetworkStartsLast /\ OrdersFindTheirWorker /\ GatewayOutlivesWorkers
      /\ Transport = "shm" => SessionsOutliveNetwork
      /\ StartsInOrder /\ StopsInOrder
  BY Zenon DEF ServerInv
<1>2. UNCHANGED <<main, subscribed, ready, counter, stopReq, ioStopped, lost, routed>>
  BY Zenon DEF NetworkRuns, PostError
<1>3. /\ thread \in [Threads -> {"none", "starting", "running", "asleep", "ended"}] /\ queue \in Seq(Tasks)
      /\ joinable \in [Threads -> BOOLEAN] /\ errors \in 0..MaxErrors
  BY <1>1, Zenon DEF TypeOK
<1>4. network \in Threads /\ network \notin Workers /\ network # gateway /\ Workers \cup {gateway} \subseteq Threads
  BY ThreadNumbers, Zenon
<1>5. /\ thread' \in [Threads -> {"none", "starting", "running", "asleep", "ended"}]
      /\ joinable' \in [Threads -> BOOLEAN] /\ errors' \in 0..MaxErrors
      /\ joinable'[network] \in {joinable[network], TRUE}
      /\ \A u \in Threads : /\ thread'[u] = "none" <=> thread[u] = "none"
                            /\ Gone(u) => Gone(u)'
                            /\ u # network => (Up(u)' <=> Up(u)) /\ joinable'[u] = joinable[u]
  <2>1. CASE NetworkRuns
    BY <1>3, <1>4, <2>1, Zenon DEF NetworkRuns, Up, Gone
  <2>2. CASE PostError
    <3>1. UNCHANGED <<thread, joinable>> /\ errors' = errors + 1 /\ errors < MaxErrors
      BY <2>2, Zenon DEF PostError
    <3>2. errors' \in 0..MaxErrors
      BY <1>3, <3>1 DEF ServerConstants
    <3> QED
      BY <1>3, <3>1, <3>2, Zenon DEF Up, Gone
  <2> QED
    BY <2>1, <2>2, Zenon
<1>6. main \notin {"ctor", "gateway"}
  <2>1. \E u \in Threads : thread[u] # "none"
    BY <1>4, Zenon DEF NetworkRuns, PostError
  <2> QED
    BY <1>1, <2>1 DEF StartsInOrder
<1>7. /\ queue' \in Seq(Tasks) /\ (~subscribed' => queue' # <<>> /\ Head(queue') = "subscribe")
      /\ Reported("Coordinator")' => Reported("Coordinator")
      /\ Reported("Gateway")' => Reported("Gateway")
  <2>1. CASE queue' = queue
    BY <1>1, <1>2, <1>3, <1>6, <2>1 DEF StartsInOrder, Reported
  <2>2. CASE \E x \in {"Ipc", "error", "shutdown"} : queue' = Append(queue, x)
    <3>1. PICK x \in {"Ipc", "error", "shutdown"} : queue' = Append(queue, x)
      BY <2>2, Zenon
    <3>2. x \in Tasks /\ x # "Coordinator" /\ x # "Gateway"
      BY Zenon DEF Tasks
    <3>3. queue' \in Seq(Tasks) /\ (~subscribed' => queue' # <<>> /\ Head(queue') = "subscribe")
      BY <1>1, <1>2, <1>3, <1>6, <3>1, <3>2, PostKeepsHead
    <3>4. (Reported("Coordinator")' => Reported("Coordinator")) /\ (Reported("Gateway")' => Reported("Gateway"))
      BY <1>2, <1>3, <3>1, <3>2, PostReports
    <3> QED
      BY <3>3, <3>4, Zenon
  <2> QED
    BY <2>1, <2>2, Zenon DEF NetworkRuns, PostError
<1>8. TypeOK'
  BY <1>1, <1>2, <1>5, <1>7 DEF TypeOK
<1>9. StartsInOrder'
  <2>1. /\ \A w \in Workers : thread'[w] = "none" <=> thread[w] = "none"
        /\ \A t \in Workers \cup {gateway} : (Up(t)' <=> Up(t)) /\ joinable'[t] = joinable[t]
    BY <1>4, <1>5, Zenon
  <2> QED
    BY <1>1, <1>2, <1>6, <1>7, <2>1, StartsKept
<1>10. NetworkStartsLast' /\ OrdersFindTheirWorker'
  <2>1. /\ \A t \in Workers \cup {gateway} : Up(t) => Up(t)'
        /\ thread'[network] # "none" => thread[network] # "none"
    BY <1>4, <1>5, Zenon
  <2> QED
    BY <1>1, <1>2, <2>1, UpStays
<1>11. StopsInOrder' /\ GatewayOutlivesWorkers' /\ (Transport = "shm" => SessionsOutliveNetwork')
  <2>1. /\ \A t \in routed \cup {network} : Gone(t) => Gone(t)'
        /\ thread'[network] # "none" => thread[network] # "none"
    BY <1>1, <1>4, <1>5 DEF OrdersFindTheirWorker
  <2>2. GatewayOutlivesWorkers' /\ (Transport = "shm" => SessionsOutliveNetwork')
    BY <1>1, <1>2, <2>1 DEF GatewayOutlivesWorkers, SessionsOutliveNetwork
  <2>3. StopsInOrder'
    BY <1>1, <1>2, <1>5, <2>1, Zenon DEF StopsInOrder
  <2> QED
    BY <2>2, <2>3, Zenon
<1>12. NoEventLost'
  BY <1>1, <1>2, Zenon DEF NoEventLost
<1> QED
  BY <1>8, <1>9, <1>10, <1>11, <1>12 DEF ServerInv

\* An order is routed to a worker that is up, and none once the stop is requested.
LEMMA OrderKeeps ==
  ASSUME ServerConstants, ServerInv, NEW i \in 0..(Tickers - 1), OrderArrives(i)
  PROVE  ServerInv'
<1>1. /\ TypeOK /\ NoEventLost /\ NetworkStartsLast /\ OrdersFindTheirWorker /\ GatewayOutlivesWorkers
      /\ Transport = "shm" => SessionsOutliveNetwork
      /\ StartsInOrder /\ StopsInOrder
  BY Zenon DEF ServerInv
<1>2. PICK v \in Workers : routed' = routed \cup {v}
  BY WorkerExists, Zenon DEF OrderArrives
<1>3. /\ thread[network] = "running" /\ ~stopReq
      /\ UNCHANGED <<main, queue, subscribed, ready, thread, joinable, counter, stopReq, ioStopped, errors, lost>>
  BY Zenon DEF OrderArrives
<1>4. Up(v)
  BY <1>1, <1>3, Zenon DEF NetworkStartsLast, Up
<1>5. main \in {"ctor", "gateway", "coordinator", "run", "stopIpc"}
  BY <1>1, <1>3, Zenon DEF StopsInOrder
<1>6. TypeOK'
  <2>1. v \in Nat
    BY Counts
  <2> QED
    BY <1>1, <1>2, <1>3, <2>1 DEF TypeOK
<1>7. NoEventLost' /\ NetworkStartsLast'
  BY <1>1, <1>3, Zenon DEF NoEventLost, NetworkStartsLast
<1>8. OrdersFindTheirWorker'
  BY <1>1, <1>2, <1>3, <1>4, Zenon DEF OrdersFindTheirWorker, Up
<1>9. GatewayOutlivesWorkers' /\ (Transport = "shm" => SessionsOutliveNetwork')
  BY <1>3, <1>5, Zenon DEF GatewayOutlivesWorkers, SessionsOutliveNetwork
<1>10. StartsInOrder'
  BY <1>1, <1>3, Zenon DEF StartsInOrder, Up, Reported
<1>11. StopsInOrder'
  BY <1>1, <1>3, <1>5, Zenon DEF StopsInOrder
<1> QED
  BY <1>6, <1>7, <1>8, <1>9, <1>10, <1>11 DEF ServerInv
\* The constructor and the first steps of start(), before anything runs.
LEMMA ConstructKeeps ==
  ASSUME ServerConstants, ServerInv, Construct \/ StartGateway
  PROVE  ServerInv'
<1>1. /\ TypeOK /\ NoEventLost /\ NetworkStartsLast /\ OrdersFindTheirWorker /\ GatewayOutlivesWorkers
      /\ StartsInOrder /\ StopsInOrder
  BY Zenon DEF ServerInv
<1>2. /\ main \in {"ctor", "gateway"} /\ main' \in {"gateway", "coordinator"}
      /\ UNCHANGED <<subscribed, ready, joinable, counter, stopReq, ioStopped, errors, lost, routed>>
  BY Zenon DEF Construct, StartGateway
<1>3. /\ thread \in [Threads -> {"none", "starting", "running", "asleep", "ended"}] /\ queue \in Seq(Tasks)
      /\ \A t \in Threads : thread[t] = "none"
  BY <1>1, <1>2 DEF TypeOK, StartsInOrder
<1>4. gateway \in Threads /\ network \in Threads /\ network # gateway /\ gateway \notin Workers /\ Workers \subseteq Threads
  BY ThreadNumbers, Zenon
<1>5. /\ thread' \in [Threads -> {"none", "starting", "running", "asleep", "ended"}]
      /\ main' = "gateway" => \A t \in Threads : thread'[t] = "none"
      /\ \A w \in Workers : thread'[w] = "none"
      /\ thread'[network] = "none" /\ \A t \in Threads : ~Up(t)' /\ ~Up(t)
  BY <1>3, <1>4, Zenon DEF Construct, StartGateway, Up
<1>6. /\ queue' \in Seq(Tasks)
      /\ ~subscribed' => queue' # <<>> /\ Head(queue') = "subscribe"
      /\ Reported("Coordinator")' => Reported("Coordinator")
      /\ Reported("Gateway")' => Reported("Gateway")
  <2>1. CASE StartGateway
    BY <1>1, <1>2, <1>3, <2>1 DEF StartGateway, StartsInOrder, Reported
  <2>2. CASE Construct
    <3>1. queue' = <<"subscribe", "time">>
      BY <2>2, Zenon DEF Construct
    <3>2. /\ queue' \in Seq(Tasks) /\ queue' # <<>> /\ Head(queue') = "subscribe"
          /\ \A k \in 1..Len(queue') : queue'[k] \in {"subscribe", "time"}
      BY <3>1 DEF Tasks
    <3> QED
      BY <1>2, <3>2, Zenon DEF Reported
  <2> QED
    BY <2>1, <2>2, Zenon
<1>7. TypeOK'
  BY <1>1, <1>2, <1>5, <1>6 DEF TypeOK, Main
<1>8. StartsInOrder'
  <2>1. {w \in Workers : Up(w)'} = {w \in Workers : Up(w)}
    BY <1>4, <1>5, Zenon
  <2>2. counter' = Cardinality({w \in Workers : Up(w)})'
    BY <1>1, <1>2, <2>1, Zenon DEF StartsInOrder
  <2>3. \E n \in Workers : \A w \in Workers : thread'[w] = "none" <=> n <= w
    <3>1. 0 \in Workers /\ \A w \in Workers : 0 <= w
      BY Counts
    <3> QED
      BY <1>5, <3>1, Zenon
  <2>4. \A t \in Workers \cup {gateway} : Up(t)' => joinable'[t]
    BY <1>4, <1>5, Zenon
  <2>5. (Reported("Coordinator")' => counter' = WorkerCount) /\ (Reported("Gateway")' => Up(gateway)')
    BY <1>1, <1>2, <1>4, <1>5, <1>6 DEF StartsInOrder
  <2> QED
    BY <1>2, <1>5, <1>6, <2>2, <2>3, <2>4, <2>5 DEF StartsInOrder
<1>9. routed = {}
  BY <1>1, <1>4, <1>5, Zenon DEF OrdersFindTheirWorker, Up
<1>10. NoEventLost' /\ NetworkStartsLast' /\ OrdersFindTheirWorker'
  BY <1>1, <1>2, <1>5, <1>9, Zenon DEF NoEventLost, NetworkStartsLast, OrdersFindTheirWorker
<1>11. GatewayOutlivesWorkers' /\ SessionsOutliveNetwork' /\ StopsInOrder'
  BY <1>2, <1>5, Zenon DEF GatewayOutlivesWorkers, SessionsOutliveNetwork, StopsInOrder
<1> QED
  BY <1>7, <1>8, <1>10, <1>11 DEF ServerInv

\* Coordinator::startWorkers starts the first worker that does not run yet.
LEMMA StartWorkerKeeps ==
  ASSUME ServerConstants, ServerInv, StartWorker
  PROVE  ServerInv'
<1>1. /\ TypeOK /\ NoEventLost /\ NetworkStartsLast /\ OrdersFindTheirWorker /\ GatewayOutlivesWorkers
      /\ StartsInOrder /\ StopsInOrder
  BY Zenon DEF ServerInv
<1>2. PICK n \in Workers : \A w \in Workers : thread[w] = "none" <=> n <= w
  BY <1>1, Zenon DEF StartsInOrder, StartWorker
<1>3. n \in Nat /\ WorkerCount \in Nat \ {0} /\ n < WorkerCount
  BY Counts
<1>4. Cardinality({w \in Workers : thread[w] # "none"}) = n
  <2>1. {w \in Workers : thread[w] # "none"} = 0..(n - 1)
    BY <1>2, <1>3, Counts
  <2>2. 0 \in Int /\ n - 1 \in Int
    BY <1>3
  <2>3. Cardinality(0..(n - 1)) = IF 0 > n - 1 THEN 0 ELSE (n - 1) - 0 + 1
    BY <2>2, FS_Interval, Zenon
  <2>4. Cardinality(0..(n - 1)) = n
    BY <1>3, <2>3
  <2> QED
    BY <2>1, <2>4, Zenon
<1>5. /\ main = "coordinator" /\ thread' = [thread EXCEPT ![n] = "starting"]
      /\ main' = IF n + 1 = WorkerCount THEN "run" ELSE main
      /\ UNCHANGED <<queue, subscribed, ready, joinable, counter, stopReq, ioStopped, errors, lost, routed>>
  BY <1>4, Zenon DEF StartWorker
<1>6. thread \in [Threads -> {"none", "starting", "running", "asleep", "ended"}] /\ thread[n] = "none"
  BY <1>1, <1>2, <1>3 DEF TypeOK
<1>7. n \in Threads /\ n # network /\ n # gateway /\ network \in Threads /\ Workers \cup {gateway} \subseteq Threads
  BY ThreadNumbers, Zenon
<1>8. /\ thread' \in [Threads -> {"none", "starting", "running", "asleep", "ended"}]
      /\ thread'[network] = thread[network]
      /\ \A t \in Threads : /\ Up(t)' <=> Up(t)
                            /\ t # n => thread'[t] = thread[t]
      /\ thread'[n] = "starting"
  BY <1>5, <1>6, <1>7, Zenon DEF Up
<1>9. TypeOK'
  BY <1>1, <1>5, <1>8, Zenon DEF TypeOK, Main
<1>10. NoEventLost' /\ NetworkStartsLast' /\ OrdersFindTheirWorker'
  <2>1. \A t \in Workers \cup {gateway} : Up(t) => Up(t)'
    BY <1>7, <1>8, Zenon
  <2> QED
    BY <1>1, <1>5, <1>8, <2>1, UpStays DEF NoEventLost
<1>11. GatewayOutlivesWorkers' /\ SessionsOutliveNetwork'
  BY <1>5, Zenon DEF GatewayOutlivesWorkers, SessionsOutliveNetwork
<1>12. StopsInOrder'
  BY <1>1, <1>5, <1>8, Zenon DEF StopsInOrder
<1>13. StartsInOrder'
  <2>1. {w \in Workers : Up(w)'} = {w \in Workers : Up(w)}
    BY <1>7, <1>8, Zenon
  <2>2. counter' = Cardinality({w \in Workers : Up(w)})'
    BY <1>1, <1>5, <2>1, Zenon DEF StartsInOrder
  <2>3. main' = "coordinator" => \E m \in Workers : \A w \in Workers : thread'[w] = "none" <=> m <= w
    <3>1. SUFFICES ASSUME main' = "coordinator"
                   PROVE  \E m \in Workers : \A w \in Workers : thread'[w] = "none" <=> m <= w
      BY Zenon
    <3>2. n + 1 \in Workers
      BY <1>3, <1>5, <3>1, Counts
    <3>3. \A w \in Workers : w \in Nat
      BY Counts
    <3>4. \A w \in Workers : thread'[w] = "none" <=> n + 1 <= w
      BY <1>2, <1>3, <1>7, <1>8, <3>3
    <3> QED
      BY <3>2, <3>4, Zenon
  <2>4. \A t \in Workers \cup {gateway} : Up(t)' => joinable'[t]
    BY <1>1, <1>5, <1>7, <1>8, Zenon DEF StartsInOrder
  <2>5. (Reported("Coordinator")' => counter' = WorkerCount) /\ (Reported("Gateway")' => Up(gateway)')
    BY <1>1, <1>5, <1>7, <1>8 DEF StartsInOrder, Reported
  <2>6. ~subscribed' => queue' # <<>> /\ Head(queue') = "subscribe"
    BY <1>1, <1>5, Zenon DEF StartsInOrder
  <2> QED
    BY <1>5, <2>2, <2>3, <2>4, <2>5, <2>6 DEF StartsInOrder
<1> QED
  BY <1>9, <1>10, <1>11, <1>12, <1>13 DEF ServerInv
\* ControlCenter::stop and the destructor, which wait for what they join.
LEMMA StopKeeps ==
  ASSUME ServerConstants, ServerInv, Stop \/ Destroy
  PROVE  ServerInv'
<1>1. /\ TypeOK /\ NoEventLost /\ NetworkStartsLast /\ OrdersFindTheirWorker /\ GatewayOutlivesWorkers
      /\ Transport = "shm" => SessionsOutliveNetwork
      /\ StartsInOrder /\ StopsInOrder
  BY Zenon DEF ServerInv
<1>2. UNCHANGED <<queue, subscribed, ready, thread, counter, errors, lost, routed>>
  BY Zenon DEF Stop, StopIpc, JoinIpc, StopWorkers, StopGateway, Destroy
<1>3. /\ main \in {"stopIpc", "joinIpc", "stopWorkers", "joinGateway", "stopped", "destroyWorkers",
                   "destroySessions", "destroyIpc"}
      /\ main' \in {"joinIpc", "stopWorkers", "joinGateway", "stopped", "destroyWorkers",
                    "destroySessions", "destroyIpc", "gone"}
  BY Zenon DEF Stop, StopIpc, JoinIpc, StopWorkers, StopGateway, Destroy
<1>4. /\ joinable \in [Threads -> BOOLEAN] /\ stopReq \in BOOLEAN /\ ioStopped \in BOOLEAN
      /\ network \in Threads /\ network \notin Workers /\ network # gateway /\ Workers \cup {gateway} \subseteq Threads
  BY <1>1, ThreadNumbers, Zenon DEF TypeOK
<1>5. /\ joinable' \in [Threads -> BOOLEAN]
      /\ \A t \in Workers \cup {gateway} : joinable'[t] = joinable[t]
  <2>1. joinable' = joinable \/ joinable' = [joinable EXCEPT ![network] = FALSE]
    BY Zenon DEF Stop, StopIpc, JoinIpc, StopWorkers, StopGateway, Destroy
  <2> QED
    BY <1>4, <2>1, Zenon
<1>6. stopReq' \in BOOLEAN /\ ioStopped' \in BOOLEAN
  BY <1>4, Zenon DEF Stop, StopIpc, JoinIpc, StopWorkers, StopGateway, Destroy
<1>7. TypeOK'
  BY <1>1, <1>2, <1>3, <1>5, <1>6 DEF TypeOK, Main
<1>8. NoEventLost' /\ NetworkStartsLast' /\ OrdersFindTheirWorker'
  BY <1>1, <1>2, Zenon DEF NoEventLost, NetworkStartsLast, OrdersFindTheirWorker
<1>9. StartsInOrder'
  <2>1. /\ \A w \in Workers : thread'[w] = "none" <=> thread[w] = "none"
        /\ \A t \in Workers \cup {gateway} : (Up(t)' <=> Up(t)) /\ joinable'[t] = joinable[t]
    BY <1>2, <1>5, Zenon DEF Up
  <2>2. (Reported("Coordinator")' => Reported("Coordinator")) /\ (Reported("Gateway")' => Reported("Gateway"))
    BY <1>2, Zenon DEF Reported
  <2>3. ~subscribed' => queue' # <<>> /\ Head(queue') = "subscribe"
    BY <1>1, <1>2, <1>3, Zenon DEF StartsInOrder
  <2> QED
    BY <1>1, <1>2, <1>3, <2>1, <2>2, <2>3, StartsKept
<1>10. stopReq'
  BY <1>1, Zenon DEF Stop, StopIpc, JoinIpc, StopWorkers, StopGateway, Destroy, StopsInOrder
<1>11. \A t : Gone(t)' <=> Gone(t)
  BY <1>2, Zenon DEF Gone
<1>12. main' \in {"joinGateway", "stopped", "destroyWorkers", "destroySessions", "destroyIpc", "gone"} =>
         \A w \in routed' : Gone(w)'
  <2>1. CASE StopWorkers
    <3>1. \A w \in routed : w \in Workers /\ joinable[w]
      BY <1>1, Zenon DEF OrdersFindTheirWorker, StartsInOrder, Up
    <3> QED
      BY <1>2, <1>11, <2>1, <3>1 DEF StopWorkers
  <2>2. CASE StopIpc \/ JoinIpc
    BY <2>2, Zenon DEF StopIpc, JoinIpc
  <2>3. CASE StopGateway \/ Destroy
    <3>1. main \in {"joinGateway", "stopped", "destroyWorkers", "destroySessions", "destroyIpc"}
      BY <2>3, Zenon DEF StopGateway, Destroy
    <3> QED
      BY <1>1, <1>2, <1>11, <3>1 DEF StopsInOrder, GatewayOutlivesWorkers
  <2> QED
    BY <2>1, <2>2, <2>3, Zenon DEF Stop
<1>13. Transport = "shm" /\ main' # "joinIpc" => Gone(network)'
  <2>1. SUFFICES ASSUME Transport = "shm", main' # "joinIpc" PROVE Gone(network)
    BY <1>11, Zenon
  <2>2. CASE StopIpc
    <3>1. main = "stopIpc" /\ ~joinable[network]
      BY <2>1, <2>2, Zenon DEF StopIpc
    <3> QED
      BY <1>1, <2>1, <3>1, Zenon DEF StopsInOrder, Gone
  <2>3. CASE JoinIpc
    BY <2>3, Zenon DEF JoinIpc
  <2>4. CASE StopWorkers \/ StopGateway \/ Destroy
    <3>1. main \in {"stopWorkers", "joinGateway", "stopped", "destroyWorkers", "destroySessions", "destroyIpc"}
      BY <2>4, Zenon DEF StopWorkers, StopGateway, Destroy
    <3> QED
      BY <1>1, <2>1, <3>1, Zenon DEF StopsInOrder, SessionsOutliveNetwork
  <2> QED
    BY <2>2, <2>3, <2>4, Zenon DEF Stop
<1>14. GatewayOutlivesWorkers' /\ (Transport = "shm" => SessionsOutliveNetwork')
  BY <1>12, <1>13, Zenon DEF GatewayOutlivesWorkers, SessionsOutliveNetwork
<1>15. StopsInOrder'
  BY <1>3, <1>10, <1>12, <1>13, Zenon DEF StopsInOrder
<1> QED
  BY <1>7, <1>8, <1>9, <1>14, <1>15 DEF ServerInv

\* One task of the system bus.
LEMMA DispatchKeeps ==
  ASSUME ServerConstants, ServerInv, Dispatch
  PROVE  ServerInv'
<1>1. /\ TypeOK /\ NoEventLost /\ NetworkStartsLast /\ OrdersFindTheirWorker /\ GatewayOutlivesWorkers
      /\ Transport = "shm" => SessionsOutliveNetwork
      /\ StartsInOrder /\ StopsInOrder
  BY Zenon DEF ServerInv
<1>2. /\ thread \in [Threads -> {"none", "starting", "running", "asleep", "ended"}] /\ queue \in Seq(Tasks)
      /\ joinable \in [Threads -> BOOLEAN] /\ subscribed \in BOOLEAN /\ lost \in BOOLEAN
      /\ ready \subseteq INTERNAL_READY \cup {"Ipc"} /\ network \in Threads /\ network \notin Workers
      /\ network # gateway /\ Workers \cup {gateway} \subseteq Threads
  BY <1>1, ThreadNumbers, Zenon DEF TypeOK
<1>3. PICK task : task = Head(queue)
  BY Zenon
<1>4. /\ main = "run" /\ queue # <<>> /\ queue' \in {Tail(queue), Append(Tail(queue), "Time")}
      /\ subscribed' = (subscribed \/ task = "subscribe")
      /\ lost' = (lost \/ (task \notin {"subscribe", "time"} /\ ~subscribed))
      /\ main' = IF task \in {"error", "shutdown"} /\ subscribed THEN "stopIpc" ELSE main
      /\ IF task \in {"Coordinator", "Gateway", "Time", "Ipc"} /\ subscribed
           THEN OnReady(task) ELSE UNCHANGED <<ready, thread, joinable>>
      /\ UNCHANGED <<counter, stopReq, ioStopped, errors, routed>>
  BY <1>3, Zenon DEF Dispatch
<1>5. ~subscribed => task = "subscribe"
  BY <1>1, <1>3, <1>4, Zenon DEF StartsInOrder
<1>6. subscribed' = TRUE
  BY <1>2, <1>4, <1>5, Zenon
<1>7. queue' \in Seq(Tasks)
  <2>1. Tail(queue) \in Seq(Tasks) /\ "Time" \in Tasks
    BY <1>2, <1>4, Takes, Zenon DEF Tasks
  <2>2. PICK q \in Seq(Tasks) : q = Tail(queue)
    BY <2>1, Zenon
  <2> QED
    BY <1>4, <2>1, <2>2, Posts
<1>8. ready' \subseteq ready \cup {task} /\ ready' \subseteq INTERNAL_READY \cup {"Ipc"}
  BY <1>2, <1>4, Zenon DEF OnReady, INTERNAL_READY
<1>9. (Reported("Coordinator")' => Reported("Coordinator")) /\ (Reported("Gateway")' => Reported("Gateway"))
  BY <1>2, <1>3, <1>4, <1>8, DispatchReports, Zenon
<1>10. CASE UNCHANGED <<thread, joinable>>
  <2>1. TypeOK'
    BY <1>1, <1>4, <1>5, <1>6, <1>7, <1>8, <1>10 DEF TypeOK, Main, NoEventLost
  <2>2. NoEventLost' /\ NetworkStartsLast' /\ OrdersFindTheirWorker'
    BY <1>1, <1>4, <1>5, <1>10, Zenon DEF NoEventLost, NetworkStartsLast, OrdersFindTheirWorker
  <2>3. GatewayOutlivesWorkers' /\ SessionsOutliveNetwork'
    BY <1>4, Zenon DEF GatewayOutlivesWorkers, SessionsOutliveNetwork
  <2>4. StopsInOrder'
    BY <1>1, <1>4, <1>10, Zenon DEF StopsInOrder
  <2>5. \A t \in Workers \cup {gateway} : (Up(t)' <=> Up(t)) /\ joinable'[t] = joinable[t]
    BY <1>10, Zenon DEF Up
  <2>6. StartsInOrder'
    BY <1>1, <1>4, <1>6, <1>9, <1>10, <2>5, StartsKept
  <2> QED
    BY <2>1, <2>2, <2>3, <2>4, <2>6, Zenon DEF ServerInv
<1>11. CASE ready' = INTERNAL_READY /\ StartIpc /\ task \in {"Coordinator", "Gateway", "Time", "Ipc"}
  <2>1. Reported("Coordinator") /\ Reported("Gateway")
    BY <1>9, <1>11, Zenon DEF Reported, INTERNAL_READY
  <2>2. \A t \in Workers \cup {gateway} : Up(t)
    <3>1. counter = WorkerCount /\ counter = Cardinality({w \in Workers : Up(w)}) /\ Up(gateway)
      BY <1>1, <2>1, Zenon DEF StartsInOrder
    <3> QED
      BY <3>1, UpCount, Zenon
  <2>3. /\ thread' \in [Threads -> {"none", "starting", "running", "asleep", "ended"}] /\ joinable' \in [Threads -> BOOLEAN]
        /\ \A t \in Workers \cup {gateway} : thread'[t] = thread[t] /\ joinable'[t] = joinable[t]
        /\ Transport = "shm" => joinable'[network]
    BY <1>2, <1>11, Zenon DEF StartIpc
  <2>4. \A t \in Workers \cup {gateway} : (Up(t)' <=> Up(t)) /\ joinable'[t] = joinable[t]
    BY <2>3, Zenon DEF Up
  <2>5. TypeOK'
    BY <1>1, <1>4, <1>5, <1>6, <1>7, <1>8, <2>3 DEF TypeOK, Main, NoEventLost
  <2>6. NoEventLost' /\ NetworkStartsLast' /\ OrdersFindTheirWorker'
    BY <1>1, <1>4, <1>5, <2>2, <2>3, Zenon DEF NoEventLost, NetworkStartsLast, OrdersFindTheirWorker, Up
  <2>7. GatewayOutlivesWorkers' /\ SessionsOutliveNetwork'
    BY <1>4, Zenon DEF GatewayOutlivesWorkers, SessionsOutliveNetwork
  <2>8. StopsInOrder'
    BY <1>4, <2>3, Zenon DEF StopsInOrder
  <2>9. \A w \in Workers : thread'[w] = "none" <=> thread[w] = "none"
    BY <2>3, Zenon
  <2>10. StartsInOrder'
    <3>1. /\ main # "ctor" /\ main' \notin {"ctor", "gateway"} /\ main' # "coordinator" /\ counter' = counter
      BY <1>4, <1>6
    <3>2. ~subscribed' => queue' # <<>> /\ Head(queue') = "subscribe"
      BY <1>1, <1>4, <1>6, Zenon
    <3> QED
      BY <1>1, <1>9, <2>4, <2>9, <3>1, <3>2, StartsKept, Zenon
  <2> QED
    BY <2>5, <2>6, <2>7, <2>8, <2>10, Zenon DEF ServerInv
<1> QED
  BY <1>4, <1>10, <1>11, Zenon DEF OnReady

-----------------------------------------------------------------------------
(* Whatever the configuration, ControlCenter brings the server up and takes it*)
(* down in order: no event is lost, the network starts last, every order goes *)
(* to a running worker (Storage and Coordinator agree on the worker ids), and *)
(* a routed worker is over before the gateway it calls.                       *)
THEOREM ServerKeepsItsOrder ==
  ASSUME ServerConstants
  PROVE  Spec => []ServerInv
<1>1. Init => ServerInv
  <2> SUFFICES ASSUME Init PROVE ServerInv
    BY Zenon
  <2>1. TypeOK
    <3>1. counter \in 0..WorkerCount /\ errors \in 0..MaxErrors
      BY Counts DEF Init, ServerConstants
    <3>2. queue \in Seq(Tasks)
      BY DEF Init
    <3>3. thread \in [Threads -> {"none", "starting", "running", "asleep", "ended"}] /\ joinable \in [Threads -> BOOLEAN]
      BY Zenon DEF Init
    <3> QED
      BY <3>1, <3>2, <3>3, Zenon DEF Init, TypeOK, Main
  <2>2. \A t \in Threads : thread[t] = "none" /\ ~Up(t)
    BY Zenon DEF Init, Up
  <2>3. StartsInOrder
    <3>1. {w \in Workers : Up(w)} = {}
      BY <2>2, ThreadNumbers, Zenon
    <3>2. counter = Cardinality({w \in Workers : Up(w)})
      BY <3>1, FS_EmptySet, Zenon DEF Init
    <3>3. ~Reported("Coordinator") /\ ~Reported("Gateway")
      BY DEF Init, Reported
    <3>4. \A t \in Workers \cup {gateway} : ~Up(t)
      BY <2>2, ThreadNumbers, Zenon
    <3> QED
      BY <2>2, <3>2, <3>3, <3>4, Zenon DEF Init, StartsInOrder
  <2>4. StopsInOrder /\ NoEventLost /\ OrdersFindTheirWorker /\ GatewayOutlivesWorkers /\ SessionsOutliveNetwork
    BY <2>2, ThreadNumbers, Zenon DEF Init, StopsInOrder, NoEventLost, OrdersFindTheirWorker, GatewayOutlivesWorkers, SessionsOutliveNetwork
  <2>5. NetworkStartsLast
    BY <2>2, ThreadNumbers, Zenon DEF NetworkStartsLast
  <2> QED
    BY <2>1, <2>3, <2>4, <2>5, Zenon DEF ServerInv
<1>2. ServerInv /\ [Next]_vars => ServerInv'
  <2> SUFFICES ASSUME ServerInv, [Next]_vars PROVE ServerInv'
    BY Zenon
  <2>1. CASE Construct \/ StartGateway
    BY <2>1, ConstructKeeps, Zenon
  <2>2. CASE StartWorker
    BY <2>2, StartWorkerKeeps, Zenon
  <2>3. CASE Dispatch
    BY <2>3, DispatchKeeps, Zenon
  <2>4. CASE Stop \/ Destroy
    BY <2>4, StopKeeps, Zenon
  <2>5. CASE PostError \/ NetworkRuns
    BY <2>5, PostKeeps, Zenon
  <2>6. CASE GatewayRuns \/ \E w \in Workers : WorkerRuns(w)
    BY <2>6, RunsKeeps, Zenon
  <2>7. CASE \E t \in Threads : ThreadEnds(t) \/ ThreadFails(t)
    BY <2>7, EndKeeps, Zenon
  <2>8. CASE \E i \in 0..(Tickers - 1) : OrderArrives(i)
    BY <2>8, OrderKeeps
  <2>10. CASE Oversleep \/ PeerWrites
    BY <2>10, SleepKeeps, Zenon
  <2>9. CASE UNCHANGED vars
    <3>1. UNCHANGED <<main, queue, subscribed, ready, thread, joinable, counter, stopReq, ioStopped, errors, lost, routed>>
      BY <2>9, Zenon DEF vars
    <3>2. TypeOK'
      BY <3>1, Zenon DEF ServerInv, TypeOK
    <3>3. /\ NoEventLost' /\ NetworkStartsLast' /\ OrdersFindTheirWorker' /\ GatewayOutlivesWorkers'
          /\ Transport = "shm" => SessionsOutliveNetwork'
      BY <3>1, Zenon DEF ServerInv, NoEventLost, NetworkStartsLast, OrdersFindTheirWorker, GatewayOutlivesWorkers,
                         SessionsOutliveNetwork, Gone
    <3>4. StartsInOrder'
      BY <3>1, Zenon DEF ServerInv, StartsInOrder, Up, Reported
    <3>5. StopsInOrder'
      BY <3>1, Zenon DEF ServerInv, StopsInOrder, Gone
    <3> QED
      BY <3>2, <3>3, <3>4, <3>5, Zenon DEF ServerInv
  <2> QED
    BY <2>1, <2>2, <2>3, <2>4, <2>5, <2>6, <2>7, <2>8, <2>9, <2>10 DEF Next, MainNext, ThreadNext
<1> QED
  BY <1>1, <1>2, PTL DEF Spec
-----------------------------------------------------------------------------
(* The client *)

\* A queue after a post, a take, or a take and a post: it holds what it held,
\* or the posted task.
LEMMA QueueAfter ==
  ASSUME NEW S, NEW q \in Seq(S), NEW x \in S, NEW r,
         r = Append(q, x) \/ (q # <<>> /\ (r = Tail(q) \/ r = Append(Tail(q), x)))
  PROVE  r \in Seq(S) /\ \A k \in 1..Len(r) : r[k] = x \/ \E j \in 1..Len(q) : q[j] = r[k]
<1>1. CASE r = Append(q, x)
  <2>1. r \in Seq(S) /\ Len(r) = Len(q) + 1 /\ \A k \in 1..Len(q) + 1 : r[k] = IF k <= Len(q) THEN q[k] ELSE x
    BY <1>1, Posts
  <2>2. Len(q) \in Nat
    OBVIOUS
  <2> QED
    BY <2>1, <2>2
<1>2. ASSUME q # <<>>, r = Tail(q) \/ r = Append(Tail(q), x)
      PROVE  r \in Seq(S) /\ \A k \in 1..Len(r) : r[k] = x \/ \E j \in 1..Len(q) : q[j] = r[k]
  <2>1. PICK s \in Seq(S) : s = Tail(q)
    BY <1>2, Takes, Zenon
  <2>2. Len(s) = Len(q) - 1 /\ Len(q) \in Nat \ {0} /\ \A k \in 1..Len(q) - 1 : s[k] = q[k + 1]
    BY <1>2, <2>1, Takes, Zenon
  <2>3. \A k \in 1..Len(s) : \E j \in 1..Len(q) : q[j] = s[k]
    BY <2>2
  <2>4. CASE r = s
    BY <2>3, <2>4, Zenon
  <2>5. CASE r = Append(s, x)
    <3>1. r \in Seq(S) /\ Len(r) = Len(s) + 1 /\ \A k \in 1..Len(s) + 1 : r[k] = IF k <= Len(s) THEN s[k] ELSE x
      BY <2>5, Posts
    <3>2. Len(s) \in Nat
      OBVIOUS
    <3>3. ASSUME NEW k \in 1..Len(r) PROVE r[k] = x \/ \E j \in 1..Len(q) : q[j] = r[k]
      <4>1. k \in 1..Len(s) + 1 /\ (k <= Len(s) => k \in 1..Len(s))
        BY <3>1, <3>2, <3>3
      <4> QED
        BY <2>3, <3>1, <4>1, Zenon
    <3> QED
      BY <3>1, <3>3, Zenon
  <2> QED
    BY <1>2, <2>1, <2>4, <2>5, Zenon
<1> QED
  BY <1>1, <1>2, Zenon

\* The bus of the client: a task is on it because it was, because the engine
\* has just reported itself, or because there is a channel.
LEMMA ClientQueue ==
  ASSUME Client!TypeOK, Client!Next
  PROVE  /\ queue' \in Seq(Client!Tasks)
         /\ Client!Queued("Engine")' => Client!Queued("Engine") \/ Client!EngineRuns
         /\ Client!Queued("Connected")' => Client!Queued("Connected") \/ upstream'
<1>1. queue \in Seq(Client!Tasks) /\ {"Engine", "Connected"} \subseteq Client!Tasks
  BY Zenon DEF Client!TypeOK, Client!Tasks
<1>2. CASE queue' = queue
  BY <1>1, <1>2, Zenon DEF Client!Queued
<1>3. ASSUME NEW x \in Client!Tasks,
             queue' = Append(queue, x) \/ (queue # <<>> /\ (queue' = Tail(queue) \/ queue' = Append(Tail(queue), x))),
             x = "Engine" => Client!EngineRuns, x = "Connected" => upstream'
      PROVE  /\ queue' \in Seq(Client!Tasks)
             /\ Client!Queued("Engine")' => Client!Queued("Engine") \/ Client!EngineRuns
             /\ Client!Queued("Connected")' => Client!Queued("Connected") \/ upstream'
  <2>1. queue' \in Seq(Client!Tasks) /\ \A k \in 1..Len(queue') : queue'[k] = x \/ \E j \in 1..Len(queue) : queue[j] = queue'[k]
    BY <1>1, <1>3, QueueAfter
  <2> QED
    BY <1>3, <2>1, Zenon DEF Client!Queued
<1>4. CASE Client!EngineRuns
  BY <1>1, <1>3, <1>4, Zenon DEF Client!EngineRuns, Client!Tasks
<1>5. CASE Client!NetworkRuns
  BY <1>1, <1>2, <1>3, <1>5, Zenon DEF Client!NetworkRuns, Client!Tasks
<1>6. CASE Client!LoggedIn
  BY <1>1, <1>3, <1>6, Zenon DEF Client!LoggedIn, Client!Tasks
<1>7. CASE Client!ConnectionLost
  BY <1>1, <1>3, <1>7, Zenon DEF Client!ConnectionLost, Client!Tasks
<1>8. CASE Client!Command
  BY <1>1, <1>3, <1>8, Zenon DEF Client!Command, Client!Tasks
<1>9. CASE Client!TimeTask
  BY <1>1, <1>3, <1>9, Zenon DEF Client!TimeTask, Client!Take, Client!Tasks
<1>10. CASE Client!ComponentReady
  <2>1. /\ queue # <<>>
        /\ queue' = Tail(queue) \/ (queue' = Append(Tail(queue), "Connected") /\ upstream')
    BY <1>10, Zenon DEF Client!ComponentReady, Client!Take
  <2>2. {"Connected", "time"} \subseteq Client!Tasks
    BY Zenon DEF Client!Tasks
  <2>3. CASE queue' = Tail(queue)
    BY <1>3, <2>1, <2>2, <2>3
  <2> QED
    BY <1>3, <2>1, <2>2, <2>3, Zenon
<1>11. CASE Client!ConnectionStatus
  BY <1>1, <1>3, <1>11, Zenon DEF Client!ConnectionStatus, Client!Take, Client!Tasks
<1>12. CASE Client!StateChanged \/ Client!TradeCommand \/ Client!Shutdown
  <2>1. queue # <<>> /\ queue' = Tail(queue) /\ "time" \in Client!Tasks
    BY <1>12, Zenon DEF Client!StateChanged, Client!TradeCommand, Client!Shutdown, Client!Take, Client!Tasks
  <2> QED
    BY <1>3, <2>1, Zenon
<1>13. CASE \/ Client!Start \/ Client!StopIpc \/ Client!StopEngine \/ Client!CloseManager \/ Client!Destroy
            \/ Client!EngineEnds \/ Client!PostOrder \/ Client!NetworkEnds \/ Client!Oversleep \/ Client!PeerWrites
  BY <1>2, <1>13, Zenon DEF Client!Start, Client!StopIpc, Client!StopEngine, Client!CloseManager, Client!Destroy,
                     Client!EngineEnds, Client!PostOrder, Client!NetworkEnds, Client!Oversleep, Client!PeerWrites
<1>14. CASE Client!WriteOrder
  BY <1>1, <1>2, <1>3, <1>14, Zenon DEF Client!WriteOrder, Client!Tasks
<1> QED
  BY <1>4, <1>5, <1>6, <1>7, <1>8, <1>9, <1>10, <1>11, <1>12, <1>13, <1>14
     DEF Client!Next, Client!MainNext, Client!EngineNext, Client!NetworkNext

\* The task at the head of the bus is on it.
LEMMA ClientHead ==
  ASSUME Client!TypeOK, queue # <<>>
  PROVE  Client!Queued(Head(queue))
<1>1. queue \in Seq(Client!Tasks)
  BY Zenon DEF Client!TypeOK
<1>2. Head(queue) = queue[1] /\ 1 \in 1..Len(queue)
  BY <1>1, Takes
<1> QED
  BY <1>2, Zenon DEF Client!Queued


\* The variables of the client keep their types.
LEMMA ClientTypes ==
  ASSUME Client!ClientConstants, Client!ClientInv, Client!Next
  PROVE  Client!TypeOK'
<1>a. Client!TypeOK /\ MaxEvents \in Nat /\ (main = "start" => engine = "none")
  BY Zenon DEF Client!ClientInv, Client!ClientConstants, Client!StepsInOrder
<1>b. queue' \in Seq(Client!Tasks)
  BY <1>a, ClientQueue, Zenon
<1>1. CASE Client!Start
  BY <1>1, <1>a, <1>b, Zenon DEF Client!Start, Client!TypeOK, Client!Thread
<1>2. CASE Client!TimeTask
  BY <1>2, <1>a, <1>b, Zenon DEF Client!TimeTask, Client!Take, Client!TypeOK, Client!Thread
<1>3. CASE Client!ComponentReady
  <2>1. /\ Head(queue) \in {"Engine", "Time", "Ipc"} /\ ready' = ready \cup {Head(queue)} /\ ipc' \in {"starting", ipc}
        /\ UNCHANGED <<closed, main, engine, ioStopped, stopReq, state, trading, sending, events, lossHandled, nullWrite>>
    BY <1>3, Zenon DEF Client!ComponentReady, Client!Take
  <2>2. upstream \in BOOLEAN
    BY <1>a, Zenon DEF Client!TypeOK
  <2>3. upstream' \in BOOLEAN
    BY <1>3, <2>2, Zenon DEF Client!ComponentReady
  <2> QED
    BY <1>a, <1>b, <2>1, <2>3, Zenon DEF Client!TypeOK, Client!Thread, Client!INTERNAL_READY
<1>4. CASE Client!StateChanged
  BY <1>4, <1>a, <1>b, Zenon DEF Client!StateChanged, Client!Take, Client!TypeOK, Client!Thread
<1>5. CASE Client!ConnectionStatus
  BY <1>5, <1>a, <1>b, Zenon DEF Client!ConnectionStatus, Client!Take, Client!TypeOK, Client!Thread
<1>6. CASE Client!TradeCommand
  BY <1>6, <1>a, <1>b, Zenon DEF Client!TradeCommand, Client!Take, Client!TypeOK, Client!Thread
<1>7. CASE Client!Shutdown
  BY <1>7, <1>a, <1>b, Zenon DEF Client!Shutdown, Client!Take, Client!TypeOK, Client!Thread
<1>8. CASE Client!StopIpc
  BY <1>8, <1>a, <1>b, Zenon DEF Client!StopIpc, Client!TypeOK, Client!Thread
<1>9. CASE Client!StopEngine
  BY <1>9, <1>a, <1>b, Zenon DEF Client!StopEngine, Client!TypeOK, Client!Thread
<1>10. CASE Client!CloseManager
  BY <1>10, <1>a, <1>b, Zenon DEF Client!CloseManager, Client!TypeOK, Client!Thread
<1>11. CASE Client!Destroy
  BY <1>11, <1>a, <1>b, Zenon DEF Client!Destroy, Client!TypeOK, Client!Thread
<1>12. CASE Client!EngineRuns
  BY <1>12, <1>a, <1>b, Zenon DEF Client!EngineRuns, Client!TypeOK, Client!Thread
<1>13. CASE Client!EngineEnds
  BY <1>13, <1>a, <1>b, Zenon DEF Client!EngineEnds, Client!TypeOK, Client!Thread
<1>14. CASE Client!WriteOrder
  <2>1. events' \in 0..MaxEvents
    <3>1. events \in 0..MaxEvents /\ (events' = events \/ (events < MaxEvents /\ events' = events + 1))
      BY <1>14, <1>a, Zenon DEF Client!WriteOrder, Client!TypeOK
    <3> QED
      BY <1>a, <3>1
  <2>2. closed' \in BOOLEAN /\ nullWrite' \in BOOLEAN /\ sending' = FALSE
    BY <1>14, <1>a, Zenon DEF Client!WriteOrder, Client!TypeOK
  <2> QED
    BY <1>14, <1>a, <1>b, <2>1, <2>2, Zenon DEF Client!WriteOrder, Client!TypeOK, Client!Thread
<1>15. CASE Client!PostOrder
  BY <1>15, <1>a, <1>b, Zenon DEF Client!PostOrder, Client!TypeOK, Client!Thread
<1>16. CASE Client!NetworkRuns
  BY <1>16, <1>a, <1>b, Zenon DEF Client!NetworkRuns, Client!TypeOK, Client!Thread
<1>17. CASE Client!NetworkEnds
  BY <1>17, <1>a, <1>b, Zenon DEF Client!NetworkEnds, Client!TypeOK, Client!Thread
<1>18. CASE Client!LoggedIn
  BY <1>18, <1>a, <1>b, Zenon DEF Client!LoggedIn, Client!TypeOK, Client!Thread
<1>19. CASE Client!ConnectionLost
  BY <1>19, <1>a, <1>b DEF Client!ConnectionLost, Client!TypeOK, Client!Thread
<1>20. CASE Client!Command
  BY <1>20, <1>a, <1>b DEF Client!Command, Client!TypeOK, Client!Thread
<1>21. CASE Client!Oversleep
  BY <1>21, <1>a, <1>b, Zenon DEF Client!Oversleep, Client!TypeOK, Client!Thread
<1>22. CASE Client!PeerWrites
  BY <1>22, <1>a, <1>b, Zenon DEF Client!PeerWrites, Client!TypeOK, Client!Thread
<1> QED
  BY <1>1, <1>2, <1>3, <1>4, <1>5, <1>6, <1>7, <1>8, <1>9, <1>10, <1>11, <1>12, <1>13, <1>14, <1>15, <1>16, <1>17, <1>18, <1>19, <1>20, <1>21, <1>22, Zenon DEF Client!Next, Client!MainNext, Client!EngineNext, Client!NetworkNext

\* The engine is up before the network, and over before the manager closes.
LEMMA ClientThreads ==
  ASSUME Client!ClientInv, Client!Next
  PROVE  Client!NetworkStartsLast' /\ Client!WorkerEndsBeforeClose'
<1>a. Client!TypeOK /\ Client!NetworkStartsLast /\ Client!WorkerEndsBeforeClose /\ Client!StepsInOrder
  BY Zenon DEF Client!ClientInv
<1>b. queue # <<>> => Client!Queued(Head(queue))
  BY <1>a, ClientHead, Zenon
<1>1. CASE Client!Start
  BY <1>1, <1>a, <1>b, Zenon DEF Client!Start, Client!NetworkStartsLast, Client!WorkerEndsBeforeClose, Client!StepsInOrder, Client!INTERNAL_READY
<1>2. CASE Client!TimeTask
  BY <1>2, <1>a, <1>b, Zenon DEF Client!TimeTask, Client!Take, Client!NetworkStartsLast, Client!WorkerEndsBeforeClose, Client!StepsInOrder, Client!INTERNAL_READY
<1>3. CASE Client!ComponentReady
  BY <1>3, <1>a, <1>b, Zenon DEF Client!ComponentReady, Client!Take, Client!NetworkStartsLast, Client!WorkerEndsBeforeClose, Client!StepsInOrder, Client!INTERNAL_READY
<1>4. CASE Client!StateChanged
  BY <1>4, <1>a, <1>b, Zenon DEF Client!StateChanged, Client!Take, Client!NetworkStartsLast, Client!WorkerEndsBeforeClose, Client!StepsInOrder, Client!INTERNAL_READY
<1>5. CASE Client!ConnectionStatus
  BY <1>5, <1>a, <1>b, Zenon DEF Client!ConnectionStatus, Client!Take, Client!NetworkStartsLast, Client!WorkerEndsBeforeClose, Client!StepsInOrder, Client!INTERNAL_READY
<1>6. CASE Client!TradeCommand
  BY <1>6, <1>a, <1>b, Zenon DEF Client!TradeCommand, Client!Take, Client!NetworkStartsLast, Client!WorkerEndsBeforeClose, Client!StepsInOrder, Client!INTERNAL_READY
<1>7. CASE Client!Shutdown
  BY <1>7, <1>a, <1>b, Zenon DEF Client!Shutdown, Client!Take, Client!NetworkStartsLast, Client!WorkerEndsBeforeClose, Client!StepsInOrder, Client!INTERNAL_READY
<1>8. CASE Client!StopIpc
  BY <1>8, <1>a, <1>b, Zenon DEF Client!StopIpc, Client!NetworkStartsLast, Client!WorkerEndsBeforeClose, Client!StepsInOrder, Client!INTERNAL_READY
<1>9. CASE Client!StopEngine
  BY <1>9, <1>a, <1>b, Zenon DEF Client!StopEngine, Client!NetworkStartsLast, Client!WorkerEndsBeforeClose, Client!StepsInOrder, Client!INTERNAL_READY
<1>10. CASE Client!CloseManager
  BY <1>10, <1>a, <1>b, Zenon DEF Client!CloseManager, Client!NetworkStartsLast, Client!WorkerEndsBeforeClose, Client!StepsInOrder, Client!INTERNAL_READY
<1>11. CASE Client!Destroy
  BY <1>11, <1>a, <1>b, Zenon DEF Client!Destroy, Client!NetworkStartsLast, Client!WorkerEndsBeforeClose, Client!StepsInOrder, Client!INTERNAL_READY
<1>12. CASE Client!EngineRuns
  BY <1>12, <1>a, <1>b, Zenon DEF Client!EngineRuns, Client!NetworkStartsLast, Client!WorkerEndsBeforeClose, Client!StepsInOrder, Client!INTERNAL_READY
<1>13. CASE Client!EngineEnds
  BY <1>13, <1>a, <1>b, Zenon DEF Client!EngineEnds, Client!NetworkStartsLast, Client!WorkerEndsBeforeClose, Client!StepsInOrder, Client!INTERNAL_READY
<1>14. CASE Client!WriteOrder
  BY <1>14, <1>a, <1>b, Zenon DEF Client!WriteOrder, Client!NetworkStartsLast, Client!WorkerEndsBeforeClose, Client!StepsInOrder, Client!INTERNAL_READY
<1>15. CASE Client!PostOrder
  BY <1>15, <1>a, <1>b, Zenon DEF Client!PostOrder, Client!NetworkStartsLast, Client!WorkerEndsBeforeClose, Client!StepsInOrder, Client!INTERNAL_READY
<1>16. CASE Client!NetworkRuns
  BY <1>16, <1>a, <1>b, Zenon DEF Client!NetworkRuns, Client!NetworkStartsLast, Client!WorkerEndsBeforeClose, Client!StepsInOrder, Client!INTERNAL_READY
<1>17. CASE Client!NetworkEnds
  BY <1>17, <1>a, <1>b, Zenon DEF Client!NetworkEnds, Client!NetworkStartsLast, Client!WorkerEndsBeforeClose, Client!StepsInOrder, Client!INTERNAL_READY
<1>18. CASE Client!LoggedIn
  BY <1>18, <1>a, <1>b, Zenon DEF Client!LoggedIn, Client!NetworkStartsLast, Client!WorkerEndsBeforeClose, Client!StepsInOrder, Client!INTERNAL_READY
<1>19. CASE Client!ConnectionLost
  BY <1>19, <1>a, <1>b, Zenon DEF Client!ConnectionLost, Client!NetworkStartsLast, Client!WorkerEndsBeforeClose, Client!StepsInOrder, Client!INTERNAL_READY
<1>20. CASE Client!Command
  BY <1>20, <1>a, <1>b, Zenon DEF Client!Command, Client!NetworkStartsLast, Client!WorkerEndsBeforeClose, Client!StepsInOrder, Client!INTERNAL_READY
<1>21. CASE Client!Oversleep
  BY <1>21, <1>a, <1>b, Zenon DEF Client!Oversleep, Client!NetworkStartsLast, Client!WorkerEndsBeforeClose, Client!StepsInOrder, Client!INTERNAL_READY
<1>22. CASE Client!PeerWrites
  BY <1>22, <1>a, <1>b, Zenon DEF Client!PeerWrites, Client!NetworkStartsLast, Client!WorkerEndsBeforeClose, Client!StepsInOrder, Client!INTERNAL_READY
<1> QED
  BY <1>1, <1>2, <1>3, <1>4, <1>5, <1>6, <1>7, <1>8, <1>9, <1>10, <1>11, <1>12, <1>13, <1>14, <1>15, <1>16, <1>17, <1>18, <1>19, <1>20, <1>21, <1>22 DEF Client!Next, Client!MainNext, Client!EngineNext, Client!NetworkNext

\* Orders find their channel until the loss is handled.
LEMMA ClientChannel ==
  ASSUME Client!ClientInv, Client!Next
  PROVE  Client!OrdersHaveChannel'
<1>a. /\ sending \in BOOLEAN /\ nullWrite \in BOOLEAN /\ (sending => engine = "running")
      /\ Client!OrdersHaveChannel /\ Client!WorkerEndsBeforeClose
      /\ sending => upstream \/ lossHandled \/ main \in {"destroyEngine", "destroyManager", "destroyIpc", "gone"}
  BY Zenon DEF Client!ClientInv, Client!TypeOK, Client!StepsInOrder
<1>1. CASE Client!Start
  BY <1>1, <1>a, Zenon DEF Client!Start, Client!WorkerEndsBeforeClose, Client!OrdersHaveChannel
<1>2. CASE Client!TimeTask
  BY <1>2, <1>a, Zenon DEF Client!TimeTask, Client!Take, Client!WorkerEndsBeforeClose, Client!OrdersHaveChannel
<1>3. CASE Client!ComponentReady
  BY <1>3, <1>a, Zenon DEF Client!ComponentReady, Client!Take, Client!WorkerEndsBeforeClose, Client!OrdersHaveChannel
<1>4. CASE Client!StateChanged
  BY <1>4, <1>a, Zenon DEF Client!StateChanged, Client!Take, Client!WorkerEndsBeforeClose, Client!OrdersHaveChannel
<1>5. CASE Client!ConnectionStatus
  BY <1>5, <1>a, Zenon DEF Client!ConnectionStatus, Client!Take, Client!WorkerEndsBeforeClose, Client!OrdersHaveChannel
<1>6. CASE Client!TradeCommand
  BY <1>6, <1>a, Zenon DEF Client!TradeCommand, Client!Take, Client!WorkerEndsBeforeClose, Client!OrdersHaveChannel
<1>7. CASE Client!Shutdown
  BY <1>7, <1>a, Zenon DEF Client!Shutdown, Client!Take, Client!WorkerEndsBeforeClose, Client!OrdersHaveChannel
<1>8. CASE Client!StopIpc
  BY <1>8, <1>a, Zenon DEF Client!StopIpc, Client!WorkerEndsBeforeClose, Client!OrdersHaveChannel
<1>9. CASE Client!StopEngine
  BY <1>9, <1>a, Zenon DEF Client!StopEngine, Client!WorkerEndsBeforeClose, Client!OrdersHaveChannel
<1>10. CASE Client!CloseManager
  BY <1>10, <1>a, Zenon DEF Client!CloseManager, Client!WorkerEndsBeforeClose, Client!OrdersHaveChannel
<1>11. CASE Client!Destroy
  BY <1>11, <1>a, Zenon DEF Client!Destroy, Client!WorkerEndsBeforeClose, Client!OrdersHaveChannel
<1>12. CASE Client!EngineRuns
  BY <1>12, <1>a, Zenon DEF Client!EngineRuns, Client!WorkerEndsBeforeClose, Client!OrdersHaveChannel
<1>13. CASE Client!EngineEnds
  BY <1>13, <1>a, Zenon DEF Client!EngineEnds, Client!WorkerEndsBeforeClose, Client!OrdersHaveChannel
<1>14. CASE Client!WriteOrder
  BY <1>14, <1>a, Zenon DEF Client!WriteOrder, Client!WorkerEndsBeforeClose, Client!OrdersHaveChannel
<1>15. CASE Client!PostOrder
  BY <1>15, <1>a, Zenon DEF Client!PostOrder, Client!WorkerEndsBeforeClose, Client!OrdersHaveChannel
<1>16. CASE Client!NetworkRuns
  BY <1>16, <1>a, Zenon DEF Client!NetworkRuns, Client!WorkerEndsBeforeClose, Client!OrdersHaveChannel
<1>17. CASE Client!NetworkEnds
  BY <1>17, <1>a, Zenon DEF Client!NetworkEnds, Client!WorkerEndsBeforeClose, Client!OrdersHaveChannel
<1>18. CASE Client!LoggedIn
  BY <1>18, <1>a, Zenon DEF Client!LoggedIn, Client!WorkerEndsBeforeClose, Client!OrdersHaveChannel
<1>19. CASE Client!ConnectionLost
  BY <1>19, <1>a, Zenon DEF Client!ConnectionLost, Client!WorkerEndsBeforeClose, Client!OrdersHaveChannel
<1>20. CASE Client!Command
  BY <1>20, <1>a, Zenon DEF Client!Command, Client!WorkerEndsBeforeClose, Client!OrdersHaveChannel
<1>21. CASE Client!Oversleep
  BY <1>21, <1>a, Zenon DEF Client!Oversleep, Client!WorkerEndsBeforeClose, Client!OrdersHaveChannel
<1>22. CASE Client!PeerWrites
  BY <1>22, <1>a, Zenon DEF Client!PeerWrites, Client!WorkerEndsBeforeClose, Client!OrdersHaveChannel
<1> QED
  BY <1>1, <1>2, <1>3, <1>4, <1>5, <1>6, <1>7, <1>8, <1>9, <1>10, <1>11, <1>12, <1>13, <1>14, <1>15, <1>16, <1>17, <1>18, <1>19, <1>20, <1>21, <1>22 DEF Client!Next, Client!MainNext, Client!EngineNext, Client!NetworkNext

\* The engine is ready when it runs, and the network joined before the manager
\* closes.
LEMMA ClientReady ==
  ASSUME Client!ClientInv, Client!Next
  PROVE  /\ main' = "start" => engine' = "none" /\ ipc' = "none"
         /\ "Engine" \in ready' \/ Client!Queued("Engine")' => engine' \in {"running", "ended"}
         /\ Transport = "shm" /\ main' \in {"close", "destroyEngine"} => ipc' \in {"none", "ended"}
<1>a. /\ Client!NetworkStartsLast
      /\ main = "start" => engine = "none" /\ ipc = "none"
      /\ "Engine" \in ready \/ Client!Queued("Engine") => engine \in {"running", "ended"}
      /\ Transport = "shm" /\ main \in {"close", "destroyEngine"} => ipc \in {"none", "ended"}
  BY Zenon DEF Client!ClientInv, Client!StepsInOrder
<1>b. queue # <<>> => Client!Queued(Head(queue))
  BY ClientHead, Zenon DEF Client!ClientInv
<1>c. Client!Queued("Engine")' => Client!Queued("Engine") \/ Client!EngineRuns
  BY ClientQueue, Zenon DEF Client!ClientInv
<1>1. CASE Client!Start
  BY <1>1, <1>a, <1>b, <1>c, Zenon DEF Client!Start, Client!NetworkStartsLast, Client!EngineRuns
<1>2. CASE Client!TimeTask
  BY <1>2, <1>a, <1>b, <1>c, Zenon DEF Client!TimeTask, Client!Take, Client!NetworkStartsLast, Client!EngineRuns
<1>3. CASE Client!ComponentReady
  BY <1>3, <1>a, <1>b, <1>c, Zenon DEF Client!ComponentReady, Client!Take, Client!NetworkStartsLast, Client!EngineRuns
<1>4. CASE Client!StateChanged
  BY <1>4, <1>a, <1>b, <1>c DEF Client!StateChanged, Client!Take, Client!NetworkStartsLast, Client!EngineRuns
<1>5. CASE Client!ConnectionStatus
  BY <1>5, <1>a, <1>b, <1>c, Zenon DEF Client!ConnectionStatus, Client!Take, Client!NetworkStartsLast, Client!EngineRuns
<1>6. CASE Client!TradeCommand
  BY <1>6, <1>a, <1>b, <1>c, Zenon DEF Client!TradeCommand, Client!Take, Client!NetworkStartsLast, Client!EngineRuns
<1>7. CASE Client!Shutdown
  BY <1>7, <1>a, <1>b, <1>c DEF Client!Shutdown, Client!Take, Client!NetworkStartsLast, Client!EngineRuns
<1>8. CASE Client!StopIpc
  BY <1>8, <1>a, <1>b, <1>c DEF Client!StopIpc, Client!NetworkStartsLast, Client!EngineRuns
<1>9. CASE Client!StopEngine
  BY <1>9, <1>a, <1>b, <1>c DEF Client!StopEngine, Client!NetworkStartsLast, Client!EngineRuns
<1>10. CASE Client!CloseManager
  BY <1>10, <1>a, <1>b, <1>c DEF Client!CloseManager, Client!NetworkStartsLast, Client!EngineRuns
<1>11. CASE Client!Destroy
  BY <1>11, <1>a, <1>b, <1>c DEF Client!Destroy, Client!NetworkStartsLast, Client!EngineRuns
<1>12. CASE Client!EngineRuns
  BY <1>12, <1>a, <1>b, <1>c DEF Client!EngineRuns, Client!NetworkStartsLast, Client!EngineRuns
<1>13. CASE Client!EngineEnds
  BY <1>13, <1>a, <1>b, <1>c DEF Client!EngineEnds, Client!NetworkStartsLast, Client!EngineRuns
<1>14. CASE Client!WriteOrder
  BY <1>14, <1>a, <1>b, <1>c, Zenon DEF Client!WriteOrder, Client!NetworkStartsLast, Client!EngineRuns
<1>15. CASE Client!PostOrder
  BY <1>15, <1>a, <1>b, <1>c DEF Client!PostOrder, Client!NetworkStartsLast, Client!EngineRuns
<1>16. CASE Client!NetworkRuns
  BY <1>16, <1>a, <1>b, <1>c DEF Client!NetworkRuns, Client!NetworkStartsLast, Client!EngineRuns
<1>17. CASE Client!NetworkEnds
  BY <1>17, <1>a, <1>b, <1>c, Zenon DEF Client!NetworkEnds, Client!NetworkStartsLast, Client!EngineRuns
<1>18. CASE Client!LoggedIn
  BY <1>18, <1>a, <1>b, <1>c, Zenon DEF Client!LoggedIn, Client!NetworkStartsLast, Client!EngineRuns
<1>19. CASE Client!ConnectionLost
  BY <1>19, <1>a, <1>b, <1>c DEF Client!ConnectionLost, Client!NetworkStartsLast, Client!EngineRuns
<1>20. CASE Client!Command
  BY <1>20, <1>a, <1>b, <1>c DEF Client!Command, Client!NetworkStartsLast, Client!EngineRuns
<1>21. CASE Client!Oversleep
  BY <1>21, <1>a, <1>b, <1>c, Zenon DEF Client!Oversleep, Client!NetworkStartsLast, Client!EngineRuns
<1>22. CASE Client!PeerWrites
  BY <1>22, <1>a, <1>b, <1>c, Zenon DEF Client!PeerWrites, Client!NetworkStartsLast, Client!EngineRuns
<1> QED
  BY <1>1, <1>2, <1>3, <1>4, <1>5, <1>6, <1>7, <1>8, <1>9, <1>10, <1>11, <1>12, <1>13, <1>14, <1>15, <1>16, <1>17, <1>18, <1>19, <1>20, <1>21, <1>22, Zenon DEF Client!Next, Client!MainNext, Client!EngineNext, Client!NetworkNext

\* Whoever counts on the channel has it.
LEMMA ClientCounts ==
  ASSUME Client!ClientInv, Client!Next
  PROVE  state' = "Connected" \/ trading' \/ sending' \/ Client!Queued("Connected")' =>
           upstream' \/ lossHandled' \/ main' \in {"destroyEngine", "destroyManager", "destroyIpc", "gone"}
<1>a. /\ state = "Connected" \/ trading \/ sending \/ Client!Queued("Connected") =>
           upstream \/ lossHandled \/ main \in {"destroyEngine", "destroyManager", "destroyIpc", "gone"}
      /\ Client!WorkerEndsBeforeClose
  BY Zenon DEF Client!ClientInv, Client!StepsInOrder
<1>b. queue # <<>> => Client!Queued(Head(queue))
  BY ClientHead, Zenon DEF Client!ClientInv
<1>c. Client!Queued("Connected")' => Client!Queued("Connected") \/ upstream'
  BY ClientQueue, Zenon DEF Client!ClientInv
<1>1. CASE Client!Start
  BY <1>1, <1>a, <1>b, <1>c, Zenon DEF Client!Start, Client!WorkerEndsBeforeClose
<1>2. CASE Client!TimeTask
  BY <1>2, <1>a, <1>b, <1>c, Zenon DEF Client!TimeTask, Client!Take, Client!WorkerEndsBeforeClose
<1>3. CASE Client!ComponentReady
  BY <1>3, <1>a, <1>b, <1>c, Zenon DEF Client!ComponentReady, Client!Take, Client!WorkerEndsBeforeClose
<1>4. CASE Client!StateChanged
  BY <1>4, <1>a, <1>b, <1>c DEF Client!StateChanged, Client!Take, Client!WorkerEndsBeforeClose
<1>5. CASE Client!ConnectionStatus
  BY <1>5, <1>a, <1>b, <1>c, Zenon DEF Client!ConnectionStatus, Client!Take, Client!WorkerEndsBeforeClose
<1>6. CASE Client!TradeCommand
  BY <1>6, <1>a, <1>b, <1>c, Zenon DEF Client!TradeCommand, Client!Take, Client!WorkerEndsBeforeClose
<1>7. CASE Client!Shutdown
  BY <1>7, <1>a, <1>b, <1>c, Zenon DEF Client!Shutdown, Client!Take, Client!WorkerEndsBeforeClose
<1>8. CASE Client!StopIpc
  BY <1>8, <1>a, <1>b, <1>c DEF Client!StopIpc, Client!WorkerEndsBeforeClose
<1>9. CASE Client!StopEngine
  BY <1>9, <1>a, <1>b, <1>c DEF Client!StopEngine, Client!WorkerEndsBeforeClose
<1>10. CASE Client!CloseManager
  BY <1>10, <1>a, <1>b, <1>c DEF Client!CloseManager, Client!WorkerEndsBeforeClose
<1>11. CASE Client!Destroy
  BY <1>11, <1>a, <1>b, <1>c, Zenon DEF Client!Destroy, Client!WorkerEndsBeforeClose
<1>12. CASE Client!EngineRuns
  BY <1>12, <1>a, <1>b, <1>c, Zenon DEF Client!EngineRuns, Client!WorkerEndsBeforeClose
<1>13. CASE Client!EngineEnds
  BY <1>13, <1>a, <1>b, <1>c, Zenon DEF Client!EngineEnds, Client!WorkerEndsBeforeClose
<1>14. CASE Client!WriteOrder
  BY <1>14, <1>a, <1>b, <1>c, Zenon DEF Client!WriteOrder, Client!WorkerEndsBeforeClose
<1>15. CASE Client!PostOrder
  BY <1>15, <1>a, <1>b, <1>c, Zenon DEF Client!PostOrder, Client!WorkerEndsBeforeClose
<1>16. CASE Client!NetworkRuns
  BY <1>16, <1>a, <1>b, <1>c, Zenon DEF Client!NetworkRuns, Client!WorkerEndsBeforeClose
<1>17. CASE Client!NetworkEnds
  BY <1>17, <1>a, <1>b, <1>c DEF Client!NetworkEnds, Client!WorkerEndsBeforeClose
<1>18. CASE Client!LoggedIn
  BY <1>18, <1>a, <1>b, <1>c, Zenon DEF Client!LoggedIn, Client!WorkerEndsBeforeClose
<1>19. CASE Client!ConnectionLost
  BY <1>19, <1>a, <1>b, <1>c DEF Client!ConnectionLost, Client!WorkerEndsBeforeClose
<1>20. CASE Client!Command
  BY <1>20, <1>a, <1>b, <1>c DEF Client!Command, Client!WorkerEndsBeforeClose
<1>21. CASE Client!Oversleep
  BY <1>21, <1>a, <1>b, <1>c, Zenon DEF Client!Oversleep, Client!WorkerEndsBeforeClose
<1>22. CASE Client!PeerWrites
  BY <1>22, <1>a, <1>b, <1>c, Zenon DEF Client!PeerWrites, Client!WorkerEndsBeforeClose
<1> QED
  BY <1>1, <1>2, <1>3, <1>4, <1>5, <1>6, <1>7, <1>8, <1>9, <1>10, <1>11, <1>12, <1>13, <1>14, <1>15, <1>16, <1>17, <1>18, <1>19, <1>20, <1>21, <1>22, Zenon DEF Client!Next, Client!MainNext, Client!EngineNext, Client!NetworkNext

\* Over shared memory the network is over before its engine is destroyed.
LEMMA ClientJoins ==
  ASSUME Client!ClientInv, Client!Next, Transport = "shm"
  PROVE  Client!EngineOutlivesNetwork'
<1>a. /\ Client!EngineOutlivesNetwork
      /\ main \in {"close", "destroyEngine"} => ipc \in {"none", "ended"}
  BY Zenon DEF Client!ClientInv, Client!StepsInOrder
<1>1. CASE Client!Start
  BY <1>1, <1>a, Zenon DEF Client!Start, Client!EngineOutlivesNetwork
<1>2. CASE Client!TimeTask
  BY <1>2, <1>a, Zenon DEF Client!TimeTask, Client!Take, Client!EngineOutlivesNetwork
<1>3. CASE Client!ComponentReady
  BY <1>3, <1>a, Zenon DEF Client!ComponentReady, Client!Take, Client!EngineOutlivesNetwork
<1>4. CASE Client!StateChanged
  BY <1>4, <1>a, Zenon DEF Client!StateChanged, Client!Take, Client!EngineOutlivesNetwork
<1>5. CASE Client!ConnectionStatus
  BY <1>5, <1>a, Zenon DEF Client!ConnectionStatus, Client!Take, Client!EngineOutlivesNetwork
<1>6. CASE Client!TradeCommand
  BY <1>6, <1>a, Zenon DEF Client!TradeCommand, Client!Take, Client!EngineOutlivesNetwork
<1>7. CASE Client!Shutdown
  BY <1>7, <1>a, Zenon DEF Client!Shutdown, Client!Take, Client!EngineOutlivesNetwork
<1>8. CASE Client!StopIpc
  BY <1>8, <1>a, Zenon DEF Client!StopIpc, Client!EngineOutlivesNetwork
<1>9. CASE Client!StopEngine
  BY <1>9, <1>a, Zenon DEF Client!StopEngine, Client!EngineOutlivesNetwork
<1>10. CASE Client!CloseManager
  BY <1>10, <1>a, Zenon DEF Client!CloseManager, Client!EngineOutlivesNetwork
<1>11. CASE Client!Destroy
  BY <1>11, <1>a, Zenon DEF Client!Destroy, Client!EngineOutlivesNetwork
<1>12. CASE Client!EngineRuns
  BY <1>12, <1>a, Zenon DEF Client!EngineRuns, Client!EngineOutlivesNetwork
<1>13. CASE Client!EngineEnds
  BY <1>13, <1>a, Zenon DEF Client!EngineEnds, Client!EngineOutlivesNetwork
<1>14. CASE Client!WriteOrder
  BY <1>14, <1>a, Zenon DEF Client!WriteOrder, Client!EngineOutlivesNetwork
<1>15. CASE Client!PostOrder
  BY <1>15, <1>a, Zenon DEF Client!PostOrder, Client!EngineOutlivesNetwork
<1>16. CASE Client!NetworkRuns
  BY <1>16, <1>a, Zenon DEF Client!NetworkRuns, Client!EngineOutlivesNetwork
<1>17. CASE Client!NetworkEnds
  BY <1>17, <1>a, Zenon DEF Client!NetworkEnds, Client!EngineOutlivesNetwork
<1>18. CASE Client!LoggedIn
  BY <1>18, <1>a, Zenon DEF Client!LoggedIn, Client!EngineOutlivesNetwork
<1>19. CASE Client!ConnectionLost
  BY <1>19, <1>a, Zenon DEF Client!ConnectionLost, Client!EngineOutlivesNetwork
<1>20. CASE Client!Command
  BY <1>20, <1>a, Zenon DEF Client!Command, Client!EngineOutlivesNetwork
<1>21. CASE Client!Oversleep
  BY <1>21, <1>a, Zenon DEF Client!Oversleep, Client!EngineOutlivesNetwork
<1>22. CASE Client!PeerWrites
  BY <1>22, <1>a, Zenon DEF Client!PeerWrites, Client!EngineOutlivesNetwork
<1> QED
  BY <1>1, <1>2, <1>3, <1>4, <1>5, <1>6, <1>7, <1>8, <1>9, <1>10, <1>11, <1>12, <1>13, <1>14, <1>15, <1>16, <1>17, <1>18, <1>19, <1>20, <1>21, <1>22 DEF Client!Next, Client!MainNext, Client!EngineNext, Client!NetworkNext

(* Over both transports, however commands, losses and the three threads mix:  *)
(* the client's network starts behind the engine, an order is written through *)
(* a null channel only after a loss was handled, and the worker is over before*)
(* the connection manager closes.                                             *)
THEOREM ClientKeepsItsOrder ==
  ASSUME Client!ClientConstants
  PROVE  Client!Spec => []Client!ClientInv
<1>1. Client!Init => Client!ClientInv
  <2> SUFFICES ASSUME Client!Init PROVE Client!ClientInv
    BY Zenon
  <2>1. queue = <<"time">> /\ queue \in Seq(Client!Tasks)
    BY DEF Client!Init, Client!Tasks
  <2>2. Client!TypeOK
    <3>1. events \in 0..MaxEvents
      BY DEF Client!Init, Client!ClientConstants
    <3> QED
      BY <2>1, <3>1, Zenon DEF Client!Init, Client!TypeOK, Client!Thread
  <2>3. ~Client!Queued("Engine") /\ ~Client!Queued("Connected")
    BY <2>1 DEF Client!Queued
  <2>4. Client!StepsInOrder
    BY <2>3, Zenon DEF Client!Init, Client!StepsInOrder
  <2> QED
    BY <2>2, <2>4, Zenon DEF Client!Init, Client!ClientInv, Client!NetworkStartsLast, Client!OrdersHaveChannel,
                      Client!WorkerEndsBeforeClose, Client!EngineOutlivesNetwork
<1>2. Client!ClientInv /\ [Client!Next]_(Client!vars) => Client!ClientInv'
  <2> SUFFICES ASSUME Client!ClientInv, [Client!Next]_(Client!vars) PROVE Client!ClientInv'
    BY Zenon
  <2>1. CASE Client!Next
    <3>1. Client!StepsInOrder'
      BY <2>1, ClientReady, ClientCounts, Zenon DEF Client!StepsInOrder
    <3> QED
      BY <2>1, <3>1, ClientTypes, ClientThreads, ClientChannel, ClientJoins DEF Client!ClientInv
  <2>2. CASE UNCHANGED Client!vars
    BY <2>2 DEF Client!vars, Client!ClientInv, Client!TypeOK, Client!NetworkStartsLast, Client!OrdersHaveChannel,
                Client!WorkerEndsBeforeClose, Client!EngineOutlivesNetwork, Client!StepsInOrder, Client!Queued
  <2> QED
    BY <2>1, <2>2, Zenon
<1> QED
  BY <1>1, <1>2, PTL DEF Client!Spec
-----------------------------------------------------------------------------
(* The price feed *)

\* The trends a ticker can have at time n.
Trends(n) == [price : Nat, rate : Rates, duration : 1..MAX_DURATION_US, lastUpdate : 0..n]

\* No trend takes a price further than the fastest one.
LEMMA RateBound ==
  ASSUME NEW m \in Nat, NEW r \in (-m)..m, NEW d \in Nat
  PROVE  r * d \in Int /\ r * d >= -(m * d) /\ m * d \in Nat
<1>1. r + m \in Nat /\ m * d \in Nat /\ r * d \in Int
  OBVIOUS
<1>2. (r + m) * d \in Nat
  BY <1>1
<1>3. (r + m) * d = r * d + m * d
  BY <1>1
<1> QED
  BY <1>1, <1>2, <1>3

\* One update of a ticker: the trend that results is one of those there can be,
\* and its price within the reach of the time that passed.
LEMMA TickerUpdate ==
  ASSUME FeedConstants, now \in 0..MAX_TIME, NEW f \in Trends(now),
         f.price >= 2 * BASE - MAX_RATE * f.lastUpdate, NEW g \in Updates(f)
  PROVE  g \in Trends(now) /\ g.lastUpdate = now /\ g.price >= 2 * BASE - MAX_RATE * now
<1>1. /\ MAX_RATE \in Nat /\ MAX_TIME \in Nat /\ BASE \in Nat /\ now \in Nat /\ now <= MAX_TIME
      /\ MAX_RATE * MAX_TIME <= 2 * BASE
      /\ MIN_DURATION_US \in Nat \ {0} /\ MAX_DURATION_US \in Nat
  BY DEF FeedConstants
<1>2. /\ f.price \in Nat /\ f.rate \in (-MAX_RATE)..MAX_RATE /\ f.duration \in 1..MAX_DURATION_US /\ f.lastUpdate \in 0..now
      /\ f = [price |-> f.price, rate |-> f.rate, duration |-> f.duration, lastUpdate |-> f.lastUpdate]
  BY Zenon DEF Trends, Rates
<1>3. PICK delta : delta = IF f.duration > now - f.lastUpdate THEN now - f.lastUpdate ELSE f.duration
  BY Zenon
<1>11. delta \in Nat /\ delta <= now - f.lastUpdate /\ delta <= f.duration
  BY <1>1, <1>2, <1>3
<1>12. Advance(f) = [f EXCEPT !.price = f.price + f.rate * delta, !.duration = f.duration - delta]
  BY <1>3, Zenon DEF Advance
<1>4. PICK p \in Nat : p = f.price + f.rate * delta /\ p >= 2 * BASE - MAX_RATE * now
  <2>1. f.rate * delta \in Int /\ f.rate * delta >= -(MAX_RATE * delta) /\ MAX_RATE * delta \in Nat
    BY <1>1, <1>2, <1>11, RateBound
  <2>2. MAX_RATE * (f.lastUpdate + delta) = MAX_RATE * f.lastUpdate + MAX_RATE * delta
    BY <1>1, <1>2, <1>11
  <2>3. MAX_RATE * (f.lastUpdate + delta) <= MAX_RATE * now /\ MAX_RATE * now <= MAX_RATE * MAX_TIME
    <3>1. f.lastUpdate + delta \in Nat /\ f.lastUpdate + delta <= now
      BY <1>1, <1>2, <1>11
    <3>2. (f.lastUpdate + delta) * MAX_RATE <= now * MAX_RATE /\ now * MAX_RATE <= MAX_TIME * MAX_RATE
      BY <1>1, <3>1, TimesGrows, Zenon
    <3> QED
      BY <1>1, <3>1, <3>2
  <2>4. MAX_RATE * f.lastUpdate \in Nat /\ MAX_RATE * now \in Nat /\ MAX_RATE * MAX_TIME \in Nat
    BY <1>1, <1>2
  <2> QED
    BY <1>1, <1>2, <2>1, <2>2, <2>3, <2>4
<1>5. PICK h : h = [price |-> p, rate |-> f.rate, duration |-> f.duration - delta, lastUpdate |-> f.lastUpdate]
  BY Zenon
<1>6. Advance(f) = h
  BY <1>2, <1>12, <1>4, <1>5, Zenon
<1>7. CASE h.duration = 0
  <2>1. g \in [price : {p}, rate : Rates, duration : Durations, lastUpdate : {now}]
    BY <1>5, <1>6, <1>7 DEF Updates
  <2>2. Durations \subseteq 1..MAX_DURATION_US /\ now \in 0..now
    BY <1>1 DEF Durations
  <2> QED
    BY <1>4, <2>1, <2>2, Zenon DEF Trends
<1>8. CASE h.duration # 0
  <2>1. g = [h EXCEPT !.lastUpdate = now]
    BY <1>6, <1>8, Zenon DEF Updates
  <2>2. f.duration - delta \in 1..MAX_DURATION_US
    BY <1>1, <1>2, <1>11, <1>5, <1>8
  <2>3. g = [price |-> p, rate |-> f.rate, duration |-> f.duration - delta, lastUpdate |-> now]
    BY <1>5, <2>1, Zenon
  <2>4. f.rate \in Rates
    BY Zenon DEF Trends
  <2> QED
    BY <1>1, <1>4, <2>2, <2>3, <2>4 DEF Trends
<1> QED
  BY <1>7, <1>8, Zenon

\* The handler of the timer: every trend stays one there can be, and what is
\* posted is the price, unless that is the price of the database.
LEMMA FeedUpdates ==
  ASSUME FeedConstants, FeedInv, updatePrices, now' = now
  PROVE  /\ trend' \in [FeedTickers -> Trends(now)] /\ published' \in [FeedTickers -> Nat]
         /\ PublishedOrBase' /\ PriceWithinReach'
<1>1. /\ now \in 0..MAX_TIME /\ trend \in [FeedTickers -> Trends(now)] /\ published \in [FeedTickers -> Nat]
      /\ PriceWithinReach
  BY Zenon DEF FeedInv, FeedTypeOK, Trends
<1>2. /\ DOMAIN trend' = FeedTickers /\ trend' = [t \in FeedTickers |-> trend'[t]]
      /\ \A t \in FeedTickers : trend'[t] \in Updates(trend[t])
  BY Zenon DEF updatePrices
<1>3. \A t \in FeedTickers : /\ trend'[t] \in Trends(now) /\ trend'[t].lastUpdate = now
                             /\ trend'[t].price >= 2 * BASE - MAX_RATE * now
  <2> SUFFICES ASSUME NEW t \in FeedTickers
               PROVE  /\ trend'[t] \in Trends(now) /\ trend'[t].lastUpdate = now
                      /\ trend'[t].price >= 2 * BASE - MAX_RATE * now
    BY Zenon
  <2>1. trend[t] \in Trends(now) /\ trend[t].price >= 2 * BASE - MAX_RATE * trend[t].lastUpdate
    BY <1>1, Zenon DEF PriceWithinReach
  <2> QED
    BY <1>1, <1>2, <2>1, TickerUpdate
<1>4. trend' \in [FeedTickers -> Trends(now)]
  BY <1>2, <1>3, Zenon
<1>5. PriceWithinReach'
  BY <1>3, Zenon DEF PriceWithinReach
<1>6. \A t \in FeedTickers : getPrice(trend'[t]) \in Nat
  <2> SUFFICES ASSUME NEW t \in FeedTickers PROVE getPrice(trend'[t]) \in Nat
    BY Zenon
  <2>1. trend'[t].price \in Nat
    BY <1>3, Zenon DEF Trends
  <2> QED
    BY <2>1 DEF getPrice
<1>7. published' = [t \in FeedTickers |-> IF getPrice(trend'[t]) # BASE THEN getPrice(trend'[t]) ELSE published[t]]
  BY Zenon DEF updatePrices, Changed
<1>8. published' \in [FeedTickers -> Nat]
  BY <1>1, <1>6, <1>7, Zenon
<1>9. PublishedOrBase'
  <2>1. \A t \in FeedTickers : getPrice(trend'[t]) \in {published'[t], BASE}
    BY <1>7, Zenon
  <2> QED
    BY <2>1, Zenon DEF PublishedOrBase, getPrice
<1> QED
  BY <1>4, <1>5, <1>8, <1>9
\* A timer handler that is queued stays queued behind what is posted.
LEMMA TimerStays ==
  ASSUME calls \in Seq({"start", "stop", "timer"}), NEW x \in {"start", "stop", "timer"}, calls' = Append(calls, x)
  PROVE  /\ calls' \in Seq({"start", "stop", "timer"})
         /\ Timers # {} \/ x = "timer" => Timers' # {}
<1>1. /\ calls' \in Seq({"start", "stop", "timer"}) /\ Len(calls') = Len(calls) + 1 /\ Len(calls) \in Nat
      /\ \A k \in 1..Len(calls) + 1 : calls'[k] = IF k <= Len(calls) THEN calls[k] ELSE x
  BY Posts
<1>2. DOMAIN calls = 1..Len(calls) /\ DOMAIN calls' = 1..Len(calls')
  BY <1>1
<1>3. ASSUME NEW k \in DOMAIN calls, calls[k] = "timer" PROVE k \in DOMAIN calls' /\ calls'[k] = "timer"
  BY <1>1, <1>2, <1>3
<1>4. x = "timer" => Len(calls) + 1 \in DOMAIN calls' /\ calls'[Len(calls) + 1] = "timer"
  BY <1>1, <1>2
<1> QED
  BY <1>1, <1>3, <1>4, Zenon DEF Timers

(* Whatever the tickers, the trends drawn and the mix of commands and expiries*)
(* a running feed goes on, no price falls below zero, and the price posted    *)
(* last is the current one or that of the database.                           *)
THEOREM FeedStaysAlive == FeedSpec => []FeedInv
<1> USE FeedAssumption
<1>1. FeedInit => FeedInv
  <2> SUFFICES ASSUME FeedInit PROVE FeedInv
    BY Zenon
  <2>1. /\ MAX_TIME \in Nat /\ MAX_COMMANDS \in Nat /\ BASE \in Nat /\ MAX_RATE \in Nat
        /\ MIN_DURATION_US \in Nat \ {0} /\ MAX_DURATION_US \in Nat
    BY Zenon DEF FeedConstants
  <2>2. \A t \in FeedTickers : /\ trend[t].price = 2 * BASE /\ trend[t].lastUpdate = 0
                               /\ trend[t] \in [price : Nat, rate : Rates, duration : 1..MAX_DURATION_US, lastUpdate : 0..now]
    <3> SUFFICES ASSUME NEW t \in FeedTickers
                 PROVE  /\ trend[t].price = 2 * BASE /\ trend[t].lastUpdate = 0
                        /\ trend[t] \in [price : Nat, rate : Rates, duration : 1..MAX_DURATION_US, lastUpdate : 0..now]
      BY Zenon
    <3>1. trend[t] \in [price : {2 * BASE}, rate : Rates, duration : Durations, lastUpdate : {0}] /\ now = 0
      BY Zenon DEF FeedInit
    <3>2. 2 * BASE \in Nat /\ Durations \subseteq 1..MAX_DURATION_US /\ 0 \in 0..now
      BY <2>1, <3>1 DEF Durations
    <3> QED
      BY <3>1, <3>2, Zenon
  <2>3. FeedTypeOK
    <3>1. now \in 0..MAX_TIME /\ commands \in 0..MAX_COMMANDS
      BY <2>1 DEF FeedInit
    <3>2. published \in [FeedTickers -> Nat]
      BY <2>1, Zenon DEF FeedInit
    <3>4. armed \in BOOLEAN /\ updating \in BOOLEAN
      BY Zenon DEF FeedInit
    <3>5. calls \in Seq({"start", "stop", "timer"})
      BY DEF FeedInit
    <3>3. trend = [t \in FeedTickers |-> trend[t]]
      BY Zenon DEF FeedInit
    <3> QED
      BY <2>2, <3>1, <3>2, <3>3, <3>4, <3>5, Zenon DEF FeedTypeOK
  <2>4. FeedAlive
    BY Zenon DEF FeedInit, FeedAlive
  <2>5. PublishedOrBase
    <3>1. (2 * BASE + 1) \div 2 = BASE
      BY <2>1
    <3> QED
      BY <2>2, <3>1, Zenon DEF FeedInit, PublishedOrBase, getPrice
  <2>6. PriceWithinReach
    <3>1. 2 * BASE >= 2 * BASE - MAX_RATE * 0
      BY <2>1
    <3> QED
      BY <2>2, <3>1, Zenon DEF PriceWithinReach
  <2> QED
    BY <2>3, <2>4, <2>5, <2>6, Zenon DEF FeedInv
<1>2. FeedInv /\ [FeedNext]_feedVars => FeedInv'
  <2> SUFFICES ASSUME FeedInv, [FeedNext]_feedVars PROVE FeedInv'
    BY Zenon
  <2>1. FeedTypeOK /\ FeedAlive /\ PublishedOrBase /\ PriceWithinReach
    BY Zenon DEF FeedInv
  <2>2. calls \in Seq({"start", "stop", "timer"}) /\ (calls # <<>> => Tail(calls) \in Seq({"start", "stop", "timer"}))
    BY <2>1, Takes, Zenon DEF FeedTypeOK
  <2>3. ASSUME UNCHANGED <<trend, published>> PROVE PublishedOrBase' /\ PriceWithinReach'
    BY <2>1, <2>3, Zenon DEF PublishedOrBase, PriceWithinReach, getPrice
  <2>4. CASE startFeed
    BY <2>1, <2>2, <2>3, <2>4 DEF startFeed, schedulePriceUpdate, FeedTypeOK, FeedAlive, FeedInv
  <2>5. CASE stopFeed
    BY <2>1, <2>2, <2>3, <2>5, Zenon DEF stopFeed, FeedTypeOK, FeedAlive, FeedInv
  <2>6. CASE OnFeedTimer
    <3>1. /\ trend' \in [FeedTickers -> Trends(now)] /\ published' \in [FeedTickers -> Nat]
          /\ PublishedOrBase' /\ PriceWithinReach'
      BY <2>6, FeedUpdates, Zenon DEF OnFeedTimer
    <3>2. /\ calls # <<>> /\ calls' = Tail(calls) /\ now' = now /\ updating' = updating /\ commands' = commands
          /\ armed' = IF updating THEN TRUE ELSE armed
      BY <2>6, Zenon DEF OnFeedTimer, schedulePriceUpdate
    <3>3. FeedTypeOK'
      BY <2>1, <2>2, <3>1, <3>2, Zenon DEF FeedTypeOK, Trends
    <3>4. FeedAlive'
      BY <3>2, Zenon DEF FeedAlive
    <3> QED
      BY <3>1, <3>3, <3>4, Zenon DEF FeedInv
  <2>7. CASE FeedExpire
    <3>1. /\ calls' = Append(calls, "timer") /\ armed' = FALSE
          /\ UNCHANGED <<now, updating, trend, published, commands>>
      BY <2>7, Zenon DEF FeedExpire
    <3>2. calls' \in Seq({"start", "stop", "timer"}) /\ Timers' # {}
      BY <2>2, <3>1, TimerStays, Zenon
    <3> QED
      BY <2>1, <2>3, <3>1, <3>2, Zenon DEF FeedTypeOK, FeedAlive, FeedInv
  <2>8. CASE Command
    <3>1. PICK c \in {"start", "stop", "timer"} : calls' = Append(calls, c)
      BY <2>8, Zenon DEF Command
    <3>2. calls' \in Seq({"start", "stop", "timer"}) /\ (Timers # {} => Timers' # {})
      BY <2>2, <3>1, TimerStays, Zenon
    <3>3. UNCHANGED <<now, armed, updating, trend, published>> /\ commands' = commands + 1 /\ commands < MAX_COMMANDS
      BY <2>8, Zenon DEF Command
    <3>4. commands' \in 0..MAX_COMMANDS
      BY <2>1, <3>3 DEF FeedTypeOK, FeedConstants
    <3>5. FeedTypeOK' /\ FeedAlive'
      BY <2>1, <3>2, <3>3, <3>4, Zenon DEF FeedTypeOK, FeedAlive
    <3> QED
      BY <2>3, <3>3, <3>5, Zenon DEF FeedInv
  <2>9. CASE Elapse
    <3>1. /\ UNCHANGED <<calls, armed, updating, trend, published, commands>> /\ now' = now + 1 /\ now < MAX_TIME
          /\ now \in 0..MAX_TIME /\ MAX_TIME \in Nat
      BY <2>1, <2>9, Zenon DEF Elapse, FeedTypeOK, FeedConstants
    <3>2. now' \in 0..MAX_TIME /\ 0..now \subseteq 0..now'
      BY <3>1
    <3>3. trend' \in [FeedTickers -> [price : Nat, rate : Rates, duration : 1..MAX_DURATION_US, lastUpdate : 0..now']]
      <4>1. trend \in [FeedTickers -> [price : Nat, rate : Rates, duration : 1..MAX_DURATION_US, lastUpdate : 0..now]]
        BY <2>1, Zenon DEF FeedTypeOK
      <4>2. PICK N, M : N = 0..now /\ M = 0..now' /\ N \subseteq M
        BY <3>2, Zenon
      <4>3. \A t \in FeedTickers : trend[t] \in [price : Nat, rate : Rates, duration : 1..MAX_DURATION_US, lastUpdate : M]
        BY <4>1, <4>2, Zenon
      <4> QED
        BY <3>1, <4>1, <4>2, <4>3
    <3>4. FeedTypeOK' /\ FeedAlive'
      BY <2>1, <3>1, <3>2, <3>3 DEF FeedTypeOK, FeedAlive, Timers
    <3> QED
      BY <2>3, <3>1, <3>4, Zenon DEF FeedInv
  <2>10. CASE UNCHANGED feedVars
    BY <2>1, <2>10, Zenon DEF feedVars, FeedInv, FeedTypeOK, FeedAlive, Timers, PublishedOrBase,
                       PriceWithinReach, getPrice
  <2> QED
    BY <2>4, <2>5, <2>6, <2>7, <2>8, <2>9, <2>10 DEF FeedNext, Handle
<1> QED
  BY <1>1, <1>2, PTL DEF FeedSpec
-----------------------------------------------------------------------------
(* The Kafka adapter *)

Waits == {"waiting", "due", "aborted"}

\* timer_.cancel() on a queue of waits.
LEMMA Cancels ==
  ASSUME NEW ws \in Seq(Waits)
  PROVE  /\ cancelled(ws) \in Seq(Waits) /\ Len(cancelled(ws)) = Len(ws) /\ Len(ws) \in Nat
         /\ DOMAIN ws = 1..Len(ws) /\ DOMAIN cancelled(ws) = 1..Len(ws)
         /\ \A i \in 1..Len(ws) : cancelled(ws)[i] = IF ws[i] = "waiting" THEN "aborted" ELSE ws[i]
         /\ ws = <<>> => cancelled(ws) = <<>>
<1>1. DOMAIN ws = 1..Len(ws) /\ Len(ws) \in Nat /\ \A i \in 1..Len(ws) : ws[i] \in Waits
  OBVIOUS
<1>2. cancelled(ws) = [i \in 1..Len(ws) |-> IF ws[i] = "waiting" THEN "aborted" ELSE ws[i]]
  BY <1>1, Zenon DEF cancelled
<1>3. "aborted" \in Waits
  BY Zenon DEF Waits
<1>4. PICK c : c = cancelled(ws)
  BY Zenon
<1>5. c \in Seq(Waits) /\ Len(c) = Len(ws) /\ DOMAIN c = 1..Len(ws)
  BY <1>1, <1>2, <1>3, <1>4
<1>6. ws = <<>> => c = <<>>
  BY <1>5
<1> QED
  BY <1>1, <1>2, <1>4, <1>5, <1>6

\* schedulePoll when no poll is pending: the new wait is the only one.
LEMMA Schedules ==
  ASSUME waits \in Seq(Waits), \A i \in DOMAIN waits : waits[i] = "aborted",
         waits' = Append(cancelled(waits), "waiting")
  PROVE  /\ waits' \in Seq(Waits)
         /\ \A i, j \in DOMAIN waits' : waits'[i] # "aborted" /\ waits'[j] # "aborted" => i = j
         /\ \E i \in DOMAIN waits' : waits'[i] # "aborted"
<1>1. PICK c \in Seq(Waits) : c = cancelled(waits)
  BY Cancels, Zenon
<1>2. Len(c) = Len(waits) /\ Len(waits) \in Nat /\ \A i \in 1..Len(c) : c[i] = "aborted"
  BY <1>1, Cancels
<1>3. "waiting" \in Waits
  BY Zenon DEF Waits
<1>4. /\ waits' \in Seq(Waits) /\ Len(waits') = Len(c) + 1
      /\ \A k \in 1..Len(c) + 1 : waits'[k] = IF k <= Len(c) THEN c[k] ELSE "waiting"
  BY <1>1, <1>3, Posts
<1>5. DOMAIN waits' = 1..Len(c) + 1
  BY <1>4
<1>6. \A k \in DOMAIN waits' : waits'[k] # "aborted" <=> k = Len(c) + 1
  BY <1>2, <1>4, <1>5
<1>7. Len(c) + 1 \in DOMAIN waits'
  BY <1>2, <1>5
<1> QED
  BY <1>4, <1>6, <1>7

\* stop() cancels: what is aborted stays so, and nothing else comes to be.
LEMMA CancelKeepsChain ==
  ASSUME waits \in Seq(Waits), OnePollChain, waits' = cancelled(waits)
  PROVE  /\ waits' \in Seq(Waits) /\ (waits = <<>> => waits' = <<>>)
         /\ \A i, j \in DOMAIN waits' : waits'[i] # "aborted" /\ waits'[j] # "aborted" => i = j
         /\ chunk # NoPoll => \A i \in DOMAIN waits' : waits'[i] = "aborted"
<1>1. /\ waits' \in Seq(Waits) /\ (waits = <<>> => waits' = <<>>) /\ DOMAIN waits' = DOMAIN waits
      /\ \A i \in DOMAIN waits : waits'[i] = IF waits[i] = "waiting" THEN "aborted" ELSE waits[i]
  BY Cancels, Zenon
<1> QED
  BY <1>1 DEF OnePollChain

\* Two maps with the same entries: what startProduce has inserted.
LEMMA InsertedTopics ==
  ASSUME NEW t
  PROVE  /\ DOMAIN Inserted(t) = DOMAIN produceTopicMap \cup {u \in Topics : u < t}
         /\ \A u \in DOMAIN Inserted(t) : u \notin DOMAIN produceTopicMap => Inserted(t)[u] = starts'
  BY Zenon DEF Inserted

\* start(), whichever step of it fails.
LEMMA StartKeeps ==
  ASSUME KafkaConstants, KafkaInv, StartAdapter
  PROVE  KafkaInv'
<1>1. /\ KafkaTypeOK /\ BothOrNone /\ OnePollChain /\ StartedPolls /\ FirstStart
      /\ FlushedOnceStopped /\ TopicsCovered /\ TopicsConnected /\ NullOnlyByLeftover
  BY Zenon DEF KafkaInv
<1>2. /\ chunk = NoPoll /\ starts < MAX_STARTS /\ starts' = starts + 1
      /\ UNCHANGED <<chunk, broker, consumed, outq, produced, failing, nullProduce>>
  BY Zenon DEF StartAdapter, traffic
<1>3. starts' \in 1..MAX_STARTS /\ starts' \in 0..MAX_STARTS
  BY <1>1, <1>2 DEF KafkaTypeOK, KafkaConstants
<1>4. kevents \in Nat /\ waits \in Seq(Waits)
  BY <1>1 DEF KafkaTypeOK, Waits
<1>5. kevents' \in Nat
  <2>1. kevents' \in {kevents, kevents + 1}
    BY Zenon DEF StartAdapter, Refused, createConsumerFails, createProducerFails, startConsumeFails,
                 startProduceFails, Run, onFatalError
  <2> QED
    BY <1>4, <2>1
<1>6. CASE UNCHANGED <<started, consumer, producer, produceTopicMap, leftover, waits>>
  <2>1. KafkaTypeOK'
    BY <1>1, <1>2, <1>3, <1>5, <1>6 DEF KafkaTypeOK, NoPoll
  <2> QED
    BY <1>1, <1>2, <1>6, <2>1 DEF KafkaInv, BothOrNone, OnePollChain, StartedPolls, FirstStart,
                                  FlushedOnceStopped, TopicsCovered, TopicsConnected, NullOnlyByLeftover, NoPoll
<1>7. CASE startProduceFails
  <2>1. PICK t \in Topics : produceTopicMap' = Inserted(t) /\ leftover' = IF t > 1 THEN TRUE ELSE leftover
    BY <1>7, Zenon DEF startProduceFails
  <2>2. UNCHANGED <<started, consumer, producer, waits>> /\ ~started /\ producer = 0
    BY <1>7, Zenon DEF startProduceFails
  <2>3. DOMAIN produceTopicMap' = DOMAIN produceTopicMap \cup {u \in Topics : u < t}
    BY <2>1, InsertedTopics, Zenon
  <2>4. KafkaTypeOK'
    <3>1. leftover' \in BOOLEAN /\ DOMAIN produceTopicMap' \subseteq Topics
      BY <1>1, <2>1, <2>3, Zenon DEF KafkaTypeOK
    <3> QED
      BY <1>1, <1>2, <1>3, <1>5, <2>2, <3>1, Zenon DEF KafkaTypeOK, NoPoll
  <2>5. ASSUME ~leftover' PROVE DOMAIN produceTopicMap' = {}
    <3>1. ~(t > 1) /\ ~leftover
      BY <2>1, <2>5
    <3>2. {u \in Topics : u < t} = {}
      <4>1. Cardinality(Topics) \in Nat /\ Topics = 1..Cardinality(Topics)
        BY FS_CardinalityType, Zenon DEF KafkaConstants
      <4> QED
        BY <3>1, <4>1
    <3>3. DOMAIN produceTopicMap = {}
      BY <1>1, <2>2, <3>1, Zenon DEF TopicsConnected
    <3> QED
      BY <2>3, <3>2, <3>3, Zenon
  <2>6. TopicsConnected' /\ NullOnlyByLeftover'
    BY <1>1, <1>2, <2>1, <2>2, <2>5, Zenon DEF TopicsConnected, NullOnlyByLeftover
  <2> QED
    BY <1>1, <1>2, <2>2, <2>4, <2>6
       DEF KafkaInv, BothOrNone, OnePollChain, StartedPolls, FirstStart, FlushedOnceStopped, TopicsCovered, NoPoll
<1>8. CASE Run
  <2>1. /\ ~started /\ consumer = 0 /\ producer = 0
        /\ started' = TRUE /\ consumer' = starts' /\ producer' = starts'
        /\ produceTopicMap' = Inserted(Cardinality(Topics) + 1) /\ leftover' = leftover
        /\ waits' = Append(cancelled(waits), "waiting")
    <3>1. /\ ~started /\ consumer = 0 /\ producer = 0
          /\ started' = TRUE /\ consumer' = starts' /\ producer' = starts'
          /\ produceTopicMap' = Inserted(Cardinality(Topics) + 1) /\ leftover' = leftover
      BY <1>8, Zenon DEF Run
    <3>2. waits' = IF started' THEN Append(cancelled(waits), "waiting") ELSE waits
      BY <1>8, Zenon DEF Run, schedulePoll
    <3>3. waits' = Append(cancelled(waits), "waiting")
      BY <3>1, <3>2, Zenon
    <3> QED
      BY <3>1, <3>3, Zenon
  <2>2. waits = <<>>
    BY <1>1, <2>1, Zenon DEF FirstStart
  <2>3. \A i \in DOMAIN waits : waits[i] = "aborted"
    BY <2>2
  <2>4. /\ waits' \in Seq(Waits)
        /\ \A i, j \in DOMAIN waits' : waits'[i] # "aborted" /\ waits'[j] # "aborted" => i = j
        /\ \E i \in DOMAIN waits' : waits'[i] # "aborted"
    BY <1>4, <2>1, <2>3, Schedules
  <2>5. /\ DOMAIN produceTopicMap' = Topics
        /\ ~leftover => \A u \in DOMAIN produceTopicMap' : produceTopicMap'[u] = starts'
    <3>1. /\ DOMAIN produceTopicMap' = DOMAIN produceTopicMap \cup {u \in Topics : u < Cardinality(Topics) + 1}
          /\ \A u \in DOMAIN produceTopicMap' : u \notin DOMAIN produceTopicMap => produceTopicMap'[u] = starts'
      BY <2>1, InsertedTopics, Zenon
    <3>2. Cardinality(Topics) \in Nat /\ Topics = 1..Cardinality(Topics)
      BY FS_CardinalityType, Zenon DEF KafkaConstants
    <3>3. {u \in Topics : u < Cardinality(Topics) + 1} = Topics
      BY <3>2
    <3>4. DOMAIN produceTopicMap \subseteq Topics /\ (~leftover => DOMAIN produceTopicMap = {})
      BY <1>1, <2>1, Zenon DEF KafkaTypeOK, TopicsConnected
    <3> QED
      BY <3>1, <3>3, <3>4, Zenon
  <2>6. KafkaTypeOK'
    BY <1>1, <1>2, <1>3, <1>5, <2>1, <2>4, <2>5 DEF KafkaTypeOK, NoPoll, Waits
  <2>7. consumer' # 0
    BY <1>3, <2>1
  <2>8. FlushedOnceStopped' /\ TopicsCovered' /\ TopicsConnected' /\ NullOnlyByLeftover'
    BY <1>1, <1>2, <2>1, <2>5, Zenon DEF FlushedOnceStopped, TopicsCovered, TopicsConnected, NullOnlyByLeftover
  <2> QED
    BY <1>1, <1>2, <2>1, <2>4, <2>6, <2>7, <2>8
       DEF KafkaInv, BothOrNone, OnePollChain, StartedPolls, FirstStart, NoPoll
<1> QED
  BY <1>6, <1>7, <1>8, Zenon DEF StartAdapter, Refused, createConsumerFails, createProducerFails,
                          startConsumeFails, handles
\* stop(), also when a handler of the bus calls it in the middle of a poll.
LEMMA StopLeaves ==
  ASSUME KafkaInv, stopAdapter
  PROVE  /\ waits' \in Seq(Waits) /\ DOMAIN produceTopicMap' = {} /\ outq' = 0 /\ started' = FALSE
         /\ leftover' = FALSE /\ UNCHANGED <<consumer, producer>> /\ (consumer = 0 => waits' = <<>>)
         /\ \A i, j \in DOMAIN waits' : waits'[i] # "aborted" /\ waits'[j] # "aborted" => i = j
         /\ chunk # NoPoll => \A i \in DOMAIN waits' : waits'[i] = "aborted"
<1>1. waits \in Seq(Waits) /\ OnePollChain /\ (consumer = 0 => waits = <<>>)
  BY Zenon DEF KafkaInv, KafkaTypeOK, FirstStart, Waits
<1>2. /\ waits' = cancelled(waits) /\ produceTopicMap' = <<>> /\ outq' = 0 /\ started' = FALSE
      /\ leftover' = FALSE /\ UNCHANGED <<consumer, producer>>
  BY Zenon DEF stopAdapter
<1>3. DOMAIN produceTopicMap' = {}
  BY <1>2
<1> QED
  BY <1>1, <1>2, <1>3, CancelKeepsChain

LEMMA StopKeepsKafka ==
  ASSUME KafkaConstants, KafkaInv, ~nullProduce, StopAdapter
  PROVE  KafkaInv'
<1>1. KafkaTypeOK /\ BothOrNone /\ FirstStart
  BY Zenon DEF KafkaInv
<1>2. /\ chunk = NoPoll /\ stopAdapter
      /\ UNCHANGED <<chunk, broker, consumed, produced, kevents, starts, failing, nullProduce>>
  BY DEF StopAdapter
<1>3. /\ waits' \in Seq(Waits) /\ DOMAIN produceTopicMap' = {} /\ outq' = 0 /\ started' = FALSE
      /\ leftover' = FALSE /\ UNCHANGED <<consumer, producer>> /\ (consumer = 0 => waits' = <<>>)
      /\ \A i, j \in DOMAIN waits' : waits'[i] # "aborted" /\ waits'[j] # "aborted" => i = j
  BY <1>2, StopLeaves, Zenon
<1>4. KafkaTypeOK'
  <2>1. outq' \in Nat /\ outq' <= produced'
    BY <1>1, <1>2, <1>3 DEF KafkaTypeOK
  <2> QED
    BY <1>1, <1>2, <1>3, <2>1, Zenon DEF KafkaTypeOK, NoPoll, Waits
<1> QED
  BY <1>1, <1>2, <1>3, <1>4
     DEF KafkaInv, BothOrNone, OnePollChain, StartedPolls, FirstStart,
         FlushedOnceStopped, TopicsCovered, TopicsConnected, NullOnlyByLeftover, NoPoll

\* produce(), and a message that arrives at the broker.
LEMMA TrafficKeeps ==
  ASSUME KafkaConstants, KafkaInv, Produce \/ Arrive
  PROVE  KafkaInv'
<1>1. /\ KafkaTypeOK /\ BothOrNone /\ OnePollChain /\ StartedPolls /\ FirstStart
      /\ FlushedOnceStopped /\ TopicsCovered /\ TopicsConnected /\ NullOnlyByLeftover
  BY Zenon DEF KafkaInv
<1>2. UNCHANGED <<started, consumer, producer, produceTopicMap, leftover, waits, chunk, starts, consumed, failing>>
  BY Zenon DEF Produce, Arrive, handles
<1>3. /\ broker \in Nat /\ consumed \in Nat /\ outq \in Nat /\ produced \in Nat /\ kevents \in Nat
      /\ broker + consumed <= MAX_IN /\ outq <= produced /\ produced <= MAX_OUT /\ MAX_IN \in Nat /\ MAX_OUT \in Nat
  BY <1>1 DEF KafkaTypeOK, KafkaConstants
<1>4. /\ broker' \in Nat /\ outq' \in Nat /\ produced' \in Nat /\ kevents' \in Nat
      /\ broker' + consumed <= MAX_IN /\ outq' <= produced' /\ produced' <= MAX_OUT
  <2>1. CASE Produce
    <3>1. produced < MAX_OUT /\ produced' = produced + 1 /\ broker' = broker
      BY <2>1, Zenon DEF Produce
    <3>2. outq' \in {outq, outq + 1} /\ kevents' \in {kevents, kevents + 1}
      BY <2>1 DEF Produce, onFatalError
    <3> QED
      BY <1>3, <3>1, <3>2
  <2>2. CASE Arrive
    <3>1. broker + consumed < MAX_IN /\ broker' = broker + 1 /\ UNCHANGED <<outq, produced, kevents>>
      BY <2>2 DEF Arrive
    <3> QED
      BY <1>3, <3>1
  <2> QED
    BY <2>1, <2>2, Zenon
<1>6. (~started => outq' = outq) /\ (nullProduce' => nullProduce \/ leftover)
  <2>1. CASE Arrive
    BY <2>1, Zenon DEF Arrive
  <2>2. CASE Produce
    <3>1. PICK t \in Topics :
            \/ t \notin DOMAIN produceTopicMap /\ UNCHANGED <<outq, nullProduce>>
            \/ t \in DOMAIN produceTopicMap /\ producer = 0 /\ UNCHANGED outq
            \/ t \in DOMAIN produceTopicMap /\ producer # 0 /\ UNCHANGED nullProduce
      BY <2>2, Zenon DEF Produce
    <3>2. t \in DOMAIN produceTopicMap => (producer = 0 => leftover) /\ (producer # 0 => started)
      BY <1>1, Zenon DEF TopicsConnected, BothOrNone
    <3>3. (~started => outq' = outq) /\ (nullProduce' => nullProduce \/ leftover)
      <4>1. CASE t \notin DOMAIN produceTopicMap
        BY <3>1, <4>1
      <4>2. CASE t \in DOMAIN produceTopicMap /\ producer = 0
        BY <3>1, <3>2, <4>2
      <4>3. CASE t \in DOMAIN produceTopicMap /\ producer # 0
        BY <3>1, <3>2, <4>3
      <4> QED
        BY <4>1, <4>2, <4>3, Zenon
    <3> QED
      BY <3>3, Zenon
  <2> QED
    BY <2>1, <2>2, Zenon
<1>7. nullProduce' \in BOOLEAN
  BY <1>1, Zenon DEF KafkaTypeOK, Produce, Arrive
<1>5. KafkaTypeOK'
  BY <1>1, <1>2, <1>4, <1>7 DEF KafkaTypeOK, NoPoll
<1>8. FlushedOnceStopped' /\ NullOnlyByLeftover'
  BY <1>1, <1>2, <1>6, Zenon DEF FlushedOnceStopped, NullOnlyByLeftover
<1> QED
  BY <1>1, <1>2, <1>5, <1>8, Zenon
     DEF KafkaInv, BothOrNone, OnePollChain, StartedPolls, FirstStart, TopicsCovered, TopicsConnected, NoPoll

\* A wait expires, and its handler begins a poll or does nothing.
LEMMA TimerKeeps ==
  ASSUME KafkaConstants, KafkaInv, PollExpire \/ OnPollTimer
  PROVE  KafkaInv'
<1>1. /\ KafkaTypeOK /\ BothOrNone /\ OnePollChain /\ StartedPolls /\ FirstStart
      /\ FlushedOnceStopped /\ TopicsCovered /\ TopicsConnected /\ NullOnlyByLeftover
  BY Zenon DEF KafkaInv
<1>2. /\ UNCHANGED <<started, consumer, producer, produceTopicMap, leftover, broker, consumed, outq, produced>>
      /\ UNCHANGED <<kevents, starts, failing, nullProduce>>
  BY DEF PollExpire, OnPollTimer, handles, traffic
<1>3. /\ waits \in Seq(Waits) /\ DOMAIN waits = 1..Len(waits) /\ Len(waits) \in Nat
      /\ CONSUME_CHUNK \in Nat /\ 0 \in 0..CONSUME_CHUNK /\ 0 # NoPoll
  <2>1. waits \in Seq(Waits) /\ CONSUME_CHUNK \in Nat
    BY <1>1, Zenon DEF KafkaTypeOK, Waits, KafkaConstants
  <2> QED
    BY <2>1 DEF NoPoll
<1>4. /\ waits' \in Seq(Waits) /\ waits # <<>> /\ chunk' \in {chunk, 0}
      /\ \A i, j \in DOMAIN waits' : waits'[i] # "aborted" /\ waits'[j] # "aborted" => i = j
      /\ chunk' # NoPoll => \A i \in DOMAIN waits' : waits'[i] = "aborted"
      /\ started /\ chunk' = NoPoll => \E i \in DOMAIN waits' : waits'[i] # "aborted"
  <2>1. CASE PollExpire
    <3>1. PICK i \in DOMAIN waits : waits[i] = "waiting" /\ waits' = [waits EXCEPT ![i] = "due"]
      BY <2>1, Zenon DEF PollExpire
    <3>2. chunk' = chunk /\ "due" \in Waits
      BY <2>1, Zenon DEF PollExpire, Waits
    <3>3. /\ waits' \in Seq(Waits) /\ waits # <<>> /\ DOMAIN waits' = DOMAIN waits
          /\ \A j \in DOMAIN waits : waits'[j] = "aborted" <=> waits[j] = "aborted"
      BY <1>3, <3>1, <3>2
    <3> QED
      BY <1>1, <3>2, <3>3 DEF OnePollChain, StartedPolls
  <2>2. CASE OnPollTimer
    <3>1. /\ chunk = NoPoll /\ waits # <<>> /\ Head(waits) # "waiting" /\ waits' = Tail(waits)
          /\ chunk' = IF Head(waits) = "due" THEN 0 ELSE NoPoll
      BY <2>2, Zenon DEF OnPollTimer
    <3>2. /\ waits' \in Seq(Waits) /\ Len(waits') = Len(waits) - 1 /\ Len(waits) \in Nat \ {0}
          /\ Head(waits) = waits[1] /\ Head(waits) \in Waits
          /\ \A k \in 1..Len(waits) - 1 : waits'[k] = waits[k + 1]
      BY <1>3, <3>1, Takes
    <3>3. DOMAIN waits' = 1..Len(waits) - 1
      BY <3>2
    <3>4. ASSUME NEW i \in DOMAIN waits', NEW j \in DOMAIN waits', waits'[i] # "aborted", waits'[j] # "aborted"
          PROVE  i = j
      <4>1. i + 1 \in DOMAIN waits /\ j + 1 \in DOMAIN waits /\ waits[i + 1] # "aborted" /\ waits[j + 1] # "aborted"
        BY <1>3, <3>2, <3>3, <3>4
      <4>2. i + 1 = j + 1
        BY <1>1, <4>1, Zenon DEF OnePollChain
      <4> QED
        BY <3>2, <3>3, <4>2
    <3>5. ASSUME waits[1] # "aborted", NEW i \in DOMAIN waits' PROVE waits'[i] = "aborted"
      <4>1. i + 1 \in DOMAIN waits /\ 1 \in DOMAIN waits /\ i + 1 # 1 /\ waits'[i] = waits[i + 1]
        BY <1>3, <3>2, <3>3
      <4> QED
        BY <1>1, <3>5, <4>1 DEF OnePollChain
    <3>6. ASSUME started, waits[1] = "aborted" PROVE \E i \in DOMAIN waits' : waits'[i] # "aborted"
      <4>1. PICK i \in DOMAIN waits : waits[i] # "aborted"
        BY <1>1, <3>1, <3>6 DEF StartedPolls
      <4>2. i - 1 \in 1..Len(waits) - 1 /\ (i - 1) + 1 = i
        BY <1>3, <3>2, <3>6, <4>1
      <4> QED
        BY <3>2, <3>3, <4>1, <4>2, Zenon
    <3>7. waits[1] \in {"due", "aborted"}
      BY <3>1, <3>2, Zenon DEF Waits
    <3>8. CASE waits[1] = "due"
      BY <1>3, <3>1, <3>2, <3>4, <3>5, <3>8
    <3>9. CASE waits[1] = "aborted"
      BY <3>1, <3>2, <3>4, <3>6, <3>9
    <3> QED
      BY <3>7, <3>8, <3>9
  <2> QED
    BY <2>1, <2>2, Zenon
<1>5. KafkaTypeOK'
  BY <1>1, <1>2, <1>3, <1>4 DEF KafkaTypeOK, NoPoll, Waits
<1>6. consumer # 0
  BY <1>1, <1>4, Zenon DEF FirstStart
<1>7. OnePollChain' /\ StartedPolls' /\ FirstStart'
  BY <1>2, <1>4, <1>6 DEF OnePollChain, StartedPolls, FirstStart, NoPoll
<1> QED
  BY <1>1, <1>2, <1>5, <1>7
     DEF KafkaInv, BothOrNone, FlushedOnceStopped, TopicsCovered, TopicsConnected, NullOnlyByLeftover
\* A poll consumes a message, which may stop the adapter, or ends.
LEMMA PollKeeps ==
  ASSUME KafkaConstants, KafkaInv, ~nullProduce, pollConsume \/ PollEnd
  PROVE  KafkaInv'
<1>1. /\ KafkaTypeOK /\ BothOrNone /\ OnePollChain /\ StartedPolls /\ FirstStart
      /\ FlushedOnceStopped /\ TopicsCovered /\ TopicsConnected /\ NullOnlyByLeftover
  BY Zenon DEF KafkaInv
<1>2. chunk # NoPoll /\ UNCHANGED <<produced, kevents, starts, nullProduce>> /\ failing' \in BOOLEAN
  <2>1. failing \in BOOLEAN
    BY <1>1, Zenon DEF KafkaTypeOK
  <2> QED
    BY <2>1, Zenon DEF pollConsume, PollEnd, NothingMore, ConsumeFails
<1>3. /\ broker \in Nat /\ consumed \in Nat /\ outq \in Nat /\ produced \in Nat /\ outq <= produced
      /\ broker + consumed <= MAX_IN /\ MAX_IN \in Nat /\ CONSUME_CHUNK \in Nat
      /\ waits \in Seq(Waits) /\ chunk \in 0..CONSUME_CHUNK
  BY <1>1, <1>2 DEF KafkaTypeOK, KafkaConstants, Waits
<1>4. consumer # 0 /\ \A i \in DOMAIN waits : waits[i] = "aborted"
  BY <1>1, <1>2, Zenon DEF FirstStart, OnePollChain
<1>5. CASE PollEnd
  <2>1. /\ chunk' = NoPoll /\ outq' \in 0..outq
        /\ UNCHANGED <<started, consumer, producer, produceTopicMap, leftover, broker, consumed>>
    BY <1>5, Zenon DEF PollEnd, handles
  <2>2. waits' = IF started THEN Append(cancelled(waits), "waiting") ELSE waits
    BY <1>5, <2>1, Zenon DEF PollEnd, schedulePoll
  <2>3. /\ waits' \in Seq(Waits)
        /\ \A i, j \in DOMAIN waits' : waits'[i] # "aborted" /\ waits'[j] # "aborted" => i = j
        /\ started => \E i \in DOMAIN waits' : waits'[i] # "aborted"
    <3>1. CASE started
      <4>1. waits' = Append(cancelled(waits), "waiting")
        BY <2>2, <3>1, Zenon
      <4> QED
        BY <1>3, <1>4, <4>1, Schedules
    <3>2. CASE ~started
      BY <1>3, <1>4, <2>2, <3>2
    <3> QED
      BY <3>1, <3>2, Zenon
  <2>4. outq' \in Nat /\ outq' <= produced /\ (outq = 0 => outq' = 0)
    BY <1>3, <2>1
  <2>5. KafkaTypeOK'
    BY <1>1, <1>2, <2>1, <2>3, <2>4 DEF KafkaTypeOK, NoPoll, Waits
  <2>6. OnePollChain' /\ StartedPolls' /\ FirstStart'
    BY <1>4, <2>1, <2>3, Zenon DEF OnePollChain, StartedPolls, FirstStart, NoPoll
  <2> QED
    BY <1>1, <1>2, <2>1, <2>4, <2>5, <2>6, Zenon
       DEF KafkaInv, BothOrNone, FlushedOnceStopped, TopicsCovered, TopicsConnected, NullOnlyByLeftover
<1>6. CASE pollConsume
  <2>1. /\ chunk < CONSUME_CHUNK /\ started /\ broker > 0
        /\ broker' = broker - 1 /\ consumed' = consumed + 1 /\ chunk' = chunk + 1
        /\ stopAdapter \/ UNCHANGED <<started, consumer, producer, produceTopicMap, leftover, waits, outq>>
    BY <1>6, Zenon DEF pollConsume, handles
  <2>2. /\ broker' \in Nat /\ consumed' \in Nat /\ broker' + consumed' <= MAX_IN
        /\ chunk' \in 0..CONSUME_CHUNK /\ chunk' # NoPoll
    BY <1>3, <2>1 DEF NoPoll
  <2>3. CASE stopAdapter
    <3>1. /\ waits' \in Seq(Waits) /\ DOMAIN produceTopicMap' = {} /\ outq' = 0 /\ started' = FALSE
          /\ leftover' = FALSE /\ UNCHANGED <<consumer, producer>>
          /\ \A i, j \in DOMAIN waits' : waits'[i] # "aborted" /\ waits'[j] # "aborted" => i = j
          /\ \A i \in DOMAIN waits' : waits'[i] = "aborted"
      BY <1>2, <2>3, StopLeaves
    <3>2. KafkaTypeOK'
      <4>1. outq' \in Nat /\ outq' <= produced'
        BY <1>2, <1>3, <3>1
      <4> QED
        BY <1>1, <1>2, <2>2, <3>1, <4>1, Zenon DEF KafkaTypeOK, NoPoll, Waits
    <3>3. OnePollChain' /\ StartedPolls' /\ FirstStart'
      BY <1>4, <3>1, Zenon DEF OnePollChain, StartedPolls, FirstStart
    <3>4. BothOrNone' /\ FlushedOnceStopped' /\ TopicsCovered' /\ NullOnlyByLeftover'
      BY <1>1, <1>2, <3>1, Zenon DEF BothOrNone, FlushedOnceStopped, TopicsCovered, NullOnlyByLeftover
    <3>5. TopicsConnected'
      BY <3>1, Zenon DEF TopicsConnected
    <3> QED
      BY <3>2, <3>3, <3>4, <3>5, Zenon DEF KafkaInv
  <2>4. CASE UNCHANGED <<started, consumer, producer, produceTopicMap, leftover, waits, outq>>
    <3>1. KafkaTypeOK'
      BY <1>1, <1>2, <2>2, <2>4 DEF KafkaTypeOK, NoPoll
    <3>2. OnePollChain' /\ StartedPolls' /\ FirstStart'
      BY <1>4, <2>2, <2>4, Zenon DEF OnePollChain, StartedPolls, FirstStart, NoPoll
    <3> QED
      BY <1>1, <1>2, <2>4, <3>1, <3>2, Zenon
         DEF KafkaInv, BothOrNone, FlushedOnceStopped, TopicsCovered, TopicsConnected, NullOnlyByLeftover
  <2> QED
    BY <2>1, <2>3, <2>4, Zenon
<1> QED
  BY <1>5, <1>6, Zenon

(* Whichever step of a start() fails and whenever stop() comes: the adapter   *)
(* has both clients or none, and while it is started exactly one poll pending *)
(* and a handle for every topic.  No message is left once it is stopped, and  *)
(* produce() meets no producer only through the handles of a start() that     *)
(* failed at a later topic.                                                   *)
THEOREM KafkaStaysWhole == KafkaSpec => []KafkaInv
<1> USE KafkaAssumption
<1>1. KafkaInit => KafkaInv
  <2> SUFFICES ASSUME KafkaInit PROVE KafkaInv
    BY Zenon
  <2>1. waits = <<>> /\ DOMAIN produceTopicMap = {} /\ DOMAIN waits = {} /\ waits \in Seq({"waiting", "due", "aborted"})
    BY DEF KafkaInit
  <2>2. KafkaTypeOK
    <3>1. /\ consumer \in 0..MAX_STARTS /\ producer \in 0..MAX_STARTS /\ starts \in 0..MAX_STARTS
          /\ broker + consumed <= MAX_IN /\ outq <= produced /\ produced <= MAX_OUT
      BY DEF KafkaInit, KafkaConstants
    <3>2. {broker, consumed, outq, produced, kevents} \subseteq Nat
      BY DEF KafkaInit
    <3>3. /\ started \in BOOLEAN /\ failing \in BOOLEAN /\ leftover \in BOOLEAN /\ nullProduce \in BOOLEAN
          /\ chunk = NoPoll
      BY Zenon DEF KafkaInit
    <3> QED
      BY <2>1, <3>1, <3>2, <3>3, Zenon DEF KafkaTypeOK
  <2> QED
    BY <2>1, <2>2, Zenon
       DEF KafkaInit, KafkaInv, BothOrNone, OnePollChain, StartedPolls, FirstStart,
           FlushedOnceStopped, TopicsCovered, TopicsConnected, NullOnlyByLeftover
<1>2. KafkaInv /\ [KafkaNext]_kafkaVars => KafkaInv'
  <2> SUFFICES ASSUME KafkaInv, [KafkaNext]_kafkaVars PROVE KafkaInv'
    BY Zenon
  <2>1. CASE UNCHANGED kafkaVars
    BY <2>1, Zenon DEF kafkaVars, handles, traffic, KafkaInv, KafkaTypeOK, NoPoll, BothOrNone,
                OnePollChain, StartedPolls, FirstStart, FlushedOnceStopped,
                TopicsCovered, TopicsConnected, NullOnlyByLeftover
  <2> QED
    BY <2>1, StartKeeps, StopKeepsKafka, TrafficKeeps, TimerKeeps, PollKeeps, Zenon DEF KafkaNext, Poll
<1> QED
  BY <1>1, <1>2, PTL DEF KafkaSpec
=============================================================================
