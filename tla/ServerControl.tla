--------------------------- MODULE ServerControl ----------------------------
(***************************************************************************)
(* Start-up and shutdown of the server (server/src/control_center.hpp): the*)
(* threads of the gateway, of the Coordinator's workers and of the network,*)
(* the events they post to the SystemBus, and the main thread, which starts*)
(* them, runs the bus and executes ControlCenter::stop on it.              *)
(*                                                                         *)
(* The bus is the FIFO of tasks of its io context, subscriptions included. *)
(* Each component is reduced to its thread: what the threads do in between *)
(* is in OrderGateway, LfqRunner, SessionServer and ShmReactor.            *)
(***************************************************************************)
EXTENDS Naturals, Sequences, FiniteSets

CONSTANTS
  Cores,       \* number of coresApp of the configuration
  Tickers,     \* number of tickers in the database
  Transport,   \* "boost" or "shm"
  MaxErrors    \* bound: internal errors posted

\* Whatever the configuration and the database hold.
ServerConstants == Cores \in Nat /\ Tickers \in Nat /\ MaxErrors \in Nat

\* Storage and Coordinator: no cores configured means one worker.
WorkerCount == IF Cores = 0 THEN 1 ELSE Cores
Workers == 0..(WorkerCount - 1)
gateway == WorkerCount
network == WorkerCount + 1
Threads == 0..network

VARIABLES
  main,        \* where the main thread is in start(), run(), stop() or the destructor
  queue,       \* tasks of the system io context
  subscribed,  \* the control centre's subscriptions are in place
  ready,       \* readyMask_, as a set of components
  thread,      \* none, starting, running or ended; asleep: see Oversleep
  joinable,    \* the component's flag that it runs: started_, running_
  counter,     \* startCounter of the workers
  stopReq,     \* the stop token
  ioStopped,   \* the network's io context was stopped
  errors,      \* internal errors posted so far
  lost,        \* an event was dispatched before its subscription
  routed       \* the workers an order was routed to

vars == <<main, queue, subscribed, ready, thread, joinable, counter, stopReq, ioStopped,
          errors, lost, routed>>

INTERNAL_READY == {"Coordinator", "Gateway", "Time"}
Tasks == {"subscribe", "time", "error", "shutdown", "Coordinator", "Gateway", "Time", "Ipc"}
Main == {"ctor", "gateway", "coordinator", "run", "stopIpc", "joinIpc", "stopWorkers",
         "joinGateway", "stopped", "destroyWorkers", "destroySessions", "destroyIpc", "gone"}

TypeOK ==
  /\ main \in Main /\ queue \in Seq(Tasks)
  /\ {subscribed, stopReq, ioStopped, lost} \subseteq BOOLEAN
  /\ ready \subseteq INTERNAL_READY \cup {"Ipc"}
  /\ thread \in [Threads -> {"none", "starting", "running", "asleep", "ended"}]
  /\ joinable \in [Threads -> BOOLEAN]
  /\ counter \in 0..WorkerCount /\ errors \in 0..MaxErrors /\ routed \in SUBSET Nat

Init ==
  /\ main = "ctor" /\ queue = <<>> /\ subscribed = FALSE /\ ready = {}
  /\ thread = [t \in Threads |-> "none"] /\ joinable = [t \in Threads |-> FALSE]
  /\ counter = 0 /\ stopReq = FALSE /\ ioStopped = FALSE /\ errors = 0
  /\ lost = FALSE /\ routed = {}

-----------------------------------------------------------------------------
(* Storage::loadMarketData: the worker of the i-th ticker *)

\* Tickers before those of worker w: perWorker each, and one of the leftOver.
FirstOf(w) ==
  LET leftOver == Tickers % WorkerCount
  IN  w * (Tickers \div WorkerCount) + IF w < leftOver THEN w ELSE leftOver

\* The worker whose chunk holds ticker i.
workerId(i) == Cardinality({w \in 0..Tickers : FirstOf(w + 1) <= i})

-----------------------------------------------------------------------------
(* The main thread: construction and start() *)

\* The constructor subscribes through the bus, then posts the Time task.
Construct ==
  /\ main = "ctor" /\ main' = "gateway"
  /\ queue' = <<"subscribe", "time">>
  /\ UNCHANGED <<subscribed, ready, thread, joinable, counter, stopReq, ioStopped, errors, lost, routed>>

\* OrderGateway::start runs its worker.
StartGateway ==
  /\ main = "gateway" /\ main' = "coordinator"
  /\ thread' = [thread EXCEPT ![gateway] = "starting"]
  /\ UNCHANGED <<queue, subscribed, ready, joinable, counter, stopReq, ioStopped, errors, lost, routed>>

\* Coordinator::startWorkers, one worker after the other; then the bus runs.
StartWorker ==
  /\ main = "coordinator"
  /\ LET next == Cardinality({w \in Workers : thread[w] # "none"})
     IN  /\ thread' = [thread EXCEPT ![next] = "starting"]
         /\ main' = IF next + 1 = WorkerCount THEN "run" ELSE main
  /\ UNCHANGED <<queue, subscribed, ready, joinable, counter, stopReq, ioStopped, errors, lost, routed>>

-----------------------------------------------------------------------------
(* The threads *)

GatewayRuns ==
  /\ thread[gateway] = "starting"
  /\ thread' = [thread EXCEPT ![gateway] = "running"]
  /\ joinable' = [joinable EXCEPT ![gateway] = TRUE]
  /\ queue' = Append(queue, "Gateway")
  /\ UNCHANGED <<main, subscribed, ready, counter, stopReq, ioStopped, errors, lost, routed>>

FaultyNeverReady(w) ==
  /\ thread[w] = "starting"
  /\ thread' = [thread EXCEPT ![w] = "running"]
  /\ joinable' = [joinable EXCEPT ![w] = TRUE]
  /\ counter' = counter + 1
  /\ queue' = IF counter = WorkerCount THEN Append(queue, "Coordinator") ELSE queue
  /\ UNCHANGED <<main, subscribed, ready, stopReq, ioStopped, errors, lost, routed>>

\* The last worker to come up reports the Coordinator ready.
WorkerRuns(w) ==
  /\ thread[w] = "starting"
  /\ thread' = [thread EXCEPT ![w] = "running"]
  /\ joinable' = [joinable EXCEPT ![w] = TRUE]
  /\ counter' = counter + 1
  /\ queue' = IF counter + 1 = WorkerCount THEN Append(queue, "Coordinator") ELSE queue
  /\ UNCHANGED <<main, subscribed, ready, stopReq, ioStopped, errors, lost, routed>>

\* ShmReactor's thread reports Ipc ready; BoostIpcServer's sets running_ and
\* reports nothing.
NetworkRuns ==
  /\ thread[network] = "starting"
  /\ thread' = [thread EXCEPT ![network] = "running"]
  /\ joinable' = [joinable EXCEPT ![network] = TRUE]
  /\ queue' = IF Transport = "shm" THEN Append(queue, "Ipc") ELSE queue
  /\ UNCHANGED <<main, subscribed, ready, counter, stopReq, ioStopped, errors, lost, routed>>

\* Runners end at the stop token, the Boost network when its io context stops.
ThreadEnds(t) ==
  /\ thread[t] = "running"
  /\ IF t = network /\ Transport = "boost" THEN ioStopped ELSE stopReq
  /\ thread' = [thread EXCEPT ![t] = "ended"]
  /\ UNCHANGED <<main, queue, subscribed, ready, joinable, counter, stopReq, ioStopped, errors, lost, routed>>

\* The notify of ShmReactor::stop reached the reactor behind its last test of the
\* stop token and before its waitFlag (StopCompletes of ShmReactor): it sleeps ...
Oversleep ==
  /\ Transport = "shm" /\ stopReq /\ thread[network] = "running"
  /\ thread' = [thread EXCEPT ![network] = "asleep"]
  /\ UNCHANGED <<main, queue, subscribed, ready, joinable, counter, stopReq, ioStopped, errors, lost, routed>>

\* ... until the peer writes once more, and then finds the token set.
PeerWrites ==
  /\ thread[network] = "asleep"
  /\ thread' = [thread EXCEPT ![network] = "ended"]
  /\ UNCHANGED <<main, queue, subscribed, ready, joinable, counter, stopReq, ioStopped, errors, lost, routed>>

\* An exception in a thread's body: it reports the error and ends.
ThreadFails(t) ==
  /\ thread[t] = "running" /\ errors < MaxErrors
  /\ thread' = [thread EXCEPT ![t] = "ended"]
  /\ ioStopped' = (ioStopped \/ t = network)
  /\ queue' = Append(queue, "error") /\ errors' = errors + 1
  /\ UNCHANGED <<main, subscribed, ready, joinable, counter, stopReq, lost, routed>>

\* An order from the network is routed by Coordinator::post to workers_[workerId].
OrderArrives(i) ==
  /\ thread[network] = "running" /\ ~stopReq
  /\ routed' = routed \cup {workerId(i)}
  /\ UNCHANGED <<main, queue, subscribed, ready, thread, joinable, counter, stopReq, ioStopped, errors, lost>>

\* A running component posts InternalError; the console or a signal asks for the shutdown.
PostError ==
  /\ errors < MaxErrors /\ \E t \in Threads : thread[t] = "running"
  /\ errors' = errors + 1
  /\ \E task \in {"error", "shutdown"} : queue' = Append(queue, task)
  /\ UNCHANGED <<main, subscribed, ready, thread, joinable, counter, stopReq, ioStopped, lost, routed>>

-----------------------------------------------------------------------------
(* The system bus *)

\* ShmServer::start or BoostIpcServer::start.  The reactor's started_ is set
\* before the thread is created, running_ of the Boost server inside it.
StartIpc ==
  /\ thread' = [thread EXCEPT ![network] = "starting"]
  /\ joinable' = [joinable EXCEPT ![network] = Transport = "shm"]

\* ControlCenter::post(ComponentReady)
OnReady(c) ==
  /\ ready' = ready \cup {c}
  /\ IF ready' = INTERNAL_READY THEN StartIpc ELSE UNCHANGED <<thread, joinable>>

\* One task: a subscription, the Time task, or SystemBus::onEvent.
Dispatch ==
  /\ main = "run" /\ queue # <<>>
  /\ LET task == Head(queue)
     IN  /\ queue' = IF task = "time" THEN Append(Tail(queue), "Time") ELSE Tail(queue)
         /\ subscribed' = (subscribed \/ task = "subscribe")
         /\ lost' = (lost \/ (task \notin {"subscribe", "time"} /\ ~subscribed))
         /\ main' = IF task \in {"error", "shutdown"} /\ subscribed THEN "stopIpc" ELSE main
         /\ IF task \in {"Coordinator", "Gateway", "Time", "Ipc"} /\ subscribed
              THEN OnReady(task) ELSE UNCHANGED <<ready, thread, joinable>>
  /\ UNCHANGED <<counter, stopReq, ioStopped, errors, routed>>

-----------------------------------------------------------------------------
(* ControlCenter::stop, on the bus, and the destructor after main() returns *)

Gone(t) == thread[t] \in {"none", "ended"}

FaultyNoStopRequest ==
  /\ main = "stopIpc"
  /\ main' = IF joinable[network] THEN "joinIpc" ELSE "stopWorkers"
  /\ ioStopped' = (ioStopped \/ joinable[network])
  /\ joinable' = [joinable EXCEPT ![network] = FALSE]
  /\ UNCHANGED <<queue, subscribed, ready, thread, counter, stopReq, errors, lost, routed>>

\* A network that does not say it runs is neither stopped nor joined.
StopIpc ==
  /\ main = "stopIpc"
  /\ stopReq' = TRUE
  /\ main' = IF joinable[network] THEN "joinIpc" ELSE "stopWorkers"
  /\ ioStopped' = (ioStopped \/ joinable[network])
  /\ joinable' = [joinable EXCEPT ![network] = FALSE]
  /\ UNCHANGED <<queue, subscribed, ready, thread, counter, errors, lost, routed>>

JoinIpc ==
  /\ main = "joinIpc" /\ Gone(network) /\ main' = "stopWorkers"
  /\ UNCHANGED <<queue, subscribed, ready, thread, joinable, counter, stopReq, ioStopped, errors, lost, routed>>

FaultyStopWorkers ==
  /\ main = "stopWorkers" /\ main' = "joinGateway"
  /\ UNCHANGED <<queue, subscribed, ready, thread, joinable, counter, stopReq, ioStopped, errors, lost, routed>>

\* Coordinator::stop joins the workers that say they started.
StopWorkers ==
  /\ main = "stopWorkers" /\ \A w \in Workers : joinable[w] => Gone(w)
  /\ main' = "joinGateway"
  /\ UNCHANGED <<queue, subscribed, ready, thread, joinable, counter, stopReq, ioStopped, errors, lost, routed>>

\* So does OrderGateway::stop; sessionMgr_.close() and bus_.stop() follow, and
\* run() and then main() return.
StopGateway ==
  /\ main = "joinGateway" /\ (joinable[gateway] => Gone(gateway))
  /\ main' = "stopped"
  /\ UNCHANGED <<queue, subscribed, ready, thread, joinable, counter, stopReq, ioStopped, errors, lost, routed>>

\* Members go in reverse order, each joining its jthread: the gateway, the
\* workers, then the session manager, then the ipc server, stopped once more.
Destroy ==
  /\ \/ main = "stopped" /\ Gone(gateway) /\ main' = "destroyWorkers"
     \/ main = "destroyWorkers" /\ (\A w \in Workers : Gone(w)) /\ main' = "destroySessions"
     \/ main = "destroySessions" /\ main' = "destroyIpc"
     \/ main = "destroyIpc" /\ Gone(network) /\ main' = "gone"
  /\ ioStopped' = (ioStopped \/ (main' = "destroyIpc" /\ joinable[network]))
  /\ UNCHANGED <<queue, subscribed, ready, thread, joinable, counter, stopReq, errors, lost, routed>>

\* ControlCenter::stop
Stop == StopIpc \/ JoinIpc \/ StopWorkers \/ StopGateway

MainNext == Construct \/ StartGateway \/ StartWorker \/ Dispatch \/ Stop \/ Destroy

\* What the operating system's scheduler makes a thread do.
ThreadNext(t) ==
  \/ t = gateway /\ GatewayRuns
  \/ t = network /\ NetworkRuns
  \/ t \in Workers /\ WorkerRuns(t)
  \/ t \in Threads /\ ThreadEnds(t)

Next ==
  \/ MainNext \/ PostError \/ Oversleep \/ PeerWrites
  \/ \E t \in Threads : ThreadNext(t) \/ ThreadFails(t)
  \/ \E i \in 0..(Tickers - 1) : OrderArrives(i)

Spec == Init /\ [][Next]_vars

-----------------------------------------------------------------------------
(* Every order is routed to a worker that exists and runs: workers_[workerId] *)
(* of Coordinator::post is in range from the first order on.                  *)
OrdersFindTheirWorker ==
  \A w \in routed : w \in Workers /\ thread[w] \in {"running", "ended"}

(* The network starts behind the readiness of the gateway, of every worker   *)
(* and of the clock.                                                         *)
NetworkStartsLast ==
  thread[network] # "none" =>
    \A t \in Workers \cup {gateway} : thread[t] \in {"running", "ended"}

(* No event of a component overtakes the subscription that handles it.        *)
NoEventLost == ~lost

(* A worker that was given an order calls the gateway: it is over before the  *)
(* gateway is destroyed, although a worker that starts late is not joined by  *)
(* Coordinator::stop.                                                         *)
GatewayOutlivesWorkers ==
  main \in {"destroyWorkers", "destroySessions", "destroyIpc", "gone"} => \A w \in routed : Gone(w)

(* The network thread is over before the session manager it calls is          *)
(* destroyed.                                                                 *)
SessionsOutliveNetwork ==
  main \in {"destroyIpc", "gone"} => Gone(network)

(* Unless it is stopped first, the server comes up: the network starts.       *)
IsUp == thread[network] = "running" \/ main = "stopIpc"

(* A shutdown or an internal error ends the process, with no thread left,     *)
(* unless the join waits for a reactor that sleeps for ever.                  *)
ToldToEnd == main = "stopIpc"
Oversleeps == thread[network] = "asleep"
Ended == main = "gone" /\ \A t \in Threads : Gone(t)

Up(t) == thread[t] \in {"running", "ended"}
Reported(c) == c \in ready \/ \E k \in 1..Len(queue) : queue[k] = c

(* How far the start is: nothing runs before its turn, the workers come up in *)
(* their order, and a component was reported ready only once it runs.         *)
StartsInOrder ==
  /\ main = "ctor" => queue = <<>>
  /\ main \in {"ctor", "gateway"} => \A t \in Threads : thread[t] = "none"
  /\ main # "ctor" /\ ~subscribed => queue # <<>> /\ Head(queue) = "subscribe"
  /\ main = "coordinator" =>
       \E n \in Workers : \A w \in Workers : thread[w] = "none" <=> n <= w
  /\ counter = Cardinality({w \in Workers : Up(w)})
  /\ Reported("Coordinator") => counter = WorkerCount
  /\ Reported("Gateway") => Up(gateway)
  /\ \A t \in Workers \cup {gateway} : Up(t) => joinable[t]

(* How far the shutdown is: no order comes in after StopIpc, and what has been*)
(* joined is over.                                                            *)
StopsInOrder ==
  /\ main \notin {"ctor", "gateway", "coordinator", "run", "stopIpc"} => stopReq
  /\ main \in {"joinGateway", "stopped"} => \A w \in routed : Gone(w)
  /\ Transport = "shm" =>
       /\ main \in {"ctor", "gateway", "coordinator", "run", "stopIpc"} /\ thread[network] # "none" => joinable[network]
       /\ main \in {"stopWorkers", "joinGateway", "stopped", "destroyWorkers", "destroySessions"} => Gone(network)

(* Safety: start-up and shutdown keep the order in which components need each *)
(* other.  Over Boost the network thread is not joined before its sessions.   *)
ServerInv ==
  /\ TypeOK /\ NoEventLost /\ NetworkStartsLast /\ OrdersFindTheirWorker /\ GatewayOutlivesWorkers
  /\ Transport = "shm" => SessionsOutliveNetwork
  /\ StartsInOrder /\ StopsInOrder
=============================================================================
