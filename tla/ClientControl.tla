--------------------------- MODULE ClientControl ----------------------------
(***************************************************************************)
(* Start-up, trading and shutdown of the client (client/src/control_center *)
(* .hpp) with its three threads: the main thread on the SystemBus, the     *)
(* engine's worker, which writes orders into the connection manager, and   *)
(* the network thread.  Logging in is in NetworkLogin, ids and statuses are*)
(* in TradeEngine; here a connection is only there or lost.                *)
(***************************************************************************)
EXTENDS Naturals, Sequences

CONSTANTS
  Transport,   \* "boost" (NetworkConnectionManager) or "shm" (TrustedConnectionManager)
  MaxEvents    \* bound: commands, errors and losses of the connection

ClientConstants == MaxEvents \in Nat

VARIABLES
  main,       \* where the main thread is
  queue,      \* tasks of the system io context
  ready,      \* readyMask_
  engine, network,   \* the two threads: none, starting, running or ended;
                     \*   asleep: see Oversleep
  ioStopped,  \* the network's io context was stopped
  stopReq,    \* the stop token
  state,      \* state_ of the control centre
  trading,    \* trading_ of the engine
  upstream,   \* upstreamChannel_ is not null
  closed,     \* reset() of the trusted manager closed the transports
  sending,    \* the worker is inside the connection manager's post(Order)
  events,     \* events so far
  lossHandled, nullWrite   \* history: the manager reset a lost connection; a write through null

vars == <<main, queue, ready, engine, network, ioStopped, stopReq, state, trading, upstream, closed,
          sending, events, lossHandled, nullWrite>>

INTERNAL_READY == {"Engine", "Time"}
Tasks == {"time", "Engine", "Time", "Ipc", "Connected", "Disconnected", "loss", "start", "stop", "shutdown"}
Thread == {"none", "starting", "running", "asleep", "ended"}

TypeOK ==
  /\ main \in {"start", "run", "stopIpc", "stopEngine", "close", "destroyEngine", "destroyManager", "destroyIpc", "gone"}
  /\ queue \in Seq(Tasks) /\ ready \subseteq INTERNAL_READY \cup {"Ipc"}
  /\ {engine, network} \subseteq Thread
  /\ state \in {"Disconnected", "Connected"} /\ events \in 0..MaxEvents
  /\ {ioStopped, stopReq, trading, upstream, closed, sending, lossHandled, nullWrite} \subseteq BOOLEAN
  /\ sending => engine = "running"

Init ==
  /\ main = "start" /\ queue = <<"time">> /\ ready = {} /\ engine = "none" /\ network = "none"
  /\ ioStopped = FALSE /\ stopReq = FALSE /\ state = "Disconnected" /\ trading = FALSE
  /\ upstream = FALSE /\ closed = FALSE /\ sending = FALSE /\ events = 0 /\ lossHandled = FALSE /\ nullWrite = FALSE

-----------------------------------------------------------------------------
(* The threads *)

Start ==
  /\ main = "start" /\ main' = "run" /\ engine' = "starting"
  /\ UNCHANGED <<closed, queue, ready, network, ioStopped, stopReq, state, trading, upstream, sending, events, lossHandled, nullWrite>>

EngineRuns ==
  /\ engine = "starting" /\ engine' = "running" /\ queue' = Append(queue, "Engine")
  /\ UNCHANGED <<closed, main, ready, network, ioStopped, stopReq, state, trading, upstream, sending, events, lossHandled, nullWrite>>

EngineEnds ==
  /\ engine = "running" /\ stopReq /\ ~sending /\ engine' = "ended"
  /\ UNCHANGED <<closed, main, queue, ready, network, ioStopped, stopReq, state, trading, upstream, sending, events, lossHandled, nullWrite>>

\* post(Order) on the worker: the network's manager looks whether there is a
\* channel, the trusted one does not ...
PostOrder ==
  /\ engine = "running" /\ ~stopReq /\ trading /\ ~sending
  /\ Transport = "boost" => upstream
  /\ sending' = TRUE
  /\ UNCHANGED <<closed, main, queue, ready, engine, network, ioStopped, stopReq, state, trading, upstream, events, lossHandled, nullWrite>>

\* ... and then both write through the pointer.  The write into a full or closed
\* queue fails, and the trusted manager's reset() closes the transports on the
\* worker's thread.  (A write after that fails as well; at the bound of the
\* events the further report of it is left out.)
WriteOrder ==
  /\ sending /\ sending' = FALSE
  /\ nullWrite' = (nullWrite \/ ~upstream)
  /\ \/ (closed => events = MaxEvents) /\ UNCHANGED <<queue, events, closed>>
     \/ /\ Transport = "shm" /\ upstream /\ events < MaxEvents /\ events' = events + 1
        /\ closed' = TRUE /\ queue' = Append(queue, "Disconnected")
  /\ UNCHANGED <<main, ready, engine, network, ioStopped, stopReq, state, trading, upstream, lossHandled>>

\* The reactor reports Ipc ready; BoostIpcClient does not.
NetworkRuns ==
  /\ network = "starting" /\ network' = "running"
  /\ queue' = IF Transport = "shm" THEN Append(queue, "Ipc") ELSE queue
  /\ UNCHANGED <<closed, main, ready, engine, ioStopped, stopReq, state, trading, upstream, sending, events, lossHandled, nullWrite>>

\* The reactor's loop ends at the stop token, or when its reader was closed.
NetworkEnds ==
  /\ network = "running" /\ (IF Transport = "shm" THEN stopReq \/ closed ELSE ioStopped)
  /\ network' = "ended"
  /\ UNCHANGED <<closed, main, queue, ready, engine, ioStopped, stopReq, state, trading, upstream, sending, events, lossHandled, nullWrite>>

\* The notify of ShmReactor::stop reached the reactor behind its last test of the
\* stop token and before its waitFlag (StopCompletes of ShmReactor): it sleeps ...
Oversleep ==
  /\ Transport = "shm" /\ stopReq /\ network = "running" /\ network' = "asleep"
  /\ UNCHANGED <<closed, main, queue, ready, engine, ioStopped, stopReq, state, trading, upstream, sending, events, lossHandled, nullWrite>>

\* ... until the server writes once more, and then finds the token set.
PeerWrites ==
  /\ network = "asleep" /\ network' = "ended"
  /\ UNCHANGED <<closed, main, queue, ready, engine, ioStopped, stopReq, state, trading, upstream, sending, events, lossHandled, nullWrite>>

\* Boost: the channels connect and the login succeeds on the network thread.
LoggedIn ==
  /\ Transport = "boost" /\ network = "running" /\ ~upstream /\ state = "Disconnected" /\ ~lossHandled
  /\ upstream' = TRUE /\ queue' = Append(queue, "Connected")
  /\ UNCHANGED <<closed, main, ready, engine, network, ioStopped, stopReq, state, trading, sending, events, lossHandled, nullWrite>>

\* Boost: the peer goes, and a channel reports it on the bus.  (A trusted reader
\* reports no error: shared memory shows a lost server in a failed write only.)
ConnectionLost ==
  /\ Transport = "boost" /\ network = "running" /\ upstream /\ events < MaxEvents /\ events' = events + 1
  /\ queue' = Append(queue, "loss")
  /\ UNCHANGED <<closed, main, ready, engine, network, ioStopped, stopReq, state, trading, upstream, sending, lossHandled, nullWrite>>

\* The console, a signal, or an InternalError, which stops like a shutdown.
Command ==
  /\ main = "run" /\ events < MaxEvents /\ events' = events + 1
  /\ \E c \in {"start", "stop", "shutdown"} : queue' = Append(queue, c)
  /\ UNCHANGED <<closed, main, ready, engine, network, ioStopped, stopReq, state, trading, upstream, sending, lossHandled, nullWrite>>

-----------------------------------------------------------------------------
(* The handlers on the bus, one task each *)

Take(tasks) == main = "run" /\ queue # <<>> /\ Head(queue) \in tasks

TimeTask ==
  /\ Take({"time"}) /\ queue' = Append(Tail(queue), "Time")
  /\ UNCHANGED <<closed, main, ready, engine, network, ioStopped, stopReq, state, trading, upstream, sending, events, lossHandled, nullWrite>>

\* post(ComponentReady): the last internal one starts the ipc client; the
\* shared memory is then mapped and connected at once.
ComponentReady ==
  /\ Take({"Engine", "Time", "Ipc"})
  /\ ready' = ready \cup {Head(queue)}
  /\ LET starts == ready' = INTERNAL_READY
     IN  /\ network' = IF starts THEN "starting" ELSE network
         /\ upstream' = (upstream \/ (starts /\ Transport = "shm"))
         /\ queue' = IF starts /\ Transport = "shm" THEN Append(Tail(queue), "Connected") ELSE Tail(queue)
  /\ UNCHANGED <<closed, main, engine, ioStopped, stopReq, state, trading, sending, events, lossHandled, nullWrite>>

\* post(ServerConnectionState)
StateChanged ==
  /\ Take({"Connected", "Disconnected"}) /\ queue' = Tail(queue)
  /\ state' = Head(queue)
  /\ main' = IF state' = "Disconnected" THEN "stopIpc" ELSE main
  /\ UNCHANGED <<closed, ready, engine, network, ioStopped, stopReq, trading, upstream, sending, events, lossHandled, nullWrite>>

\* NetworkConnectionManager::post(ConnectionStatusEvent) and its reset()
ConnectionStatus ==
  /\ Take({"loss"}) /\ queue' = Append(Tail(queue), "Disconnected")
  /\ upstream' = FALSE /\ lossHandled' = TRUE
  /\ UNCHANGED <<closed, main, ready, engine, network, ioStopped, stopReq, state, trading, sending, events, nullWrite>>

\* tradeStart, only when connected, and tradeStop
TradeCommand ==
  /\ Take({"start", "stop"}) /\ queue' = Tail(queue)
  /\ trading' = IF Head(queue) = "start" THEN trading \/ state = "Connected" ELSE FALSE
  /\ UNCHANGED <<closed, main, ready, engine, network, ioStopped, stopReq, state, upstream, sending, events, lossHandled, nullWrite>>

Shutdown ==
  /\ Take({"shutdown"}) /\ queue' = Tail(queue) /\ main' = "stopIpc"
  /\ UNCHANGED <<closed, ready, engine, network, ioStopped, stopReq, state, trading, upstream, sending, events, lossHandled, nullWrite>>

-----------------------------------------------------------------------------
(* ControlCenter::stop and the destructors *)

\* The reactor's stop joins its thread; BoostIpcClient only stops the io context.
StopIpc ==
  /\ main = "stopIpc" /\ stopReq' = TRUE /\ ioStopped' = TRUE /\ main' = "stopEngine"
  /\ UNCHANGED <<closed, queue, ready, engine, network, state, trading, upstream, sending, events, lossHandled, nullWrite>>

FaultyStopEngine ==
  /\ main = "stopEngine" /\ main' = "close"
  /\ UNCHANGED <<closed, queue, ready, engine, network, ioStopped, stopReq, state, trading, upstream, sending, events, lossHandled, nullWrite>>

StopEngine ==
  /\ main = "stopEngine" /\ (Transport = "shm" => network \in {"none", "ended"})
  /\ engine = "ended" /\ main' = "close"
  /\ UNCHANGED <<closed, queue, ready, engine, network, ioStopped, stopReq, state, trading, upstream, sending, events, lossHandled, nullWrite>>

\* connectionManager_.close() resets the channels; the bus stops, main() returns.
CloseManager ==
  /\ main = "close" /\ main' = "destroyEngine"
  /\ upstream' = (upstream /\ Transport = "shm")
  /\ UNCHANGED <<closed, queue, ready, engine, network, ioStopped, stopReq, state, trading, sending, events, lossHandled, nullWrite>>

\* Engine and connection manager go before the ipc client joins its thread.
Destroy ==
  /\ \/ main = "destroyEngine" /\ main' = "destroyManager"
     \/ main = "destroyManager" /\ main' = "destroyIpc"
     \/ main = "destroyIpc" /\ network \in {"none", "ended"} /\ main' = "gone"
  /\ UNCHANGED <<closed, queue, ready, engine, network, ioStopped, stopReq, state, trading, upstream, sending, events, lossHandled, nullWrite>>

MainNext == Start \/ TimeTask \/ ComponentReady \/ StateChanged \/ ConnectionStatus \/ TradeCommand
            \/ Shutdown \/ StopIpc \/ StopEngine \/ CloseManager \/ Destroy
EngineNext == EngineRuns \/ EngineEnds \/ WriteOrder
NetworkNext == NetworkRuns \/ NetworkEnds

Next == MainNext \/ EngineNext \/ PostOrder \/ NetworkNext \/ LoggedIn \/ ConnectionLost \/ Command
        \/ Oversleep \/ PeerWrites

\* The threads run; nothing obliges the user, the peer or the market to act.
Spec == Init /\ [][Next]_vars /\ WF_vars(MainNext) /\ WF_vars(EngineNext) /\ WF_vars(NetworkNext)

-----------------------------------------------------------------------------
(* An order is never written through a null channel, unless the connection    *)
(* was lost first: tradeStart waits for the connection, and a shutdown joins  *)
(* the worker before the channels are reset.  (After a loss, the network's    *)
(* manager resets the channel under the worker's hands.)                      *)
OrdersHaveChannel == nullWrite => lossHandled

(* The worker is over when the connection manager is closed.                  *)
WorkerEndsBeforeClose ==
  main \in {"close", "destroyEngine", "destroyManager", "destroyIpc", "gone"} => engine = "ended"

(* The network starts only behind the engine it delivers statuses to ...      *)
NetworkStartsLast == network # "none" => engine # "starting" /\ INTERNAL_READY \subseteq ready

(* ... and is over before that engine is destroyed.                           *)
EngineOutlivesNetwork ==
  main \in {"destroyManager", "destroyIpc", "gone"} => network \in {"none", "ended"}

(* A client that is shut down, or has lost its server, ends, unless the join  *)
(* waits for a reactor that sleeps for ever.                                  *)
ToldToEnd == main = "run" /\ \E k \in 1..Len(queue) : queue[k] \in {"loss", "Disconnected", "shutdown"}
Ended == main = "gone"
Oversleeps == network = "asleep"

Queued(task) == \E k \in 1..Len(queue) : queue[k] = task

(* The engine reports itself ready when it runs; whoever counts on the channel*)
(* has it until the loss is handled or the manager is closed; over shared     *)
(* memory the reactor has been joined when the manager is closed.             *)
StepsInOrder ==
  /\ main = "start" => engine = "none" /\ network = "none"
  /\ "Engine" \in ready \/ Queued("Engine") => engine \in {"running", "ended"}
  /\ state = "Connected" \/ trading \/ sending \/ Queued("Connected") =>
       upstream \/ lossHandled \/ main \in {"destroyEngine", "destroyManager", "destroyIpc", "gone"}
  /\ Transport = "shm" /\ main \in {"close", "destroyEngine"} => network \in {"none", "ended"}

(* Safety: the same of the client.                                            *)
ClientInv ==
  /\ TypeOK /\ NetworkStartsLast /\ OrdersHaveChannel /\ WorkerEndsBeforeClose
  /\ Transport = "shm" => EngineOutlivesNetwork
  /\ StepsInOrder
=============================================================================
