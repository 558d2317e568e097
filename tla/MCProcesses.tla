---------------------------- MODULE MCProcesses ----------------------------
(***************************************************************************)
(* What runs on the system context of a process, for TLC, one process at a *)
(* time: the control centres of server and client over either transport,   *)
(* the monitor, the server's price feed and the Kafka adapter.  A process  *)
(* that is not the one chosen stays in its initial state.                  *)
(***************************************************************************)
EXTENDS PriceFeed, KafkaAdapter

VARIABLES
  part,
  main, queue, subscribed, ready, thread, joinable, counter, stopReq, ioStopped, errors, lost, routed,
  cmain, cqueue, cready, engine, network, cioStopped, cstopReq, state, trading, upstream, closed,
  sending, events, lossHandled, nullWrite,
  mcalls, msubscribed, sys, readyMask, nsPerCycle, mstopReq, inputs, mqueue, reactor, rtt, loaded,
  cells, snap, at, written, dropped, received, logged, reported, raced

serverVars == <<main, queue, subscribed, ready, thread, joinable, counter, stopReq, ioStopped, errors, lost, routed>>
clientVars == <<cmain, cqueue, cready, engine, network, cioStopped, cstopReq, state, trading, upstream,
                closed, sending, events, lossHandled, nullWrite>>
monitorVars == <<mcalls, msubscribed, sys, readyMask, nsPerCycle, mstopReq, inputs, mqueue, reactor, rtt, loaded,
                 cells, snap, at, written, dropped, received, logged, reported, raced>>
allVars == <<part, serverVars, clientVars, monitorVars, feedVars, kafkaVars>>

\* Over shared memory main() allows one worker only.  Over Boost there are two:
\* five tickers give one of them one more, a single one leaves one without.
ServerShm == INSTANCE ServerControl WITH Cores <- 0, Tickers <- 2, Transport <- "shm", MaxErrors <- 2
ServerBoost == INSTANCE ServerControl WITH Cores <- 2, Tickers <- 5, Transport <- "boost", MaxErrors <- 2
ServerFew == INSTANCE ServerControl WITH Cores <- 2, Tickers <- 1, Transport <- "boost", MaxErrors <- 2

Client(Transport) == INSTANCE ClientControl WITH
  MaxEvents <- 3, main <- cmain, queue <- cqueue, ready <- cready, ioStopped <- cioStopped, stopReq <- cstopReq

\* Two buckets, the second from 2 ns on.
Watch == INSTANCE Monitor WITH
  Capacity <- 1, Ranges <- <<2>>, Latencies <- {0, 1, 2}, MAX_MESSAGES <- 2, MAX_INPUTS <- 1,
  calls <- mcalls, subscribed <- msubscribed, stopReq <- mstopReq, queue <- mqueue

ASSUME ProcessAssumption ==
  /\ ServerShm!ServerConstants /\ ServerBoost!ServerConstants /\ ServerFew!ServerConstants
  /\ Client("shm")!ClientConstants

-----------------------------------------------------------------------------
Server(A) == A /\ UNCHANGED <<part, clientVars, monitorVars, feedVars, kafkaVars>>
ClientOf(A) == A /\ UNCHANGED <<part, serverVars, monitorVars, feedVars, kafkaVars>>
OnMonitor(A) == part = "monitor" /\ A /\ UNCHANGED <<part, serverVars, clientVars, feedVars, kafkaVars>>
OnFeed(A) == part = "feed" /\ A /\ UNCHANGED <<part, serverVars, clientVars, monitorVars, kafkaVars>>
OnKafka(A) == part = "kafka" /\ A /\ UNCHANGED <<part, serverVars, clientVars, monitorVars, feedVars>>

ProcessesInit ==
  /\ part \in {"server shm", "server boost", "server few", "client shm", "client boost", "monitor", "feed", "kafka"}
  /\ IF part = "server shm" THEN ServerShm!Init ELSE ServerBoost!Init
  /\ Client("shm")!Init /\ Watch!Init /\ FeedInit /\ KafkaInit
  /\ part # "feed" => \A t \in FeedTickers : trend[t].rate = 0 /\ trend[t].duration = 1

ProcessesNext ==
  \/ part = "server shm" /\ Server(ServerShm!Next)
  \/ part = "server boost" /\ Server(ServerBoost!Next)
  \/ part = "server few" /\ Server(ServerFew!Next)
  \/ part = "client shm" /\ ClientOf(Client("shm")!Next)
  \/ part = "client boost" /\ ClientOf(Client("boost")!Next)
  \/ OnMonitor(Watch!Next) \/ OnFeed(FeedNext) \/ OnKafka(KafkaNext)

\* Only orders tell the two servers over Boost apart.
OverBoost == part \in {"server boost", "server few"}

\* The thread that runs the system context, whichever the process.
SystemThread ==
  \/ part = "server shm" /\ Server(ServerShm!MainNext)
  \/ OverBoost /\ Server(ServerBoost!MainNext)
  \/ part = "client shm" /\ ClientOf(Client("shm")!MainNext)
  \/ part = "client boost" /\ ClientOf(Client("boost")!MainNext)
  \/ OnMonitor(Watch!SystemStep) \/ OnFeed(Handle) \/ OnKafka(Poll)

\* The other threads: those of the server by their number, the client's worker
\* and the monitor's reactor as 0, the client's network as 1; the clock that
\* lets timers expire as 0.
OtherThread(t) ==
  \/ part = "server shm" /\ t < 3 /\ Server(ServerShm!ThreadNext(t))
  \/ OverBoost /\ Server(ServerBoost!ThreadNext(t))
  \/ /\ part = "client shm"
     /\ ClientOf((t = 0 /\ Client("shm")!EngineNext) \/ (t = 1 /\ Client("shm")!NetworkNext))
  \/ /\ part = "client boost"
     /\ ClientOf((t = 0 /\ Client("boost")!EngineNext) \/ (t = 1 /\ Client("boost")!NetworkNext))
  \/ t = 0 /\ (OnMonitor(Watch!ReactorStep) \/ OnFeed(FeedExpire) \/ OnKafka(PollExpire))

\* Every thread of the process runs and its timers expire; nobody has to type,
\* to send or to fail.  The monitor's context runs its calls in the order they
\* were queued, whatever the timer that queues itself again.
ProcessesSpec ==
  /\ ProcessesInit /\ [][ProcessesNext]_allVars
  /\ WF_allVars(SystemThread) /\ \A t \in 0..3 : WF_allVars(OtherThread(t))
  /\ SF_allVars(OnMonitor(Watch!HandleCall))

-----------------------------------------------------------------------------
\* Server: no event overtakes the subscription that handles it; the network
\* starts behind the gateway, every worker and the clock; every order it delivers
\* is routed to a worker that exists and runs, also with fewer tickers than
\* workers; and at shutdown a worker that was given an order is over before the
\* gateway it calls is destroyed, the reactor before the session manager.
ServerInv ==
  /\ part = "server shm" => ServerShm!ServerInv
  /\ part = "server boost" => ServerBoost!ServerInv
  /\ part = "server few" => ServerFew!ServerInv

\* Client: the network starts behind the engine; no order is written through a
\* null channel, unless the connection was lost first; and at shutdown the worker
\* is over when the connection manager is closed, the reactor before the engine
\* it delivers to is destroyed.
ClientInv ==
  /\ part = "client shm" => Client("shm")!ClientInv
  /\ part = "client boost" => Client("boost")!ClientInv

\* Monitor: the reactor converts cycles only after nsPerCycle was measured; the
\* telemetry written was refused at a full queue, is queued, or was received; a
\* sample is counted in the bucket of its range; as long as logRtt and the
\* statistics handler never overlapped, what was shown and what is in the table
\* is what was logged; and nobody touches it once stop() has returned.
MonitorInv == Watch!Inv

-----------------------------------------------------------------------------
(* Liveness: one question at a time, of every process it can be asked of *)

Up ==
  \/ part = "server shm" /\ ServerShm!IsUp
  \/ OverBoost /\ ServerBoost!IsUp
  \/ part = "monitor" /\ Watch!IsUp
  \/ part \in {"client shm", "client boost", "feed", "kafka"}

\* Unless they are stopped first, the server comes up, to its network, and the
\* monitor, to its reactor: no readiness they wait for fails to be reported.
ProcessesComeUp == <>Up

ToldToEnd ==
  \/ part = "server shm" /\ ServerShm!ToldToEnd
  \/ part \in {"client shm", "client boost"} /\ Client("shm")!ToldToEnd
  \/ part = "monitor" /\ Watch!ToldToEnd

Ended ==
  \/ part = "server shm" /\ ServerShm!Ended
  \/ part \in {"client shm", "client boost"} /\ Client("shm")!Ended
  \/ part = "monitor" /\ Watch!Ended

\* The reactor sleeps, and has missed the notify of what waits for it.
Oversleeps ==
  \/ part = "server shm" /\ ServerShm!Oversleeps
  \/ part = "client shm" /\ Client("shm")!Oversleeps
  \/ part = "monitor" /\ Watch!Oversleeps

\* A process that is told to end does, its threads joined: the server over
\* shared memory at a shutdown or an internal error, the client at a shutdown
\* or the loss of its server, the monitor at a typed q; unless the notify of the
\* stop fell into the gap of a reactor that then sleeps for ever, because its
\* peer never writes again.
ToldProcessEnds == ToldToEnd ~> (Ended \/ []Oversleeps)

\* What waits for a running process is taken, unless it stops: telemetry by the
\* monitor, unless it fell into the gap of a reactor that then sleeps for ever,
\* because no further message is written; the next update of the price feed;
\* messages by the Kafka adapter, unless consuming them fails.
WaitingIsTaken ==
  \/ part = "monitor" /\ mqueue # <<>>
  \/ part = "feed" /\ updating
  \/ part = "kafka" /\ started /\ broker > 0
  ~>
  \/ part = "monitor" /\ (mqueue = <<>> \/ mstopReq \/ []Oversleeps)
  \/ part = "feed" /\ (~updating \/ (calls # <<>> /\ Head(calls) = "timer"))
  \/ part = "kafka" /\ (broker = 0 \/ ~started \/ failing)
=============================================================================
