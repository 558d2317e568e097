----------------------------- MODULE MCWakeUps ------------------------------
(***************************************************************************)
(* The two places where a thread sleeps on a futex, one at a time.         *)
(* LfqRunner: tso with the store buffer of the configuration, sc without   *)
(* one.  ShmReactor: the server's, and the client's, whose reader may be   *)
(* closed under it.                                                        *)
(***************************************************************************)
EXTENDS LfqRunner

VARIABLES
    part,
    pending, buffered, futex, futexCounter, waitFlag, state, readers, stopReq,
    pc, rftxVal, busy, rcpc, npc, count, peer, rdue, missed, pastEnd, emptyPop

reactorVars == <<pending, buffered, futex, futexCounter, waitFlag, state, readers, stopReq,
                 pc, rftxVal, busy, rcpc, npc, count, peer, rdue, missed, pastEnd, emptyPop>>
allVars == <<part, runnerVars, reactorVars>>

Sc == INSTANCE LfqRunner WITH STORE_BUFFER <- 0

Server == INSTANCE ShmReactor WITH
    Capacity <- 2, FutexMod <- 5, StoreBuffer <- 1, CanReset <- FALSE,
    ftxVal <- rftxVal, cpc <- rcpc, due <- rdue
ClientSide == INSTANCE ShmReactor WITH
    Capacity <- 1, FutexMod <- 4, StoreBuffer <- 1, CanReset <- TRUE,
    ftxVal <- rftxVal, cpc <- rcpc, due <- rdue

WakeUpsInit == part \in {"tso", "sc", "server", "client"} /\ RunnerInit /\ Server!Init

Runner(p, A) == part = p /\ A /\ UNCHANGED <<part, reactorVars>>
Reactor(p, A) == part = p /\ A /\ UNCHANGED <<part, runnerVars>>

WakeUpsNext ==
    \/ Runner("tso", RunnerNext) \/ Runner("sc", Sc!RunnerNext)
    \/ Reactor("server", Server!Next)
    \/ Reactor("client", ClientSide!Next)

\* Threads keep running and the store buffers drain.  Nobody need post, write or
\* stop.
WakeUpsSpec ==
    /\ WakeUpsInit /\ [][WakeUpsNext]_allVars
    /\ WF_allVars(Runner("tso", LoopNext)) /\ WF_allVars(Runner("sc", Sc!LoopNext))
    /\ WF_allVars(Runner("tso", Drain)) /\ WF_allVars(Runner("sc", Sc!Drain))
    /\ WF_allVars(Runner("tso", StopNext)) /\ WF_allVars(Runner("sc", Sc!StopNext))
    /\ WF_allVars(Runner("tso", LoadSleeping \/ Bump \/ Wake))
    /\ WF_allVars(Runner("sc", Sc!LoadSleeping \/ Sc!Bump \/ Sc!Wake))
    /\ WF_allVars(Reactor("server", Server!Loop))
    /\ WF_allVars(Reactor("server", Server!Drain))
    /\ \A n \in {"writer", "control"} : WF_allVars(Reactor("server", Server!Notify(n)))
    /\ WF_allVars(Reactor("server", Server!Components))

-----------------------------------------------------------------------------
\* LfqRunner: with no further post, every message is consumed that was in memory
\* when post() read the flag, and of the messages written all but the last
\* STORE_BUFFER are (without a store buffer, all), unless the runner is stopped.
\* ShmReactor, in the server: with no further message, what a notify found outside
\* the reactor's gap is polled, unless the reactor is stopped.
MessagesDelivered ==
    /\ Delivered /\ OnlyTheLastWait /\ (part = "sc" => Sc!OnlyTheLastWait)
    /\ part = "server" => Server!TrafficIsPolled

\* ShmReactor: asleep in the kernel, with no notify of the writer under way, it
\* has read all that a notify found outside its gap; and the server's loop runs
\* on with the vector that stop() cleared only while stop() waits for it, and
\* never removes a reader from it.
ReactorInv == IF part = "client" THEN ClientSide!Inv ELSE Server!Inv

\* stop() comes through wherever the thread is that it joins, with no further
\* message: in LfqRunner always, in the server's ShmReactor unless its notify fell
\* between the reactor's last test of the stop token and its waitFlag.  Such a
\* stop comes through once a message is written to the sleeping reactor.
StopComesThrough == StopReturns /\ (part = "server" => Server!StopCompletes)
=============================================================================
