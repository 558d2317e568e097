----------------------------- MODULE LfqRunner -----------------------------
(***************************************************************************)
(* LfqRunner (common/src/runner/lfq_runner.hpp): a thread that consumes a  *)
(* SequencedSPSC queue, spins a while when it is empty, then sleeps on a   *)
(* futex.  The poster wakes it only if it sees the sleeping_ flag.         *)
(*                                                                         *)
(* The queue delivers in order (SequencedSPSC), so it is counters here.    *)
(* Stores of the poster pass through the store buffer of its x86 core:     *)
(* post() may load sleeping_ while up to STORE_BUFFER of its messages are  *)
(* not in memory yet.  The store of sleeping_ is sequentially consistent,  *)
(* so it waits for memory, as an atomic increment does.                    *)
(***************************************************************************)
EXTENDS Integers

CONSTANTS
    Capacity,       \* of the queue
    STORE_BUFFER,   \* stores that may be delayed; 0 is sequential consistency
    MAX_POSTS       \* bound: number of calls of post()

ASSUME RunnerAssumption ==
    /\ Capacity \in Nat \ {0} /\ STORE_BUFFER \in Nat /\ MAX_POSTS \in Nat

VARIABLES
    posted,         \* messages written by the poster
    visible,        \* of these, the ones in memory
    consumed,       \* messages the consumer read
    calls,          \* calls of post()
    error,          \* post() gave up on a full queue and posted an InternalError
    sleeping, ftx,  \* sleeping_, ftx_
    ppc,            \* poster: idle, flag, bump or wake
    cpc, ftxVal,    \* consumer: start, loop, load, flag, check, wait, asleep,
                    \*   awake or exit, and its copy of ftx_
    started,        \* started_
    stop, spc,      \* the stop token; stop(): idle, bump, wake, join or done
    due             \* history: messages in memory when post() last read sleeping_

poster == <<posted, calls, error, ppc, due>>
consumer == <<consumed, sleeping, cpc, ftxVal>>
stopper == <<stop, spc>>
runnerVars == <<poster, visible, consumer, ftx, started, stopper>>
-----------------------------------------------------------------------------
(* post(): after a stop request it does nothing.                           *)

Write ==
    /\ ppc = "idle"
    /\ ~stop
    /\ calls < MAX_POSTS
    /\ posted - consumed < Capacity
    /\ posted' = posted + 1
    /\ calls' = calls + 1
    /\ ppc' = "flag"
    /\ UNCHANGED <<error, due, visible, consumer, ftx, started, stopper>>

\* The queue stays full until the spinning ends: the message is dropped.
GiveUp ==
    /\ ppc = "idle"
    /\ ~stop
    /\ calls < MAX_POSTS
    /\ posted - consumed = Capacity
    /\ error' = TRUE
    /\ calls' = calls + 1
    /\ ppc' = "flag"
    /\ UNCHANGED <<posted, due, visible, consumer, ftx, started, stopper>>

\* Where post() goes after it loaded sleeping_.
AfterFlag == IF sleeping THEN "bump" ELSE "idle"

LoadSleeping ==
    /\ ppc = "flag"
    /\ posted - visible <= STORE_BUFFER
    /\ ppc' = AfterFlag
    /\ due' = visible
    /\ UNCHANGED <<posted, calls, error, visible, consumer, ftx, started, stopper>>

\* ftx_.fetch_add drains the store buffer.
Bump ==
    /\ ppc = "bump"
    /\ visible = posted
    /\ ftx' = ftx + 1
    /\ ppc' = "wake"
    /\ UNCHANGED <<posted, calls, error, due, visible, consumer, started, stopper>>

\* futexWake
WakeUp == cpc' = IF cpc = "asleep" THEN "awake" ELSE cpc

Wake ==
    /\ ppc = "wake"
    /\ WakeUp
    /\ ppc' = "idle"
    /\ UNCHANGED <<posted, calls, error, due, visible, consumed, sleeping, ftxVal, ftx, started, stopper>>

\* The store buffer writes the oldest store to memory.
Drain ==
    /\ visible < posted
    /\ visible' = visible + 1
    /\ UNCHANGED <<poster, consumer, ftx, started, stopper>>
-----------------------------------------------------------------------------
(* The consumer thread.                                                    *)

Start ==
    /\ cpc = "start"
    /\ started' = TRUE
    /\ cpc' = "loop"
    /\ UNCHANGED <<poster, visible, consumed, sleeping, ftxVal, ftx, stopper>>

\* The loop reads a message and passes it on.
Consume ==
    /\ cpc = "loop"
    /\ ~stop
    /\ consumed < visible
    /\ consumed' = consumed + 1
    /\ UNCHANGED <<poster, visible, sleeping, cpc, ftxVal, ftx, started, stopper>>

\* The queue was empty for as long as the loop spins.
SpinEnds ==
    /\ cpc = "loop"
    /\ ~stop
    /\ consumed = visible
    /\ cpc' = "load"
    /\ UNCHANGED <<poster, visible, consumed, sleeping, ftxVal, ftx, started, stopper>>

LoadFutex ==
    /\ cpc = "load"
    /\ ftxVal' = ftx
    /\ cpc' = "flag"
    /\ UNCHANGED <<poster, visible, consumed, sleeping, ftx, started, stopper>>

RaiseFlag ==
    /\ cpc = "flag"
    /\ sleeping' = TRUE
    /\ cpc' = "check"
    /\ UNCHANGED <<poster, visible, consumed, ftxVal, ftx, started, stopper>>

FaultyNothingArrived == FALSE
\* The second read of the queue, with the flag raised, finds a message.
Arrived == consumed < visible

LastRead ==
    /\ cpc = "check"
    /\ Arrived
    /\ sleeping' = FALSE
    /\ consumed' = consumed + 1
    /\ cpc' = "loop"
    /\ UNCHANGED <<poster, visible, ftxVal, ftx, started, stopper>>

\* The stop token is checked once more before the thread sleeps.
StopSeen == stop

GoToSleep ==
    /\ cpc = "check"
    /\ ~Arrived
    /\ ~StopSeen
    /\ cpc' = "wait"
    /\ UNCHANGED <<poster, visible, consumed, sleeping, ftxVal, ftx, started, stopper>>

\* futexWait sleeps only if the futex still has the value loaded before.
AfterWait == IF ftx = ftxVal THEN "asleep" ELSE "awake"

FutexWait ==
    /\ cpc = "wait"
    /\ cpc' = AfterWait
    /\ UNCHANGED <<poster, visible, consumed, sleeping, ftxVal, ftx, started, stopper>>

\* A futex may wake up for no reason.
SpuriousWake ==
    /\ cpc = "asleep"
    /\ cpc' = "awake"
    /\ UNCHANGED <<poster, visible, consumed, sleeping, ftxVal, ftx, started, stopper>>

LowerFlag ==
    /\ cpc = "awake"
    /\ sleeping' = FALSE
    /\ cpc' = "loop"
    /\ UNCHANGED <<poster, visible, consumed, ftxVal, ftx, started, stopper>>

Exit ==
    /\ stop
    /\ cpc = "loop" \/ (cpc = "check" /\ ~Arrived /\ StopSeen)
    /\ cpc' = "exit"
    /\ UNCHANGED <<poster, visible, consumed, sleeping, ftxVal, ftx, started, stopper>>
-----------------------------------------------------------------------------
(* The stop token is set before stop() is called.                          *)

RequestStop ==
    /\ ~stop
    /\ stop' = TRUE
    /\ UNCHANGED <<poster, visible, consumer, ftx, started, spc>>

\* stop() returns at once if the thread has not started; the thread then finds
\* the stop token set.
StopCalled ==
    /\ stop /\ spc = "idle"
    /\ spc' = IF started THEN "bump" ELSE "done"
    /\ started' = FALSE
    /\ UNCHANGED <<poster, visible, consumer, ftx, stop>>

FaultyNoBump == ftx
\* The new value of the futex.
Bumped == ftx + 1

StopBump ==
    /\ spc = "bump"
    /\ ftx' = Bumped
    /\ spc' = "wake"
    /\ UNCHANGED <<poster, visible, consumer, started, stop>>

StopWake ==
    /\ spc = "wake"
    /\ WakeUp
    /\ spc' = "join"
    /\ UNCHANGED <<poster, visible, consumed, sleeping, ftxVal, ftx, started, stop>>

Join ==
    /\ spc = "join"
    /\ cpc = "exit"
    /\ spc' = "done"
    /\ UNCHANGED <<poster, visible, consumer, ftx, started, stop>>
-----------------------------------------------------------------------------
RunnerInit ==
    /\ posted = 0 /\ visible = 0 /\ consumed = 0 /\ calls = 0 /\ error = FALSE
    /\ sleeping = FALSE /\ ftx = 0 /\ ftxVal = 0
    /\ ppc = "idle" /\ cpc = "start" /\ started = FALSE
    /\ stop = FALSE /\ spc = "idle" /\ due = 0

PosterNext == Write \/ GiveUp \/ LoadSleeping \/ Bump \/ Wake

LoopNext ==
    \/ Start \/ Consume \/ SpinEnds \/ LoadFutex \/ RaiseFlag \/ LastRead \/ GoToSleep
    \/ FutexWait \/ LowerFlag \/ Exit

StopNext == StopCalled \/ StopBump \/ StopWake \/ Join

RunnerNext == PosterNext \/ Drain \/ LoopNext \/ SpuriousWake \/ RequestStop \/ StopNext

RunnerSpec == RunnerInit /\ [][RunnerNext]_runnerVars
-----------------------------------------------------------------------------
(* Properties.                                                             *)

\* Every variable of the runner has its type.
RunnerTypeOK ==
    /\ posted \in Nat /\ visible \in Nat /\ consumed \in Nat /\ calls \in Nat /\ due \in Nat
    /\ error \in BOOLEAN /\ sleeping \in BOOLEAN /\ started \in BOOLEAN /\ stop \in BOOLEAN
    /\ ftx \in Nat /\ ftxVal \in Nat
    /\ ppc \in {"idle", "flag", "bump", "wake"}
    /\ cpc \in {"start", "loop", "load", "flag", "check", "wait", "asleep", "awake", "exit"}
    /\ spc \in {"idle", "bump", "wake", "join", "done"}

\* No lost wake-up: while the consumer sleeps, a message that was in memory when
\* post() looked at the flag is not forgotten; the poster is about to wake it.
NoLostWakeUp == cpc = "asleep" /\ consumed < due => ppc \in {"bump", "wake"}

\* stop() never waits for a thread that sleeps: when it joins, the thread is
\* awake and will see the stop token.
JoinsAwakeThread == spc = "join" => cpc \notin {"asleep", "start"}

\* Every message in memory when post() reads the flag is consumed: with a store
\* buffer, at the latest through the next post; without one, every message.
Delivered == \A m \in 1 .. MAX_POSTS : due >= m ~> (consumed >= m \/ stop)

\* Of the messages written only the last ones, as many as the store buffer may
\* hold back, can stay behind a consumer that fell asleep; the next post brings
\* them with it.  Without a store buffer every message is consumed.
OnlyTheLastWait ==
    \A m \in 1 .. MAX_POSTS : posted >= m + STORE_BUFFER ~> (consumed >= m \/ stop)

\* After a stop request the thread ends and stop() returns, wherever they are.
StopReturns == (stop ~> cpc = "exit") /\ (spc = "join" ~> spc = "done")
\* The inductive invariant: the flag is up while the consumer is about to sleep
\* or sleeps, and whoever finds it up, or stops the runner, changes the futex
\* before the consumer can sleep on the value it loaded.
WaitInv ==
    /\ consumed <= visible /\ visible <= posted /\ due <= visible
    /\ cpc \in {"check", "wait", "asleep", "awake"} => sleeping
    /\ ftxVal <= ftx
    /\ cpc = "wait" /\ consumed < due => ppc = "bump" \/ ftxVal < ftx
    /\ cpc = "wait" /\ spc \in {"wake", "join"} => ftxVal < ftx
    /\ spc \in {"bump", "wake", "join"} => stop /\ cpc # "start"
    /\ started => cpc # "start"
=============================================================================
