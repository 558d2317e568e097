----------------------------- MODULE ShmReactor -----------------------------
(***************************************************************************)
(* One direction of the shared-memory transport: the ShmWriter of the peer *)
(* process, the ShmQueue both processes map, and the ShmReader that the    *)
(* ShmReactor of this process polls, sleeping on the queue's futex when it *)
(* stays empty.  Every load and store of the wait and notify protocol is a *)
(* step of its own.                                                        *)
(*                                                                         *)
(* The writer's stores pass through the store buffer of its core, oldest   *)
(* first: release and acquire do not keep its load of waitFlag behind its  *)
(* store of the slot.  The reactor's store of waitFlag is the step that makes it    *)
(* visible, no later than its system call.                                 *)
(*                                                                         *)
(* The slots of the queue are those of SequencedSPSC; here only their      *)
(* number, pending, matters.  The reactor of the program has one reader:   *)
(* the server's polls the upstream queue, the client's the downstream one. *)
(* CanReset tells the two apart: TrustedConnectionManager::reset of the    *)
(* client may close the reader under a running reactor, the server closes  *)
(* it in ControlCenter::stop, after the reactor is joined.                 *)
(***************************************************************************)
EXTENDS Naturals, Sequences

CONSTANTS
  Capacity,   \* messages the queue holds (128K slots in the program)
  FutexMod,   \* values of the futex word (2^32 in the program); more than can
              \* be stored while a waiter waits: a notify for each slot, one of
              \* stop() and one of close()
  StoreBuffer,  \* messages the store buffer may delay past the load of waitFlag
  CanReset    \* whether the reader may be closed under a running reactor

VARIABLES
  pending,       \* messages in memory and not read yet
  buffered,      \* messages written that are still in the writer's store buffer
  futex, futexCounter, waitFlag,   \* the control block of ShmQueue
  state,         \* ShmReader::state_
  readers,       \* ShmReactor::readers_
  stopReq,       \* the stop token
  pc, ftxVal, busy,   \* the reactor's thread: place, and locals of wait and loop;
                 \* a local is 0 again once it was used
  cpc,           \* the thread that starts and stops the components
  npc, count,    \* calls of notify: place, and the value read of futexCounter
  peer,          \* whether the peer's writer still writes
  due,           \* history: of pending, what was in memory when a notify of the
                 \* writer last found the reactor outside its gap (see InGap)
  missed,        \* history: the notify of stop() fell into the gap
  pastEnd,       \* history: an element of the empty readers_ was used
  emptyPop       \* history: back() was taken of the empty readers_

queueVars == <<pending, buffered, futex, futexCounter, waitFlag>>
loopVars == <<pc, ftxVal, busy, pastEnd, emptyPop>>
notifyVars == <<npc, count, due, missed>>
vars == <<queueVars, loopVars, notifyVars, state, readers, stopReq, cpc, peer>>

Reader == "reader"
Notifiers == {"writer", "control", "reset"}
LoopPlaces == {"idle", "head", "for", "poll", "after", "load", "flag", "wait",
               "asleep", "woken", "end"}
ControlPlaces == {"init", "added", "up", "clear", "join", "close", "last", "done"}

TypeOK ==
  /\ {pending, buffered, due} \subseteq 0..Capacity
  /\ {futex, futexCounter, ftxVal} \subseteq 0..(FutexMod - 1)
  /\ {waitFlag, stopReq, busy, missed, pastEnd, emptyPop} \subseteq BOOLEAN
  /\ state \in {"Ready", "Active", "Closing", "Closed"}
  /\ readers \in {<<>>, <<Reader>>}
  /\ pc \in LoopPlaces /\ cpc \in ControlPlaces
  /\ npc \in [Notifiers -> {"none", "load", "count", "store", "wake"}]
  /\ count \in [Notifiers -> 0..(FutexMod - 1)]
  /\ peer \in {"open", "closed"}

Init ==
  /\ pending = 0 /\ buffered = 0 /\ futex = 0 /\ futexCounter = 0 /\ waitFlag = FALSE
  /\ state = "Ready" /\ readers = <<>> /\ stopReq = FALSE
  /\ pc = "idle" /\ ftxVal = 0 /\ busy = FALSE
  /\ due = 0 /\ missed = FALSE /\ pastEnd = FALSE /\ emptyPop = FALSE
  /\ cpc = "init" /\ peer = "open"
  /\ npc = [n \in Notifiers |-> "none"] /\ count = [n \in Notifiers |-> 0]

-----------------------------------------------------------------------------
(* ShmQueue::notify, called by n *)

\* An idle pass is over: the reactor may go to sleep without another poll.
IdlePass == pc = "after" /\ ~busy

\* The gap: the reactor has polled for the last time and has not raised
\* waitFlag yet.  Who finds the flag down now does not wake it.
InGap == IdlePass \/ pc \in {"load", "flag"}

\* For stop() the gap is longer: a stop request breaks the pass off before the
\* poll, and the loop may sleep before it tests the token again.
InStopGap == InGap \/ (pc \in {"for", "poll"} /\ ~busy)

NotifyLoadFlag(n) ==
  /\ npc[n] = "load"
  /\ n = "writer" => buffered <= StoreBuffer
  /\ npc' = [npc EXCEPT ![n] = IF waitFlag THEN "count" ELSE "none"]
  /\ due' = IF n = "writer" /\ ~waitFlag /\ ~InGap THEN pending ELSE due
  /\ missed' = IF n = "control" /\ ~waitFlag /\ InStopGap THEN TRUE ELSE missed
  /\ UNCHANGED <<queueVars, loopVars, state, readers, stopReq, cpc, count, peer>>

\* ++futexCounter is a plain read and write of memory that two processes share.
NotifyReadCounter(n) ==
  /\ npc[n] = "count"
  /\ npc' = [npc EXCEPT ![n] = "store"]
  /\ count' = [count EXCEPT ![n] = futexCounter]
  /\ UNCHANGED <<queueVars, loopVars, due, missed, state, readers, stopReq, cpc, peer>>

FaultyNotifyNoStore(n) ==
  /\ npc[n] = "store" /\ npc' = [npc EXCEPT ![n] = "wake"]
  /\ due' = IF n = "writer" /\ ~IdlePass /\ pc # "load" THEN pending ELSE due
  /\ UNCHANGED <<queueVars, loopVars, missed, state, readers, stopReq, cpc, count, peer>>

\* The writer's slots leave its store buffer before the futex does.  A reactor
\* that has loaded the futex compares it with the new value.
NotifyStoreFutex(n) ==
  /\ npc[n] = "store"
  /\ n = "writer" => buffered = 0
  /\ npc' = [npc EXCEPT ![n] = "wake"]
  /\ futexCounter' = (count[n] + 1) % FutexMod
  /\ futex' = (count[n] + 1) % FutexMod
  /\ count' = [count EXCEPT ![n] = 0]
  /\ due' = IF n = "writer" /\ ~IdlePass /\ pc # "load" THEN pending ELSE due
  /\ UNCHANGED <<pending, buffered, waitFlag, loopVars, missed, state, readers, stopReq,
                 cpc, peer>>

FaultyWakeNobody(n) ==
  /\ npc[n] = "wake" /\ npc' = [npc EXCEPT ![n] = "none"]
  /\ UNCHANGED <<queueVars, loopVars, due, missed, state, readers, stopReq, cpc, count, peer>>

FutexWake(n) ==
  /\ npc[n] = "wake"
  /\ npc' = [npc EXCEPT ![n] = "none"]
  /\ pc' = IF pc = "asleep" THEN "woken" ELSE pc
  /\ UNCHANGED <<queueVars, ftxVal, busy, pastEnd, emptyPop, due, missed, state, readers,
                 stopReq, cpc, count, peer>>

Notify(n) ==
  NotifyLoadFlag(n) \/ NotifyReadCounter(n) \/ NotifyStoreFutex(n) \/ FutexWake(n)

-----------------------------------------------------------------------------
(* The peer's writer *)

\* ShmWriter::syncTx with room in the queue: the message is written, then the
\* reader is notified.
SyncTx ==
  /\ peer = "open" /\ npc["writer"] = "none"
  /\ pending + buffered < Capacity
  /\ buffered' = buffered + 1
  /\ npc' = [npc EXCEPT !["writer"] = "load"]
  /\ UNCHANGED <<pending, futex, futexCounter, waitFlag, loopVars, due, missed, state,
                 readers, stopReq, cpc, count, peer>>

\* The store buffer writes the oldest slot to memory.
Drain ==
  /\ buffered > 0
  /\ buffered' = buffered - 1 /\ pending' = pending + 1
  /\ UNCHANGED <<futex, futexCounter, waitFlag, loopVars, notifyVars, state, readers,
                 stopReq, cpc, peer>>

\* The queue stays full until the spin is exhausted, or the count of the
\* segment says that the reader is gone: syncTx fails, and its caller closes
\* the transport (the client's reset) or stops the process (the server's
\* InternalError).
SyncTxFails ==
  /\ peer = "open" /\ npc["writer"] = "none"
  /\ pending + buffered = Capacity
  /\ peer' = "closed"
  /\ UNCHANGED <<queueVars, loopVars, notifyVars, state, readers, stopReq, cpc>>

-----------------------------------------------------------------------------
(* ShmReactor::loop *)

LoopHead ==
  /\ pc = "head"
  /\ pc' = IF stopReq THEN "end" ELSE "for"
  /\ busy' = FALSE
  /\ UNCHANGED <<queueVars, ftxVal, pastEnd, emptyPop, notifyVars, state, readers, stopReq, cpc, peer>>

LoopFor ==
  /\ pc = "for"
  /\ pc' = IF readers = <<>> \/ stopReq THEN "after" ELSE "poll"
  /\ UNCHANGED <<queueVars, ftxVal, busy, pastEnd, emptyPop, notifyVars, state, readers, stopReq,
                 cpc, peer>>

\* stop() may have cleared readers_ since the loop tested its size.  clear()
\* leaves the storage as it is, so an element past the end is still the reader.
UsesReader == pastEnd' = IF readers = <<>> THEN TRUE ELSE pastEnd

\* ShmReader::poll of an open reader.
PollOpen ==
  /\ pc = "poll" /\ state \in {"Ready", "Active"}
  /\ pc' = "after"
  /\ UsesReader
  /\ LET got == state = "Active" /\ pending > 0
     IN  /\ busy' = got
         /\ pending' = IF got THEN pending - 1 ELSE pending
         /\ due' = IF got /\ due > 0 THEN due - 1 ELSE due
  /\ UNCHANGED <<buffered, futex, futexCounter, waitFlag, ftxVal, emptyPop, npc, count, missed,
                 state, readers, stopReq, cpc, peer>>

\* poll of a closing or closed reader, and the removal of the vanished reader
\* from readers_.  Of a vector that stop() has cleared, back() and pop_back()
\* are taken of nothing, its size wraps and the loop goes on.
PollVanished ==
  /\ pc = "poll" /\ state \in {"Closing", "Closed"}
  /\ state' = "Closed"
  /\ UsesReader
  /\ IF readers = <<>>
       THEN emptyPop' = TRUE /\ pc' = "after" /\ UNCHANGED readers
       ELSE readers' = Tail(readers) /\ pc' = "end" /\ UNCHANGED emptyPop
  /\ UNCHANGED <<queueVars, ftxVal, busy, notifyVars, stopReq, cpc, peer>>

\* After a pass: poll again, or call wait() of readers_[0] once the spin of idle
\* passes is used up.
AfterPass ==
  /\ pc = "after"
  /\ \/ pc' = "head" /\ UNCHANGED pastEnd
     \/ ~busy /\ pc' = "load" /\ UsesReader
  /\ UNCHANGED <<queueVars, ftxVal, busy, emptyPop, notifyVars, state, readers, stopReq, cpc, peer>>

(* ShmQueue::wait *)

WaitLoadFutex ==
  /\ pc = "load" /\ pc' = "flag"
  /\ ftxVal' = futex
  /\ UNCHANGED <<queueVars, busy, pastEnd, emptyPop, notifyVars, state, readers, stopReq, cpc, peer>>

WaitRaiseFlag ==
  /\ pc = "flag" /\ pc' = "wait"
  /\ waitFlag' = TRUE
  /\ UNCHANGED <<pending, buffered, futex, futexCounter, ftxVal, busy, pastEnd, emptyPop,
                 notifyVars, state, readers, stopReq, cpc, peer>>

FutexWait ==
  /\ pc = "wait"
  /\ pc' = IF futex = ftxVal THEN "asleep" ELSE "woken"
  /\ ftxVal' = 0
  /\ UNCHANGED <<queueVars, busy, pastEnd, emptyPop, notifyVars, state, readers, stopReq, cpc, peer>>

\* FUTEX_WAIT may return without a wake (a signal); nothing makes it.
SpuriousWakeup ==
  /\ pc = "asleep" /\ pc' = "woken"
  /\ UNCHANGED <<queueVars, ftxVal, busy, pastEnd, emptyPop, notifyVars, state, readers, stopReq,
                 cpc, peer>>

WaitLowerFlag ==
  /\ pc = "woken" /\ pc' = "head"
  /\ waitFlag' = FALSE
  /\ UNCHANGED <<pending, buffered, futex, futexCounter, ftxVal, busy, pastEnd, emptyPop,
                 notifyVars, state, readers, stopReq, cpc, peer>>

Loop ==
  \/ LoopHead \/ LoopFor \/ PollOpen \/ PollVanished \/ AfterPass
  \/ WaitLoadFutex \/ WaitRaiseFlag \/ FutexWait \/ WaitLowerFlag

-----------------------------------------------------------------------------
(* The thread of the control centre *)

\* ShmReader::asyncRx and ShmReactor::add, from ShmServer/ShmClient::initialize.
AsyncRx ==
  /\ cpc = "init" /\ cpc' = "added"
  /\ state' = "Active" /\ readers' = <<Reader>>
  /\ UNCHANGED <<queueVars, loopVars, notifyVars, stopReq, peer>>

\* ShmReactor::run: the loop returns at once when no reader is registered.
Run ==
  /\ cpc = "added" /\ cpc' = "up"
  /\ pc' = IF readers = <<>> THEN "end" ELSE "head"
  /\ UNCHANGED <<queueVars, ftxVal, busy, pastEnd, emptyPop, notifyVars, state, readers, stopReq, peer>>

\* ControlCenter::stop requests the stop; ShmReactor::stop then notifies the reader.
RequestStop ==
  /\ cpc = "up" /\ cpc' = "clear"
  /\ stopReq' = TRUE
  /\ npc' = IF readers = <<>> THEN npc ELSE [npc EXCEPT !["control"] = "load"]
  /\ UNCHANGED <<queueVars, loopVars, state, readers, count, due, missed, peer>>

ClearReaders ==
  /\ cpc = "clear" /\ npc["control"] = "none" /\ cpc' = "join"
  /\ readers' = <<>>
  /\ UNCHANGED <<queueVars, loopVars, notifyVars, state, stopReq, peer>>

JoinThread ==
  /\ cpc = "join" /\ pc = "end" /\ cpc' = "close"
  /\ UNCHANGED <<queueVars, loopVars, notifyVars, state, readers, stopReq, peer>>

\* ShmReader::close: from sessionMgr_.close() at the end of the stop, and from
\* the client's reset() on the thread that failed to write.
ReaderClose(n) ==
  /\ IF state \in {"Ready", "Active"}
       THEN state' = "Closing" /\ npc' = [npc EXCEPT ![n] = "load"]
       ELSE UNCHANGED <<state, npc>>
  /\ UNCHANGED <<queueVars, loopVars, readers, stopReq, count, due, missed, peer>>

Close ==
  /\ cpc = "close" /\ cpc' = "last"
  /\ ReaderClose("control")

Reset ==
  /\ CanReset /\ cpc \notin {"init", "added"} /\ npc["reset"] = "none"
  /\ state = "Active"
  /\ cpc' = cpc
  /\ ReaderClose("reset")

Stopped ==
  /\ cpc = "last" /\ npc["control"] = "none" /\ cpc' = "done"
  /\ UNCHANGED <<queueVars, loopVars, notifyVars, state, readers, stopReq, peer>>

\* What the control centre does by itself, once a start or a stop was asked for.
Components == AsyncRx \/ Run \/ ClearReaders \/ JoinThread \/ Close \/ Stopped

Next ==
  \/ SyncTx \/ SyncTxFails \/ Drain
  \/ \E n \in Notifiers : Notify(n)
  \/ Loop \/ SpuriousWakeup
  \/ Components \/ RequestStop \/ Reset

\* Threads that can step do, and the store buffer drains; nothing makes the peer
\* write, the user stop the process, or FUTEX_WAIT return early.
Spec ==
  /\ Init /\ [][Next]_vars
  /\ WF_vars(Loop) /\ WF_vars(Drain)
  /\ \A n \in Notifiers : WF_vars(Notify(n))
  /\ WF_vars(Components)

-----------------------------------------------------------------------------
(* ShmQueue::wait and notify: a reactor asleep in the kernel, with no notify  *)
(* of the writer under way, has read every message that was in memory when a  *)
(* notify found it outside the gap between its last poll and its flag.        *)
(* (Stated for a reader that nobody closes or stops.)                         *)
NewDataWakes ==
  pc = "asleep" /\ npc["writer"] = "none" /\ state = "Active" /\ ~stopReq => due = 0

(* ShmReactor::stop clears readers_ under the running loop.  In the server,   *)
(* the loop then never removes a reader from the cleared vector, and it runs  *)
(* on with that vector only while stop() waits in its join: the reader it     *)
(* finds past the end is not closed yet.                                      *)
ClearedUnderLoop ==
  /\ ~emptyPop
  /\ pastEnd /\ pc # "end" => cpc = "join" /\ state = "Active"

(* What a notify found outside the gap keeps nobody waiting: the reactor      *)
(* polls a message, unless it is stopped or its reader closed, and no other   *)
(* message need follow.  A message that fell into the gap is polled with the  *)
(* next one that does not.                                                    *)
TrafficIsPolled == due > 0 ~> busy \/ stopReq \/ state # "Active"

(* ControlCenter::stop comes through ShmReactor::stop and its join with a     *)
(* silent peer, unless its notify fell into the gap; then it comes through    *)
(* once the writer notifies the sleeping reactor.  (Stated for two notifiers: *)
(* with the client's reset() as a third, the unprotected ++futexCounter can   *)
(* give the futex the value a waiter loaded.)                                 *)
StopCompletes ==
  /\ stopReq ~> cpc = "done" \/ missed
  /\ missed /\ pc = "asleep" /\ npc["writer"] = "load" ~> cpc = "done"

\* Safety, with what is promised only where no reset() closes the reader.
Inv == TypeOK /\ NewDataWakes /\ (~CanReset => ClearedUnderLoop)
=============================================================================
