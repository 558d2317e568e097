--------------------------- MODULE WorkerStatuses ---------------------------
(***************************************************************************)
(* From the network thread through the workers to the gateway: the         *)
(* Coordinator posts an order to the worker of its ticker, the worker's    *)
(* book answers with statuses, and every worker posts them to the one      *)
(* runner of the OrderGateway.  The queues into the workers have a single  *)
(* producer, and are FIFO as SequencedSPSC proves; write() and read() of   *)
(* the gateway's queue are taken apart, because with several workers it    *)
(* has several producers.                                                  *)
(***************************************************************************)
EXTENDS Naturals, Sequences, SequencesExt, FiniteSets

CONSTANTS
  Workers,      \* workers; one ticker belongs to each
  SlotCount,    \* slots of the gateway's queue
  MAX_ORDERS    \* orders posted

VARIABLES
  posted,       \* orders the network thread has posted: the worker of each
  inbox,        \* queue of each worker: numbers of orders
  pc, status, idx,   \* worker: place in write(), its status, the writeIdx_ it loaded
  seq, data, writeIdx,   \* the gateway's queue
  readIdx, rpc, taken,   \* the gateway's thread
  dropped,      \* statuses given up on, with an InternalError
  done,         \* history: statuses whose write() returned true
  handled       \* history: statuses given to OrderGateway::post

queue == <<seq, data, writeIdx>>
gateway == <<readIdx, rpc, taken, handled>>
vars == <<posted, inbox, pc, status, idx, queue, gateway, dropped, done>>

Slot == 0..(SlotCount - 1)

Init ==
  /\ posted = <<>> /\ inbox = [w \in Workers |-> <<>>]
  /\ pc = [w \in Workers |-> "idle"] /\ status = [w \in Workers |-> 0] /\ idx = [w \in Workers |-> 0]
  /\ seq = [s \in Slot |-> s] /\ data = [s \in Slot |-> 0] /\ writeIdx = 0
  /\ readIdx = 0 /\ rpc = "idle" /\ taken = 0 /\ dropped = {} /\ done = {} /\ handled = <<>>

-----------------------------------------------------------------------------
(* The network thread *)

\* Coordinator::post, by the ticker's worker.
Post ==
  /\ Len(posted) < MAX_ORDERS
  /\ \E w \in Workers :
       /\ posted' = Append(posted, w)
       /\ inbox' = [inbox EXCEPT ![w] = Append(@, Len(posted) + 1)]
  /\ UNCHANGED <<pc, status, idx, queue, gateway, dropped, done>>

-----------------------------------------------------------------------------
(* A worker; the book answers each order with one status here *)

Match(w) ==
  /\ pc[w] = "idle" /\ inbox[w] # <<>>
  /\ inbox' = [inbox EXCEPT ![w] = Tail(@)]
  /\ status' = [status EXCEPT ![w] = Head(inbox[w])]
  /\ pc' = [pc EXCEPT ![w] = "check"]
  /\ UNCHANGED <<posted, idx, queue, gateway, dropped, done>>

\* LfqRunner::post tries again when write() finds no free slot.
Check(w) ==
  /\ pc[w] = "check"
  /\ seq[writeIdx % SlotCount] = writeIdx
  /\ idx' = [idx EXCEPT ![w] = writeIdx] /\ pc' = [pc EXCEPT ![w] = "copy"]
  /\ UNCHANGED <<posted, inbox, status, queue, gateway, dropped, done>>

\* SpinWait is exhausted before a slot is free.
GiveUp(w) ==
  /\ pc[w] = "check" /\ seq[writeIdx % SlotCount] # writeIdx
  /\ dropped' = dropped \cup {status[w]} /\ pc' = [pc EXCEPT ![w] = "idle"]
  /\ UNCHANGED <<posted, inbox, status, idx, queue, gateway, done>>

Copy(w) ==
  /\ pc[w] = "copy" /\ pc' = [pc EXCEPT ![w] = "publish"]
  /\ data' = [data EXCEPT ![idx[w] % SlotCount] = status[w]]
  /\ UNCHANGED <<posted, inbox, status, idx, seq, writeIdx, gateway, dropped, done>>

Publish(w) ==
  /\ pc[w] = "publish" /\ pc' = [pc EXCEPT ![w] = "bump"]
  /\ seq' = [seq EXCEPT ![idx[w] % SlotCount] = idx[w] + 1]
  /\ UNCHANGED <<posted, inbox, status, idx, data, writeIdx, gateway, dropped, done>>

Bump(w) ==
  /\ pc[w] = "bump" /\ pc' = [pc EXCEPT ![w] = "idle"]
  /\ writeIdx' = idx[w] + 1 /\ done' = done \cup {status[w]}
  /\ UNCHANGED <<posted, inbox, status, idx, seq, data, gateway, dropped>>

-----------------------------------------------------------------------------
(* The gateway's thread *)

ReadCopy ==
  /\ rpc = "idle" /\ seq[readIdx % SlotCount] = readIdx + 1
  /\ taken' = data[readIdx % SlotCount] /\ rpc' = "release"
  /\ UNCHANGED <<posted, inbox, pc, status, idx, queue, readIdx, handled, dropped, done>>

\* The slot is released, and the status handled.
Release ==
  /\ rpc = "release" /\ rpc' = "idle"
  /\ seq' = [seq EXCEPT ![readIdx % SlotCount] = readIdx + SlotCount] /\ readIdx' = readIdx + 1
  /\ handled' = Append(handled, taken)
  /\ UNCHANGED <<posted, inbox, pc, status, idx, data, writeIdx, taken, dropped, done>>

Work(w) == Match(w) \/ Check(w) \/ GiveUp(w) \/ Copy(w) \/ Publish(w) \/ Bump(w)
Next == Post \/ ReadCopy \/ Release \/ \E w \in Workers : Work(w)

\* Every thread runs; orders need not come.
Spec == Init /\ [][Next]_vars /\ WF_vars(ReadCopy \/ Release) /\ \A w \in Workers : WF_vars(Work(w))

-----------------------------------------------------------------------------
\* A status whose write() returned true is in the queue, being taken, or has
\* been handled: no worker overwrites the status of another.
WrittenIsKept ==
  done \subseteq ToSet(handled)
                 \cup (IF rpc = "release" THEN {taken} ELSE {})
                 \cup {data[s] : s \in {s \in Slot : seq[s] # 0 /\ (seq[s] - 1) % SlotCount = s}}
=============================================================================
