----------------------------- MODULE BufferPool -----------------------------
(***************************************************************************)
(* The pool of network buffers (common/src/containers/buffer_pool.hpp) over*)
(* Vyukov's bounded queue (vyukov_mpmc.hpp), one atomic access per action. *)
(* A thread acquires a buffer to write a message (Channel::write) and any  *)
(* thread that runs the completion releases it: here each thread acquires  *)
(* and releases in any order, as long as it holds the buffer.              *)
(***************************************************************************)
EXTENDS Integers, FiniteSets

CONSTANTS
  Thread,      \* threads that write messages or run completions
  PoolSize,    \* buffers, and slots of the queue: a power of two
  MAX_OPS      \* bound: operations started by all threads together

VARIABLES
  sequence, value,   \* the slots
  qhead, qtail,        \* head_, tail_
  nextFreeIdx,       \* nextFreeIdx_
  pc,                \* where each thread is
  at, idx,           \* its local head or tail, and the index it pushes or popped
  owned,              \* buffers the thread has
  ops,
  leaked             \* buffers whose release failed

poolVars == <<sequence, value, qhead, qtail, nextFreeIdx, pc, at, idx, owned, ops, leaked>>
queue == <<sequence, value, qhead, qtail>>

BufferSlot == 0..(PoolSize - 1)
slot(n) == n % PoolSize

\* With a single slot "published" and "free for the next push" would be the same
\* sequence number; the code only uses 1024 slots.
PoolConstants == PoolSize \in Nat /\ PoolSize > 1 /\ MAX_OPS \in Nat

ASSUME BufferAssumption == PoolConstants

PoolTypeOK ==
  /\ sequence \in [BufferSlot -> Nat] /\ value \in [BufferSlot -> BufferSlot] /\ qhead \in Nat /\ qtail \in Nat
  /\ nextFreeIdx \in Nat /\ ops \in Nat
  /\ pc \in [Thread -> {"idle", "pushSeq", "pushCas", "pushStore", "popSeq", "popCas", "popStore", "fresh"}]
  /\ at \in [Thread -> Nat] /\ idx \in [Thread -> BufferSlot]
  /\ owned \in [Thread -> SUBSET BufferSlot] /\ leaked \subseteq BufferSlot

PoolInit ==
  /\ sequence = [i \in BufferSlot |-> i] /\ value = [i \in BufferSlot |-> 0] /\ qhead = 0 /\ qtail = 0
  /\ nextFreeIdx = 0 /\ pc = [t \in Thread |-> "idle"] /\ at = [t \in Thread |-> 0]
  /\ idx = [t \in Thread |-> 0] /\ owned = [t \in Thread |-> {}]
  /\ ops = 0 /\ leaked = {}

Goto(t, place) == pc' = [pc EXCEPT ![t] = place]

-----------------------------------------------------------------------------
(* BufferPool::release: indexQueue_.push(index) *)

releaseBuffer(t) ==
  /\ pc[t] = "idle" /\ ops < MAX_OPS /\ ops' = ops + 1
  /\ \E i \in owned[t] : idx' = [idx EXCEPT ![t] = i] /\ owned' = [owned EXCEPT ![t] = @ \ {i}]
  /\ at' = [at EXCEPT ![t] = qtail]
  /\ Goto(t, "pushSeq")
  /\ UNCHANGED <<queue, nextFreeIdx, leaked>>

FaultyPushSequence(t) ==
  /\ pc[t] = "pushSeq"
  /\ LET diff == sequence[slot(at[t])] - at[t]
     IN  \/ diff = 0 /\ Goto(t, "pushCas") /\ UNCHANGED leaked
         \/ diff < 0 /\ Goto(t, "idle") /\ leaked' = leaked \cup {idx[t]}
  /\ UNCHANGED <<queue, nextFreeIdx, at, idx, owned, ops>>

\* A full slot ends the push: the index is dropped.
PushSequence(t) ==
  /\ pc[t] = "pushSeq"
  /\ LET diff == sequence[slot(at[t])] - at[t]
     IN  \/ diff = 0 /\ Goto(t, "pushCas") /\ UNCHANGED <<at, leaked>>
         \/ diff < 0 /\ Goto(t, "idle") /\ leaked' = leaked \cup {idx[t]} /\ UNCHANGED at
         \/ diff > 0 /\ at' = [at EXCEPT ![t] = qtail] /\ UNCHANGED <<pc, leaked>>
  /\ UNCHANGED <<queue, nextFreeIdx, idx, owned, ops>>

FaultyPushCas(t) ==
  /\ pc[t] = "pushCas"
  /\ qtail' = at[t] + 1 /\ Goto(t, "pushStore")
  /\ UNCHANGED <<sequence, value, qhead, nextFreeIdx, at, idx, owned, ops, leaked>>

\* A failed exchange reloads the local tail.
PushCas(t) ==
  /\ pc[t] = "pushCas"
  /\ IF qtail = at[t] THEN qtail' = qtail + 1 /\ Goto(t, "pushStore") /\ UNCHANGED at
     ELSE at' = [at EXCEPT ![t] = qtail] /\ Goto(t, "pushSeq") /\ UNCHANGED qtail
  /\ UNCHANGED <<sequence, value, qhead, nextFreeIdx, idx, owned, ops, leaked>>

\* The value is published by the sequence number.
PushStore(t) ==
  /\ pc[t] = "pushStore" /\ Goto(t, "idle")
  /\ value' = [value EXCEPT ![slot(at[t])] = idx[t]]
  /\ sequence' = [sequence EXCEPT ![slot(at[t])] = at[t] + 1]
  /\ UNCHANGED <<qhead, qtail, nextFreeIdx, at, idx, owned, ops, leaked>>

-----------------------------------------------------------------------------
(* BufferPool::acquire: indexQueue_.pop(index), else a fresh index *)

acquireBuffer(t) ==
  /\ pc[t] = "idle" /\ ops < MAX_OPS /\ ops' = ops + 1
  /\ at' = [at EXCEPT ![t] = qhead]
  /\ Goto(t, "popSeq")
  /\ UNCHANGED <<queue, nextFreeIdx, idx, owned, leaked>>

PopSequence(t) ==
  /\ pc[t] = "popSeq"
  /\ LET diff == sequence[slot(at[t])] - (at[t] + 1)
     IN  \/ diff = 0 /\ Goto(t, "popCas") /\ UNCHANGED at
         \/ diff < 0 /\ Goto(t, "fresh") /\ UNCHANGED at
         \/ diff > 0 /\ at' = [at EXCEPT ![t] = qhead] /\ UNCHANGED pc
  /\ UNCHANGED <<queue, nextFreeIdx, idx, owned, ops, leaked>>

PopCas(t) ==
  /\ pc[t] = "popCas"
  /\ IF qhead = at[t] THEN qhead' = qhead + 1 /\ Goto(t, "popStore") /\ UNCHANGED at
     ELSE at' = [at EXCEPT ![t] = qhead] /\ Goto(t, "popSeq") /\ UNCHANGED qhead
  /\ UNCHANGED <<sequence, value, qtail, nextFreeIdx, idx, owned, ops, leaked>>

FaultyPopStore(t) ==
  /\ pc[t] = "popStore" /\ Goto(t, "idle")
  /\ owned' = [owned EXCEPT ![t] = @ \cup {value[slot(at[t])]}]
  /\ UNCHANGED <<queue, nextFreeIdx, at, idx, ops, leaked>>

PopStore(t) ==
  /\ pc[t] = "popStore" /\ Goto(t, "idle")
  /\ owned' = [owned EXCEPT ![t] = @ \cup {value[slot(at[t])]}]
  /\ sequence' = [sequence EXCEPT ![slot(at[t])] = at[t] + PoolSize]
  /\ UNCHANGED <<value, qhead, qtail, nextFreeIdx, at, idx, ops, leaked>>

\* Published indices nobody has popped.
QueuedPositions == {n \in qhead..(qtail - 1) : sequence[slot(n)] = n + 1}

\* nextFreeIdx_.fetch_add(1); the counter goes on past the pool's size.
FreshIndex(t) ==
  /\ pc[t] = "fresh" /\ Goto(t, "idle")
  /\ nextFreeIdx' = nextFreeIdx + 1
  /\ owned' = IF nextFreeIdx < PoolSize THEN [owned EXCEPT ![t] = @ \cup {nextFreeIdx}] ELSE owned
  /\ UNCHANGED <<queue, at, idx, ops, leaked>>

Step(t) == PushSequence(t) \/ PushCas(t) \/ PushStore(t) \/ PopSequence(t) \/ PopCas(t)
           \/ PopStore(t) \/ FreshIndex(t)

PoolNext == \E t \in Thread : acquireBuffer(t) \/ releaseBuffer(t) \/ Step(t)

\* A thread inside an operation goes on; nothing makes it start another one.
PoolSpec == PoolInit /\ [][PoolNext]_poolVars /\ \A t \in Thread : WF_poolVars(Step(t))

-----------------------------------------------------------------------------
\* Where buffer i is: the threads that hold it, push it or pop it, its positions
\* in the queue, whether it was never used or was lost.
HeldBy(i) == {<<"thread", t>> : t \in {u \in Thread : i \in owned[u]}}
PushedBy(i) ==
  {<<"push", t>> : t \in {u \in Thread : pc[u] \in {"pushSeq", "pushCas", "pushStore"} /\ idx[u] = i}}
PoppedBy(i) == {<<"pop", t>> : t \in {u \in Thread : pc[u] = "popStore" /\ value[slot(at[u])] = i}}
QueuedAt(i) == {<<"queue", n>> : n \in {m \in QueuedPositions : value[slot(m)] = i}}
Unused(i) == IF i >= nextFreeIdx THEN {<<"unused", 0>>} ELSE {}
Lost(i) == IF i \in leaked THEN {<<"lost", 0>>} ELSE {}

Owners(i) == HeldBy(i) \cup PushedBy(i) \cup PoppedBy(i) \cup QueuedAt(i) \cup Unused(i) \cup Lost(i)

(* Every buffer is in one place: with one thread, being pushed or popped, in  *)
(* the queue, never used yet, or lost to a failed release.  No two messages   *)
(* are ever written into the same buffer.                                     *)
EveryBufferOnce == \A i \in BufferSlot : \E p \in Owners(i) : Owners(i) = {p}

(* What the sequence number of a slot says.  A position between head_ and     *)
(* tail_ is published, or its push is about to; one after them is free, or    *)
(* the pop that took the slot's last index is about to give it back; and a    *)
(* thread about to exchange an index has seen the slot in the right state.    *)
PushPending(n) == \E t \in Thread : pc[t] = "pushStore" /\ at[t] = n
PopPending(n) == \E t \in Thread : pc[t] = "popStore" /\ at[t] = n

SlotsInv ==
  /\ qhead <= qtail /\ qtail <= qhead + PoolSize
  /\ \A n \in qhead..(qtail - 1) :
       sequence[slot(n)] = n + 1 \/ (sequence[slot(n)] = n /\ PushPending(n))
  /\ \A n \in qtail..(qhead + PoolSize - 1) :
       sequence[slot(n)] = n \/ (sequence[slot(n)] = n + 1 - PoolSize /\ PopPending(n - PoolSize))
  /\ \A t \in Thread :
       /\ pc[t] \in {"pushSeq", "pushCas"} => at[t] <= qtail
       /\ pc[t] = "pushCas" /\ at[t] = qtail => sequence[slot(qtail)] = qtail
       /\ pc[t] = "pushStore" => at[t] \in qhead..(qtail - 1) /\ sequence[slot(at[t])] = at[t]
       /\ pc[t] \in {"popSeq", "popCas"} => at[t] <= qhead
       /\ pc[t] = "popCas" /\ at[t] = qhead => sequence[slot(qhead)] = qhead + 1
       /\ pc[t] = "popStore" => at[t] < qhead /\ qtail <= at[t] + PoolSize /\ sequence[slot(at[t])] = at[t] + 1
  /\ \A t, u \in Thread : pc[t] = pc[u] /\ pc[t] \in {"pushStore", "popStore"} /\ at[t] = at[u] => t = u

(* The queue is lock-free: while threads are in it, one of them always comes  *)
(* to its end.  One thread alone may lose every exchange to others, as long   *)
(* as they go on acquiring and releasing.                                     *)
Busy == {t \in Thread : pc[t] # "idle"}
Ended == ops - Cardinality(Busy)
SomeOperationEnds == \A n \in 0 .. MAX_OPS : Busy # {} /\ Ended = n ~> Ended > n

(* A release fails, and loses its buffer, only while another thread is        *)
(* between taking the last buffer from the slot of the push and giving that   *)
(* slot back: pop() advances head_ first and stores the sequence number       *)
(* after.                                                                     *)
ReleaseFailsBesideAPop ==
  [][\A i \in leaked' \ leaked :
       \E t \in Thread : pc[t] = "pushSeq" /\ idx[t] = i /\ PopPending(at[t] - PoolSize)]_poolVars

\* Safety: the types, what the sequence numbers say, every buffer in one place.
BufferPoolInv == PoolTypeOK /\ SlotsInv /\ EveryBufferOnce
=============================================================================
