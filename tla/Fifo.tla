-------------------------------- MODULE Fifo --------------------------------
(***************************************************************************)
(* A bounded queue of messages: what the lock-free queues promise their    *)
(* users.  A failed read or write leaves it alone.                         *)
(***************************************************************************)
EXTENDS Integers, Sequences

CONSTANTS Message, Capacity

VARIABLE queue

Push(m) == Len(queue) < Capacity /\ queue' = Append(queue, m)
Pop == queue # <<>> /\ queue' = Tail(queue)

FifoInit == queue = <<>>
FifoNext == Pop \/ \E m \in Message : Push(m)
FifoSpec == FifoInit /\ [][FifoNext]_queue
=============================================================================
