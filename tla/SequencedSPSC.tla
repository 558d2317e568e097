--------------------------- MODULE SequencedSPSC ---------------------------
(***************************************************************************)
(* The single-producer single-consumer queue of small messages             *)
(* (common/src/containers/sequenced_spsc.hpp), step by step: each action   *)
(* accesses shared memory once, and a memcpy is a step of its own.         *)
(*                                                                         *)
(* A slot's sequence number says who may touch it: i when it is free for   *)
(* the i-th write, i + 1 when it holds message i.  64-bit sequence numbers *)
(* do not wrap.  A message is its body and its size.                       *)
(***************************************************************************)
EXTENDS Integers, Sequences

CONSTANTS
    SlotCount,          \* a power of two in the code, so idx & MASK is a remainder
    Body, Size,         \* a message is a body, of Body, with its size
    MAX_DATA_SIZE,      \* larger messages are refused by write()
    BufferSize,         \* sizes of the buffers passed to read()
    MAX_WRITES          \* bound: number of messages written

\* With a single slot "written" and "free for the next write" would be the same
\* sequence number; the code only uses 65536 slots.
ASSUME QueueAssumption ==
    /\ SlotCount \in Nat /\ SlotCount > 1
    /\ Body \subseteq Nat /\ Size \subseteq Nat /\ BufferSize \subseteq Nat
    /\ MAX_DATA_SIZE \in Nat /\ MAX_WRITES \in Nat

Message == [body : Body, size : Size]
Zeroed == [body |-> 0, size |-> 0]
Slot == 0 .. SlotCount - 1

VARIABLES
    seq, data, size,    \* the slots: sequence number, bytes, size
    writeIdx, readIdx,
    wpc, wmsg,          \* write(): idle, fill or publish, and its argument
    wfailed,            \* whether the last write() returned false
    rpc, dst,           \* read(): idle, copy, release or result, and its buffer
    written,            \* history: messages write() returned true for
    got                 \* history: what read() returned, with the size

slots == <<seq, data, size>>
writer == <<writeIdx, wpc, wmsg, wfailed, written>>
reader == <<readIdx, rpc, dst, got>>
vars == <<slots, writer, reader>>

\* idx & MASK
Pos(i) == i % SlotCount
-----------------------------------------------------------------------------
\* The slot is free for the i-th write.
CanWrite(i) == seq[Pos(i)] = i

WriteCheck(m) ==
    /\ wpc = "idle"
    /\ writeIdx < MAX_WRITES
    /\ m.size <= MAX_DATA_SIZE
    /\ CanWrite(writeIdx)
    /\ wpc' = "fill" /\ wmsg' = m
    /\ UNCHANGED <<slots, writeIdx, wfailed, written, reader>>

\* write() returns false: the message is too large, or the queue is full.
WriteFails(m) ==
    /\ wpc = "idle"
    /\ writeIdx < MAX_WRITES
    /\ m.size > MAX_DATA_SIZE \/ ~CanWrite(writeIdx)
    /\ wfailed' = TRUE
    /\ UNCHANGED <<slots, writeIdx, wpc, wmsg, written, reader>>

FaultyWriteData ==
    /\ wpc = "fill"
    /\ data' = [data EXCEPT ![Pos(writeIdx + 1)] = wmsg.body]
    /\ size' = [size EXCEPT ![Pos(writeIdx)] = wmsg.size]
    /\ wpc' = "publish"
    /\ UNCHANGED <<seq, writeIdx, wmsg, wfailed, written, reader>>

WriteData ==
    /\ wpc = "fill"
    /\ data' = [data EXCEPT ![Pos(writeIdx)] = wmsg.body]
    /\ size' = [size EXCEPT ![Pos(writeIdx)] = wmsg.size]
    /\ wpc' = "publish"
    /\ UNCHANGED <<seq, writeIdx, wmsg, wfailed, written, reader>>

\* The sequence number of a written slot.
Written(i) == i + 1

WritePublish ==
    /\ wpc = "publish"
    /\ seq' = [seq EXCEPT ![Pos(writeIdx)] = Written(writeIdx)]
    /\ writeIdx' = writeIdx + 1
    /\ wpc' = "idle"
    /\ wfailed' = FALSE
    /\ written' = Append(written, wmsg)
    /\ UNCHANGED <<data, size, wmsg, reader>>
-----------------------------------------------------------------------------
\* The slot holds message i.
CanRead(i) == seq[Pos(i)] = i + 1

\* read() into a buffer of n bytes.  It returns 0 when the next slot is empty
\* or its message does not fit, and then changes nothing.
ReadCheck(n) ==
    /\ rpc = "idle"
    /\ CanRead(readIdx)
    /\ size[Pos(readIdx)] <= n
    /\ rpc' = "copy"
    /\ UNCHANGED <<slots, writer, readIdx, dst, got>>

FaultyReadCopy ==
    /\ rpc = "copy"
    /\ dst' = [body |-> data[Pos(readIdx + 1)], size |-> size[Pos(readIdx)]]
    /\ rpc' = "release"
    /\ UNCHANGED <<slots, writer, readIdx, got>>

ReadCopy ==
    /\ rpc = "copy"
    /\ dst' = [body |-> data[Pos(readIdx)], size |-> size[Pos(readIdx)]]
    /\ rpc' = "release"
    /\ UNCHANGED <<slots, writer, readIdx, got>>

\* The sequence number of a slot that was read.
Released(i) == i + SlotCount

ReadRelease ==
    /\ rpc = "release"
    /\ seq' = [seq EXCEPT ![Pos(readIdx)] = Released(readIdx)]
    /\ readIdx' = readIdx + 1
    /\ rpc' = "result"
    /\ UNCHANGED <<data, size, writer, dst, got>>

\* The size is read from the slot once more, after the slot was released.
ResultSize == size[Pos(readIdx - 1)]

ReadReturn ==
    /\ rpc = "result"
    /\ got' = Append(got, [msg |-> dst, result |-> ResultSize])
    /\ rpc' = "idle"
    /\ UNCHANGED <<slots, writer, readIdx, dst>>
-----------------------------------------------------------------------------
Init ==
    /\ seq = [s \in Slot |-> s]
    /\ data = [s \in Slot |-> 0] /\ size = [s \in Slot |-> 0]
    /\ writeIdx = 0 /\ readIdx = 0
    /\ wpc = "idle" /\ wmsg = Zeroed /\ wfailed = FALSE
    /\ rpc = "idle" /\ dst = Zeroed
    /\ written = <<>> /\ got = <<>>

Next ==
    \/ \E m \in Message : WriteCheck(m) \/ WriteFails(m)
    \/ WriteData \/ WritePublish
    \/ \E n \in BufferSize : ReadCheck(n)
    \/ ReadCopy \/ ReadRelease \/ ReadReturn

Spec == Init /\ [][Next]_vars
-----------------------------------------------------------------------------
(* Properties.                                                             *)

\* Every variable of the queue has its type.
TypeOK ==
    /\ seq \in [Slot -> Nat] /\ data \in [Slot -> Nat] /\ size \in [Slot -> Nat]
    /\ writeIdx \in Nat /\ readIdx \in Nat
    /\ wpc \in {"idle", "fill", "publish"} /\ wmsg \in Message \cup {Zeroed} /\ wfailed \in BOOLEAN
    /\ rpc \in {"idle", "copy", "release", "result"} /\ dst \in Message \cup {Zeroed}
    /\ written \in Seq(Message)
    /\ got \in Seq([msg : Message, result : Nat])

\* The messages read() copies out are the ones write() accepted, in order, each
\* once: nothing lost, duplicated, reordered or torn.
ReadsInOrder ==
    /\ Len(got) <= Len(written)
    /\ \A k \in 1 .. Len(got) : got[k].msg = written[k]

\* The memcpy of write() never overlaps the memcpy of read() on a slot.
CopiesDoNotOverlap ==
    wpc = "fill" /\ rpc \in {"copy", "release"} => Pos(writeIdx) # Pos(readIdx)

\* read() returns the size of the message it copied.
ReturnsSizeRead == \A k \in 1 .. Len(got) : got[k].result = got[k].msg.size

\* write() refuses a message that fits only when all slots hold messages not
\* yet read.
RefusesOnlyWhenFull ==
    [][\A m \in Message : m.size <= MAX_DATA_SIZE /\ WriteFails(m) => writeIdx = readIdx + SlotCount]_vars

\* Where the messages are: between the indices each slot holds its message and
\* is marked so, the other slots are free for their next write, and a call in
\* progress works on a slot of its own.
SlotInv ==
    /\ readIdx <= writeIdx /\ writeIdx <= readIdx + SlotCount
    /\ \A n \in readIdx .. writeIdx - 1 :
        /\ seq[Pos(n)] = n + 1
        /\ data[Pos(n)] = written[n + 1].body /\ size[Pos(n)] = written[n + 1].size
    /\ \A n \in writeIdx .. readIdx + SlotCount - 1 : seq[Pos(n)] = n
    /\ Len(written) = writeIdx
    /\ Len(got) = IF rpc = "result" THEN readIdx - 1 ELSE readIdx
    /\ wpc # "idle" => wmsg \in Message /\ writeIdx < readIdx + SlotCount
    /\ wpc = "publish" => data[Pos(writeIdx)] = wmsg.body /\ size[Pos(writeIdx)] = wmsg.size
    /\ rpc \in {"copy", "release"} => readIdx < writeIdx
    /\ rpc = "release" => dst = written[readIdx + 1]
    /\ rpc = "result" => readIdx > 0 /\ dst = written[readIdx]

-----------------------------------------------------------------------------
(* The queue it implements.                                                *)

\* The messages between the two indices, as they lie in the slots.
Queue ==
    [k \in 1 .. writeIdx - readIdx |->
        [body |-> data[Pos(readIdx + k - 1)], size |-> size[Pos(readIdx + k - 1)]]]

F == INSTANCE Fifo WITH Capacity <- SlotCount, queue <- Queue

\* The slots between the two indices behave as a bounded FIFO queue: a write
\* takes effect when its sequence number is stored, a read when it releases.
ImplementsFifo == F!FifoSpec

\* A reader that polls with a large enough buffer gets every message written.
EveryMessageRead ==
    \A k \in 1 .. MAX_WRITES : (Len(written) >= k) ~> (Len(got) >= k)
=============================================================================
