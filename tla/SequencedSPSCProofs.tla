------------------------- MODULE SequencedSPSCProofs -------------------------
(***************************************************************************)
(* The queue delivers every message it accepts, in order and untorn, for   *)
(* every number of slots, of messages and of message sizes, and so it      *)
(* implements the bounded FIFO queue.  LfqRunner, which consumes it and    *)
(* sleeps when it is empty, loses no wake-up.                              *)
(***************************************************************************)
EXTENDS SequencedSPSC, LfqRunner, TurboSPSC, SequenceTheorems, TLAPS

\* The time, in seconds, that a prover may take over a leaf.
USE SMTT(30), ZenonT(30)

\* TypeOK and the property are inductive together with SlotInv.
IInv == TypeOK /\ SlotInv /\ ReadsInOrder

\* Quotient and remainder.
LEMMA DivMod ==
  ASSUME NEW n \in Nat \ {0}, NEW a \in Nat
  PROVE  a = n * (a \div n) + (a % n) /\ a \div n \in Nat /\ a % n \in 0 .. n - 1
  OBVIOUS

\* A positive multiple is no smaller.
LEMMA MultipleNotSmaller ==
  ASSUME NEW n \in Nat \ {0}, NEW k \in Nat \ {0}
  PROVE  n * k >= n
  OBVIOUS

\* Numbers less than n apart have different remainders.
LEMMA RemaindersDiffer ==
  ASSUME NEW n \in Nat \ {0}, NEW a \in Nat, NEW b \in Nat, a < b, b < a + n
  PROVE  a % n # b % n
<1> DEFINE qa == a \div n
           qb == b \div n
<1>1. SUFFICES ASSUME a % n = b % n PROVE FALSE
  BY Zenon
<1>3. a = n * qa + (a % n) /\ b = n * qb + (b % n) /\ qa \in Nat /\ qb \in Nat /\ a % n \in Nat
  BY DivMod
<1> HIDE DEF qa, qb
<1>4. b - a = n * qb - n * qa /\ n * qb - n * qa = n * (qb - qa) /\ qb - qa \in Int
  BY <1>1, <1>3
<1>5. CASE qb - qa >= 1
  <2>1. n * (qb - qa) >= n
    BY <1>4, <1>5, MultipleNotSmaller
  <2> QED
    BY <1>4, <2>1
<1>6. CASE qb - qa <= 0
  <2>1. n * (qb - qa) <= 0
    BY <1>4, <1>6
  <2> QED
    BY <1>4, <2>1
<1> QED
  BY <1>4, <1>5, <1>6

\* Two indices less than SlotCount apart fall into different slots.
LEMMA SlotsDiffer ==
  ASSUME NEW a \in Nat, NEW b \in Nat, a < b, b < a + SlotCount
  PROVE  Pos(a) # Pos(b)
<1>1. SlotCount \in Nat \ {0}
  BY QueueAssumption
<1> QED
  BY <1>1, RemaindersDiffer, Zenon DEF Pos

\* An index falls into a slot, and going once around leads back to it.
LEMMA PosType == ASSUME NEW a \in Nat PROVE Pos(a) \in Slot
  BY QueueAssumption, DivMod DEF Pos, Slot

LEMMA PosWraps == ASSUME NEW a \in Nat PROVE Pos(a + SlotCount) = Pos(a)
<1> DEFINE n == SlotCount
           q == a \div n
           r == a % n
           p == (a + n) \div n
           s == (a + n) % n
<1>1. n \in Nat \ {0} /\ a + n \in Nat
  BY QueueAssumption
<1>2. a = n * q + r /\ q \in Nat /\ r \in 0 .. n - 1
  BY <1>1, DivMod, Zenon
<1>3. a + n = n * p + s /\ p \in Nat /\ s \in 0 .. n - 1
  BY <1>1, DivMod, Zenon
<1> HIDE DEF n, q, r, p, s
<1>4. n * (p - q - 1) = r - s /\ p - q - 1 \in Int
  BY <1>1, <1>2, <1>3
<1>5. CASE p - q - 1 >= 1
  <2>1. n * (p - q - 1) >= n
    BY <1>1, <1>4, <1>5, MultipleNotSmaller
  <2> QED
    BY <1>1, <1>2, <1>3, <1>4, <2>1
<1>6. CASE p - q - 1 <= -1
  <2>1. n * (-(p - q - 1)) >= n
    BY <1>1, <1>4, <1>6, MultipleNotSmaller
  <2>2. n * (-(p - q - 1)) = -(n * (p - q - 1))
    BY <1>1, <1>4
  <2> QED
    BY <1>1, <1>2, <1>3, <1>4, <2>1, <2>2
<1>7. CASE p - q - 1 = 0
  <2>1. r = s
    BY <1>1, <1>2, <1>3, <1>4, <1>7
  <2> QED
    BY <2>1, Zenon DEF Pos, r, s, n
<1>8. p - q - 1 >= 1 \/ p - q - 1 <= -1 \/ p - q - 1 = 0
  BY <1>2, <1>3
<1> QED
  BY <1>5, <1>6, <1>7, <1>8, Zenon

\* The initial queue is empty, with every slot free for its first write.
LEMMA InitEstablishes == Init => IInv
<1> SUFFICES ASSUME Init PROVE IInv
  BY Zenon
<1>1. TypeOK
  <2>1. seq \in [Slot -> Nat] /\ data \in [Slot -> Nat] /\ size \in [Slot -> Nat]
    BY QueueAssumption DEF Init, Slot
  <2>2. written \in Seq(Message) /\ got \in Seq([msg : Message, result : Nat])
    BY DEF Init
  <2> QED
    BY <2>1, <2>2, Zenon DEF Init, TypeOK
<1>2. \A n \in 0 .. SlotCount - 1 : Pos(n) = n
  <2> SUFFICES ASSUME NEW n \in 0 .. SlotCount - 1 PROVE n % SlotCount = n
    BY Zenon DEF Pos
  <2>1. n \in Nat /\ SlotCount \in Nat \ {0} /\ n < SlotCount
    BY QueueAssumption
  <2> QED
    BY <2>1
<1>3. \A n \in 0 .. SlotCount - 1 : seq[Pos(n)] = n
  BY <1>2, Zenon DEF Init, Slot
<1>4. /\ readIdx = 0 /\ writeIdx = 0 /\ wpc = "idle" /\ rpc = "idle"
      /\ Len(written) = 0 /\ Len(got) = 0
  BY Zenon DEF Init
<1>5. SlotInv
  BY <1>3, <1>4, QueueAssumption DEF SlotInv
<1>6. ReadsInOrder
  BY <1>4 DEF ReadsInOrder
<1> QED
  BY <1>1, <1>5, <1>6, Zenon DEF IInv

\* The writer's steps up to the store of the sequence number touch only a slot
\* outside of the messages.
LEMMA WriteKeeps ==
  ASSUME IInv, (\E m \in Message : WriteCheck(m) \/ WriteFails(m)) \/ WriteData
  PROVE  IInv'
<1>1. TypeOK /\ SlotInv /\ ReadsInOrder
  BY Zenon DEF IInv
<1>2. UNCHANGED <<seq, writeIdx, written, readIdx, rpc, dst, got>>
  BY Zenon DEF WriteCheck, WriteFails, WriteData, slots, reader
<1>3. readIdx \in Nat /\ writeIdx \in Nat /\ SlotCount \in Nat \ {0}
  BY <1>1, QueueAssumption DEF TypeOK
<1>4. ReadsInOrder'
  BY <1>1, <1>2, Zenon DEF ReadsInOrder
<1>5. CASE \E m \in Message : WriteCheck(m) \/ WriteFails(m)
  <2>1. PICK m \in Message : WriteCheck(m) \/ WriteFails(m)
    BY <1>5, Zenon
  <2>2. UNCHANGED <<data, size>>
    BY <2>1, Zenon DEF WriteCheck, WriteFails, slots
  <2>3. TypeOK'
    BY <1>1, <1>2, <2>1, <2>2, Zenon DEF TypeOK, WriteCheck, WriteFails
  <2>4. CASE WriteCheck(m)
    <3>1. wpc' = "fill" /\ wmsg' \in Message /\ seq[Pos(writeIdx)] = writeIdx
      BY <2>1, <2>4, Zenon DEF WriteCheck, CanWrite
    <3>2. writeIdx < readIdx + SlotCount
      <4>1. SUFFICES ASSUME writeIdx = readIdx + SlotCount PROVE FALSE
        BY <1>1, <1>3 DEF SlotInv
      <4>2. readIdx \in readIdx .. writeIdx - 1 /\ Pos(writeIdx) = Pos(readIdx)
        BY <1>3, <4>1, PosWraps
      <4>3. seq[Pos(readIdx)] = readIdx + 1
        BY <1>1, <4>2, Zenon DEF SlotInv
      <4> QED
        BY <1>3, <3>1, <4>1, <4>2, <4>3, QueueAssumption
    <3> QED
      BY <1>1, <1>2, <1>4, <2>2, <2>3, <3>1, <3>2, Zenon DEF IInv, SlotInv
  <2>5. CASE WriteFails(m)
    <3>1. UNCHANGED <<wpc, wmsg>>
      BY <2>5, Zenon DEF WriteFails
    <3> QED
      BY <1>1, <1>2, <1>4, <2>2, <2>3, <3>1, Zenon DEF IInv, SlotInv
  <2> QED
    BY <2>1, <2>4, <2>5, Zenon
<1>6. CASE WriteData
  <2>1. /\ data' = [data EXCEPT ![Pos(writeIdx)] = wmsg.body]
        /\ size' = [size EXCEPT ![Pos(writeIdx)] = wmsg.size]
        /\ wpc = "fill" /\ wpc' = "publish" /\ wmsg' = wmsg /\ wfailed' = wfailed
    BY <1>6, Zenon DEF WriteData
  <2>2. wmsg \in Message /\ writeIdx < readIdx + SlotCount /\ readIdx <= writeIdx
    BY <1>1, <2>1, Zenon DEF SlotInv
  <2>3. Pos(writeIdx) \in Slot
    BY <1>3, PosType, Zenon
  <2>4. wmsg.body \in Nat /\ wmsg.size \in Nat
    BY <2>2, QueueAssumption, Zenon DEF Message
  <2>5. /\ data' \in [Slot -> Nat] /\ data'[Pos(writeIdx)] = wmsg.body
        /\ size' \in [Slot -> Nat] /\ size'[Pos(writeIdx)] = wmsg.size
        /\ \A s \in Slot : s # Pos(writeIdx) => data'[s] = data[s] /\ size'[s] = size[s]
    BY <1>1, <2>1, <2>3, <2>4, Zenon DEF TypeOK
  <2>6. TypeOK'
    BY <1>1, <1>2, <2>1, <2>2, <2>5, Zenon DEF TypeOK
  <2>7. ASSUME NEW n \in readIdx .. writeIdx - 1
        PROVE  data'[Pos(n)] = data[Pos(n)] /\ size'[Pos(n)] = size[Pos(n)]
    <3>1. n \in Nat /\ n < writeIdx /\ writeIdx < n + SlotCount
      BY <1>3, <2>2
    <3>2. Pos(n) \in Slot /\ Pos(n) # Pos(writeIdx)
      BY <1>3, <3>1, SlotsDiffer, PosType, Zenon
    <3> QED
      BY <2>5, <3>2, Zenon
  <2>8. SlotInv'
    BY <1>1, <1>2, <2>1, <2>2, <2>5, <2>7, Zenon DEF SlotInv
  <2> QED
    BY <1>4, <2>6, <2>8, Zenon DEF IInv
<1> QED
  BY <1>5, <1>6, Zenon

\* Storing the sequence number turns the slot into the last message.
LEMMA PublishKeeps == IInv /\ WritePublish => IInv'
<1> SUFFICES ASSUME IInv, WritePublish PROVE IInv'
  BY Zenon
<1>1. TypeOK /\ SlotInv /\ ReadsInOrder
  BY Zenon DEF IInv
<1>2. /\ UNCHANGED <<data, size, wmsg, readIdx, rpc, dst, got>>
      /\ wpc = "publish" /\ wpc' = "idle" /\ wfailed' = FALSE
      /\ seq' = [seq EXCEPT ![Pos(writeIdx)] = writeIdx + 1]
      /\ writeIdx' = writeIdx + 1 /\ written' = Append(written, wmsg)
  BY Zenon DEF WritePublish, Written, reader
<1>3. readIdx \in Nat /\ writeIdx \in Nat /\ SlotCount \in Nat \ {0} /\ written \in Seq(Message)
  BY <1>1, QueueAssumption DEF TypeOK
<1>4. /\ wmsg \in Message /\ writeIdx < readIdx + SlotCount /\ readIdx <= writeIdx
      /\ data[Pos(writeIdx)] = wmsg.body /\ size[Pos(writeIdx)] = wmsg.size /\ Len(written) = writeIdx
  BY <1>1, <1>2, Zenon DEF SlotInv
<1>5. Pos(writeIdx) \in Slot
  BY <1>3, PosType, Zenon
<1>6. /\ seq' \in [Slot -> Nat] /\ seq'[Pos(writeIdx)] = writeIdx + 1
      /\ \A s \in Slot : s # Pos(writeIdx) => seq'[s] = seq[s]
  BY <1>1, <1>2, <1>3, <1>5 DEF TypeOK
<1>7. /\ written' \in Seq(Message) /\ Len(written') = writeIdx + 1 /\ written'[writeIdx + 1] = wmsg
      /\ \A k \in 1 .. writeIdx : written'[k] = written[k]
  BY <1>2, <1>3, <1>4
<1>8. TypeOK'
  <2>1. writeIdx' \in Nat
    BY <1>2, <1>3
  <2>2. wfailed' \in BOOLEAN
    BY <1>2, Zenon
  <2> QED
    BY <1>1, <1>2, <1>6, <1>7, <2>1, <2>2, Zenon DEF TypeOK
<1>9. ReadsInOrder'
  <2>1. Len(got) \in Nat /\ Len(got) <= writeIdx
    BY <1>1, <1>4 DEF ReadsInOrder, TypeOK
  <2> QED
    BY <1>1, <1>2, <1>3, <1>7, <2>1 DEF ReadsInOrder
<1>10. ASSUME NEW n \in readIdx .. writeIdx' - 1
       PROVE  /\ seq'[Pos(n)] = n + 1
              /\ data'[Pos(n)] = written'[n + 1].body /\ size'[Pos(n)] = written'[n + 1].size
  <2>1. CASE n = writeIdx
    BY <1>2, <1>4, <1>6, <1>7, <2>1, Zenon
  <2>2. CASE n # writeIdx
    <3>1. n \in readIdx .. writeIdx - 1 /\ n \in Nat /\ n < writeIdx /\ writeIdx < n + SlotCount
      BY <1>2, <1>3, <1>4, <2>2
    <3>2. Pos(n) \in Slot /\ Pos(n) # Pos(writeIdx)
      BY <1>3, <3>1, SlotsDiffer, PosType, Zenon
    <3>3. n + 1 \in 1 .. writeIdx
      BY <1>3, <3>1
    <3>4. seq[Pos(n)] = n + 1 /\ data[Pos(n)] = written[n + 1].body /\ size[Pos(n)] = written[n + 1].size
      BY <1>1, <3>1, Zenon DEF SlotInv
    <3> QED
      BY <1>2, <1>6, <1>7, <3>2, <3>3, <3>4, Zenon
  <2> QED
    BY <2>1, <2>2, Zenon
<1>11. ASSUME NEW n \in writeIdx' .. readIdx + SlotCount - 1
       PROVE  seq'[Pos(n)] = n
  <2>1. n \in writeIdx .. readIdx + SlotCount - 1 /\ n \in Nat /\ writeIdx < n /\ n < writeIdx + SlotCount
    BY <1>2, <1>3, <1>4
  <2>2. Pos(n) \in Slot /\ Pos(n) # Pos(writeIdx)
    BY <1>3, <2>1, SlotsDiffer, PosType, Zenon
  <2> QED
    BY <1>1, <1>6, <2>1, <2>2, Zenon DEF SlotInv
<1>12. /\ rpc \in {"copy", "release"} => readIdx < writeIdx'
       /\ rpc = "release" => dst = written'[readIdx + 1]
       /\ rpc = "result" => readIdx > 0 /\ dst = written'[readIdx]
  <2>1. /\ rpc \in {"copy", "release"} => readIdx + 1 \in 1 .. writeIdx
        /\ rpc = "result" => readIdx \in 1 .. writeIdx
    BY <1>1, <1>3, <1>4 DEF SlotInv
  <2> QED
    BY <1>1, <1>2, <1>3, <1>7, <2>1 DEF SlotInv
<1>13. SlotInv'
  <2>1. readIdx' <= writeIdx' /\ writeIdx' <= readIdx' + SlotCount /\ Len(written') = writeIdx'
    BY <1>2, <1>3, <1>4, <1>7
  <2>2. Len(got') = IF rpc' = "result" THEN readIdx' - 1 ELSE readIdx'
    BY <1>1, <1>2, Zenon DEF SlotInv
  <2> QED
    BY <1>2, <1>10, <1>11, <1>12, <2>1, <2>2, Zenon DEF SlotInv
<1> QED
  BY <1>8, <1>9, <1>13, Zenon DEF IInv

\* read() up to the store of the sequence number: the message it copies is the
\* first one not read yet.
LEMMA ReadKeeps ==
  ASSUME IInv, (\E n \in BufferSize : ReadCheck(n)) \/ ReadCopy
  PROVE  IInv'
<1>1. TypeOK /\ SlotInv /\ ReadsInOrder
  BY Zenon DEF IInv
<1>2. /\ UNCHANGED <<seq, data, size, writeIdx, wpc, wmsg, wfailed, written, readIdx, got>>
      /\ rpc # "result" /\ rpc' # "result" /\ rpc' \in {"copy", "release"}
  BY Zenon DEF ReadCheck, ReadCopy, slots, writer
<1>3. readIdx \in Nat /\ writeIdx \in Nat /\ SlotCount \in Nat \ {0} /\ written \in Seq(Message)
  BY <1>1, QueueAssumption DEF TypeOK
<1>4. ReadsInOrder'
  BY <1>1, <1>2, Zenon DEF ReadsInOrder
<1>5. CASE \E n \in BufferSize : ReadCheck(n)
  <2>1. rpc' = "copy" /\ dst' = dst /\ seq[Pos(readIdx)] = readIdx + 1
    BY <1>5, Zenon DEF ReadCheck, CanRead
  <2>2. readIdx < writeIdx
    <3>1. SUFFICES ASSUME readIdx = writeIdx PROVE FALSE
      BY <1>1, <1>3 DEF SlotInv
    <3>2. readIdx \in writeIdx .. readIdx + SlotCount - 1
      BY <1>3, <3>1
    <3>3. seq[Pos(readIdx)] = readIdx
      BY <1>1, <3>2, Zenon DEF SlotInv
    <3> QED
      BY <1>3, <2>1, <3>3
  <2>3. TypeOK'
    BY <1>1, <1>2, <2>1, Zenon DEF TypeOK
  <2>4. SlotInv'
    BY <1>1, <1>2, <2>1, <2>2, Zenon DEF SlotInv
  <2> QED
    BY <1>4, <2>3, <2>4, Zenon DEF IInv
<1>6. CASE ReadCopy
  <2>1. /\ rpc = "copy" /\ rpc' = "release"
        /\ dst' = [body |-> data[Pos(readIdx)], size |-> size[Pos(readIdx)]]
    BY <1>6, Zenon DEF ReadCopy
  <2>2. readIdx < writeIdx /\ readIdx \in readIdx .. writeIdx - 1
    BY <1>1, <1>3, <2>1 DEF SlotInv
  <2>3. data[Pos(readIdx)] = written[readIdx + 1].body /\ size[Pos(readIdx)] = written[readIdx + 1].size
    BY <1>1, <2>2, Zenon DEF SlotInv
  <2>4. written[readIdx + 1] \in Message
    BY <1>1, <1>3, <2>2 DEF SlotInv
  <2>5. dst' = written[readIdx + 1]
    BY <2>1, <2>3, <2>4, Zenon DEF Message
  <2>6. TypeOK'
    BY <1>1, <1>2, <2>1, <2>4, <2>5, Zenon DEF TypeOK
  <2>7. SlotInv'
    BY <1>1, <1>2, <2>1, <2>2, <2>5, Zenon DEF SlotInv
  <2> QED
    BY <1>4, <2>6, <2>7, Zenon DEF IInv
<1> QED
  BY <1>5, <1>6, Zenon

\* Releasing the slot makes it free for the write one round later.
LEMMA ReleaseKeeps == IInv /\ ReadRelease => IInv'
<1> SUFFICES ASSUME IInv, ReadRelease PROVE IInv'
  BY Zenon
<1>1. TypeOK /\ SlotInv /\ ReadsInOrder
  BY Zenon DEF IInv
<1>2. /\ UNCHANGED <<data, size, writeIdx, wpc, wmsg, wfailed, written, dst, got>>
      /\ rpc = "release" /\ rpc' = "result"
      /\ seq' = [seq EXCEPT ![Pos(readIdx)] = readIdx + SlotCount]
      /\ readIdx' = readIdx + 1
  BY Zenon DEF ReadRelease, Released, writer
<1>3. readIdx \in Nat /\ writeIdx \in Nat /\ SlotCount \in Nat \ {0}
  BY <1>1, QueueAssumption DEF TypeOK
<1>4. /\ readIdx < writeIdx /\ writeIdx <= readIdx + SlotCount
      /\ dst = written[readIdx + 1] /\ Len(got) = readIdx /\ Len(written) = writeIdx
  BY <1>1, <1>2, Zenon DEF SlotInv
<1>5. Pos(readIdx) \in Slot /\ Pos(readIdx + SlotCount) = Pos(readIdx)
  BY <1>3, PosType, PosWraps, Zenon
<1>6. /\ seq' \in [Slot -> Nat] /\ seq'[Pos(readIdx)] = readIdx + SlotCount
      /\ \A s \in Slot : s # Pos(readIdx) => seq'[s] = seq[s]
  BY <1>1, <1>2, <1>3, <1>5 DEF TypeOK
<1>7. TypeOK'
  <2>1. readIdx' \in Nat
    BY <1>2, <1>3
  <2> QED
    BY <1>1, <1>2, <1>6, <2>1, Zenon DEF TypeOK
<1>8. ReadsInOrder'
  BY <1>1, <1>2, Zenon DEF ReadsInOrder
<1>9. ASSUME NEW n \in readIdx' .. writeIdx - 1
      PROVE  /\ seq'[Pos(n)] = n + 1
             /\ data[Pos(n)] = written[n + 1].body /\ size[Pos(n)] = written[n + 1].size
  <2>1. n \in readIdx .. writeIdx - 1 /\ n \in Nat /\ readIdx < n /\ n < readIdx + SlotCount
    BY <1>2, <1>3, <1>4
  <2>2. Pos(n) \in Slot /\ Pos(n) # Pos(readIdx)
    BY <1>3, <2>1, SlotsDiffer, PosType, Zenon
  <2> QED
    BY <1>1, <1>6, <2>1, <2>2, Zenon DEF SlotInv
<1>10. ASSUME NEW n \in writeIdx .. readIdx' + SlotCount - 1
       PROVE  seq'[Pos(n)] = n
  <2>1. CASE n = readIdx + SlotCount
    BY <1>5, <1>6, <2>1, Zenon
  <2>2. CASE n # readIdx + SlotCount
    <3>1. n \in writeIdx .. readIdx + SlotCount - 1 /\ n \in Nat /\ readIdx < n /\ n < readIdx + SlotCount
      BY <1>2, <1>3, <1>4, <2>2
    <3>2. Pos(n) \in Slot /\ Pos(n) # Pos(readIdx)
      BY <1>3, <3>1, SlotsDiffer, PosType, Zenon
    <3> QED
      BY <1>1, <1>6, <3>1, <3>2, Zenon DEF SlotInv
  <2> QED
    BY <2>1, <2>2, Zenon
<1>11. /\ readIdx' <= writeIdx /\ writeIdx <= readIdx' + SlotCount /\ readIdx' > 0
       /\ Len(got) = readIdx' - 1 /\ dst = written[readIdx']
       /\ writeIdx < readIdx + SlotCount => writeIdx < readIdx' + SlotCount
  BY <1>2, <1>3, <1>4
<1>12. SlotInv'
  BY <1>1, <1>2, <1>4, <1>9, <1>10, <1>11, Zenon DEF SlotInv
<1> QED
  BY <1>7, <1>8, <1>12, Zenon DEF IInv

\* The return of read() completes it.
LEMMA ReturnKeeps == IInv /\ ReadReturn => IInv'
<1> SUFFICES ASSUME IInv, ReadReturn PROVE IInv'
  BY Zenon
<1>1. TypeOK /\ SlotInv /\ ReadsInOrder
  BY Zenon DEF IInv
<1>2. /\ UNCHANGED <<seq, data, size, writeIdx, wpc, wmsg, wfailed, written, readIdx, dst>>
      /\ rpc = "result" /\ rpc' = "idle"
      /\ got' = Append(got, [msg |-> dst, result |-> ResultSize])
  BY Zenon DEF ReadReturn, slots, writer
<1>3. /\ readIdx \in Nat /\ writeIdx \in Nat /\ written \in Seq(Message)
      /\ got \in Seq([msg : Message, result : Nat]) /\ size \in [Slot -> Nat]
  BY <1>1, Zenon DEF TypeOK
<1>4. /\ readIdx > 0 /\ dst = written[readIdx] /\ Len(got) = readIdx - 1 /\ readIdx <= writeIdx
      /\ Len(written) = writeIdx
  BY <1>1, <1>2, Zenon DEF SlotInv
<1>5. dst \in Message
  BY <1>3, <1>4
<1>6. ResultSize \in Nat
  <2>1. Pos(readIdx - 1) \in Slot
    BY <1>3, <1>4, PosType
  <2> QED
    BY <1>3, <2>1, Zenon DEF ResultSize
<1> DEFINE entry == [msg |-> dst, result |-> ResultSize]
<1>7. entry \in [msg : Message, result : Nat] /\ entry.msg = dst
  BY <1>5, <1>6, Zenon
<1>8. got' = Append(got, entry)
  BY <1>2, Zenon
<1> HIDE DEF entry
<1>9. /\ got' \in Seq([msg : Message, result : Nat]) /\ Len(got') = readIdx /\ got'[readIdx] = entry
      /\ \A k \in 1 .. readIdx - 1 : got'[k] = got[k]
  BY <1>3, <1>4, <1>7, <1>8
<1>10. TypeOK'
  BY <1>1, <1>2, <1>9, Zenon DEF TypeOK
<1>11. ReadsInOrder'
  <2>1. \A k \in 1 .. readIdx - 1 : got[k].msg = written[k]
    BY <1>1, <1>4, Zenon DEF ReadsInOrder
  <2>2. \A k \in 1 .. readIdx : k \in 1 .. readIdx - 1 \/ k = readIdx
    BY <1>3
  <2>3. \A k \in 1 .. readIdx : got'[k].msg = written[k]
    BY <1>4, <1>7, <1>9, <2>1, <2>2, Zenon
  <2> QED
    BY <1>2, <1>4, <1>9, <2>3, Zenon DEF ReadsInOrder
<1>12. SlotInv'
  BY <1>1, <1>2, <1>9 DEF SlotInv
<1> QED
  BY <1>10, <1>11, <1>12, Zenon DEF IInv

\* IInv is an invariant of the queue, for every interleaving of the two threads.
THEOREM Invariance == Spec => []IInv
<1>1. Init => IInv
  BY InitEstablishes, Zenon
<1>2. IInv /\ [Next]_vars => IInv'
  <2> SUFFICES ASSUME IInv, [Next]_vars PROVE IInv'
    BY Zenon
  <2>1. CASE (\E m \in Message : WriteCheck(m) \/ WriteFails(m)) \/ WriteData
    BY <2>1, WriteKeeps, Zenon
  <2>2. CASE WritePublish
    BY <2>2, PublishKeeps, Zenon
  <2>3. CASE (\E n \in BufferSize : ReadCheck(n)) \/ ReadCopy
    BY <2>3, ReadKeeps, Zenon
  <2>4. CASE ReadRelease
    BY <2>4, ReleaseKeeps, Zenon
  <2>5. CASE ReadReturn
    BY <2>5, ReturnKeeps, Zenon
  <2>6. CASE UNCHANGED vars
    BY <2>6 DEF vars, slots, writer, reader, IInv, TypeOK, SlotInv, ReadsInOrder
  <2> QED
    BY <2>1, <2>2, <2>3, <2>4, <2>5, <2>6, Zenon DEF Next
<1> QED
  BY <1>1, <1>2, PTL DEF Spec

\* read() hands out exactly the accepted messages, in order, whatever the
\* interleaving of the two threads.
THEOREM Delivery == Spec => []ReadsInOrder
  BY Invariance, PTL DEF IInv

\* The sequence numbers keep the two memcpys apart.
THEOREM NoOverlap == Spec => []CopiesDoNotOverlap
<1>1. IInv => CopiesDoNotOverlap
  <2> SUFFICES ASSUME IInv, wpc = "fill", rpc \in {"copy", "release"}
               PROVE  Pos(writeIdx) # Pos(readIdx)
    BY Zenon DEF CopiesDoNotOverlap
  <2>1. readIdx \in Nat /\ writeIdx \in Nat /\ readIdx < writeIdx /\ writeIdx < readIdx + SlotCount
    BY Zenon DEF IInv, TypeOK, SlotInv
  <2> QED
    BY <2>1, SlotsDiffer, Zenon
<1> QED
  BY <1>1, Invariance, PTL

\* write() refuses a message of admissible size only when the queue is full.
THEOREM RefusalMeansFull == Spec => RefusesOnlyWhenFull
<1>1. ASSUME IInv, NEW m \in Message, m.size <= MAX_DATA_SIZE, WriteFails(m)
      PROVE  writeIdx = readIdx + SlotCount
  <2>1. m.size \in Nat /\ readIdx \in Nat /\ writeIdx \in Nat /\ SlotCount \in Nat
    BY <1>1, QueueAssumption, Zenon DEF IInv, TypeOK, Message
  <2>2. seq[Pos(writeIdx)] # writeIdx
    BY <1>1, <2>1, QueueAssumption DEF WriteFails, CanWrite
  <2>3. writeIdx \notin writeIdx .. readIdx + SlotCount - 1
    BY <1>1, <2>2, Zenon DEF IInv, SlotInv
  <2>4. writeIdx <= readIdx + SlotCount
    BY <1>1, Zenon DEF IInv, SlotInv
  <2> QED
    BY <2>1, <2>3, <2>4
<1>2. IInv /\ [Next]_vars =>
        [\A m \in Message : m.size <= MAX_DATA_SIZE /\ WriteFails(m) => writeIdx = readIdx + SlotCount]_vars
  BY <1>1, Zenon
<1> QED
  BY <1>2, Invariance, PTL DEF Spec, RefusesOnlyWhenFull

\* The slots and the places of write() and read() keep their types.
THEOREM TypesKept == Spec => []TypeOK
  BY Invariance, PTL DEF IInv

\* Queue q holds what sequence s has after its first r elements.
Window(q, s, r) == Len(q) = Len(s) - r /\ \A k \in 1..Len(q) : q[k] = s[r + k]

\* Appending to the sequence appends to the queue.
LEMMA WindowGrows ==
  ASSUME NEW M, NEW s \in Seq(M), NEW m \in M, NEW r \in Nat, r <= Len(s),
         NEW q \in Seq(M), NEW p \in Seq(M), Window(q, s, r), Window(p, Append(s, m), r)
  PROVE  p = Append(q, m)
<1> DEFINE t == Append(s, m)
           u == Append(q, m)
           n == Len(s) - r
<1>1. /\ t \in Seq(M) /\ Len(t) = Len(s) + 1 /\ t[Len(s) + 1] = m
      /\ \A k \in 1..Len(s) : t[k] = s[k]
  OBVIOUS
<1>2. /\ u \in Seq(M) /\ Len(u) = Len(q) + 1 /\ u[Len(q) + 1] = m
      /\ \A k \in 1..Len(q) : u[k] = q[k]
  OBVIOUS
<1>3. Len(q) = n /\ \A k \in 1..Len(q) : q[k] = s[r + k]
  BY Zenon DEF Window
<1>4. Len(p) = Len(t) - r /\ \A k \in 1..Len(p) : p[k] = t[r + k]
  BY Zenon DEF Window
<1>5. n \in Nat /\ Len(s) = r + n
  OBVIOUS
<1> HIDE DEF t, u, n
<1>6. Len(p) = Len(u) /\ Len(u) = n + 1
  BY <1>1, <1>2, <1>3, <1>4, <1>5
<1>7. ASSUME NEW k \in 1..Len(u) PROVE p[k] = u[k]
  <2>1. CASE k = n + 1
    BY <1>1, <1>2, <1>3, <1>4, <1>5, <1>6, <2>1
  <2>2. CASE k \in 1..n
    <3>1. r + k \in 1..Len(s) /\ k \in 1..Len(q) /\ k \in 1..Len(p)
      BY <1>3, <1>5, <1>6, <2>2
    <3> QED
      BY <1>1, <1>2, <1>3, <1>4, <3>1, Zenon
  <2> QED
    BY <1>5, <1>6, <2>1, <2>2
<1>8. p = u
  BY <1>2, <1>6, <1>7, SeqEqual, Zenon
<1> QED
  BY <1>8, Zenon DEF u

\* Passing one more element takes the first one from the queue.
LEMMA WindowShrinks ==
  ASSUME NEW M, NEW s \in Seq(M), NEW r \in Nat, r < Len(s),
         NEW q \in Seq(M), NEW p \in Seq(M), Window(q, s, r), Window(p, s, r + 1)
  PROVE  q # <<>> /\ p = Tail(q)
<1>1. Len(q) = Len(s) - r /\ \A k \in 1..Len(q) : q[k] = s[r + k]
  BY Zenon DEF Window
<1>2. Len(p) = Len(s) - (r + 1) /\ \A k \in 1..Len(p) : p[k] = s[(r + 1) + k]
  BY Zenon DEF Window
<1>3. q # <<>>
  BY <1>1
<1> DEFINE u == Tail(q)
<1>4. u \in Seq(M) /\ Len(u) = Len(q) - 1 /\ \A k \in 1..(Len(q) - 1) : u[k] = q[k + 1]
  BY <1>3
<1> HIDE DEF u
<1>5. Len(p) = Len(u)
  BY <1>1, <1>2, <1>4
<1>6. ASSUME NEW k \in 1..Len(u) PROVE p[k] = u[k]
  <2>1. k + 1 \in 1..Len(q) /\ k \in 1..Len(p) /\ k \in 1..(Len(q) - 1) /\ (r + 1) + k = r + (k + 1)
    BY <1>4, <1>5
  <2> QED
    BY <1>1, <1>2, <1>4, <2>1
<1>7. p = u
  BY <1>4, <1>5, <1>6, SeqEqual, Zenon
<1> QED
  BY <1>3, <1>7, Zenon DEF u

\* A window determines the queue.
LEMMA WindowSame ==
  ASSUME NEW M, NEW s \in Seq(M), NEW r \in Nat,
         NEW q \in Seq(M), NEW p \in Seq(M), Window(q, s, r), Window(p, s, r)
  PROVE  p = q
  BY SeqEqual, Zenon DEF Window

\* The messages in the slots are the ones written and not read yet.
QueueHolds == Queue \in Seq(Message) /\ Window(Queue, written, readIdx)

LEMMA QueueOfSlots == IInv => QueueHolds
<1> SUFFICES ASSUME IInv PROVE QueueHolds
  BY Zenon
<1>1. readIdx \in Nat /\ writeIdx \in Nat /\ readIdx <= writeIdx /\ written \in Seq(Message)
      /\ Len(written) = writeIdx
  BY Zenon DEF IInv, TypeOK, SlotInv
<1>2. ASSUME NEW k \in 1 .. writeIdx - readIdx
      PROVE  Queue[k] = written[readIdx + k] /\ written[readIdx + k] \in Message
  <2>1. readIdx + k - 1 \in readIdx .. writeIdx - 1 /\ readIdx + k \in 1 .. Len(written)
        /\ readIdx + k - 1 + 1 = readIdx + k
    BY <1>1
  <2>2. written[readIdx + k] \in Message
    BY <1>1, <2>1
  <2>3. /\ data[Pos(readIdx + k - 1)] = written[readIdx + k].body
        /\ size[Pos(readIdx + k - 1)] = written[readIdx + k].size
    BY <2>1, Zenon DEF IInv, SlotInv
  <2>4. Queue[k] = [body |-> data[Pos(readIdx + k - 1)], size |-> size[Pos(readIdx + k - 1)]]
    BY Zenon DEF Queue
  <2> QED
    BY <2>2, <2>3, <2>4, Zenon DEF Message
<1>3. writeIdx - readIdx \in Nat
  BY <1>1
<1>4. Queue \in [1 .. writeIdx - readIdx -> Message]
  BY <1>2, Zenon DEF Queue
<1>5. Queue \in Seq(Message) /\ Len(Queue) = writeIdx - readIdx
  BY <1>3, <1>4
<1> QED
  BY <1>1, <1>2, <1>5, Zenon DEF QueueHolds, Window

\* Storing the sequence number appends the message, releasing a slot takes the
\* first one, and no other step changes the queue.
LEMMA FifoStep ==
  ASSUME IInv, QueueHolds, QueueHolds', [Next]_vars
  PROVE  [F!FifoNext]_Queue
<1>1. /\ readIdx \in Nat /\ writeIdx \in Nat /\ readIdx <= writeIdx /\ written \in Seq(Message)
      /\ Len(written) = writeIdx /\ SlotCount \in Nat
  BY QueueAssumption, Zenon DEF IInv, TypeOK, SlotInv
<1>2. /\ Queue \in Seq(Message) /\ Window(Queue, written, readIdx)
      /\ Queue' \in Seq(Message) /\ Window(Queue', written', readIdx')
  BY Zenon DEF QueueHolds, Window
<1>3. CASE WritePublish
  <2>1. /\ readIdx' = readIdx /\ written' = Append(written, wmsg)
        /\ wmsg \in Message /\ writeIdx < readIdx + SlotCount
    BY <1>3, Zenon DEF WritePublish, reader, IInv, SlotInv
  <2>2. Queue' = Append(Queue, wmsg)
    BY <1>1, <1>2, <2>1, WindowGrows, Zenon
  <2>3. Len(Queue) < SlotCount
    BY <1>1, <1>2, <2>1 DEF Window
  <2> QED
    BY <2>1, <2>2, <2>3, Zenon DEF F!FifoNext, F!Push
<1>4. CASE ReadRelease
  <2>1. readIdx' = readIdx + 1 /\ written' = written /\ readIdx < Len(written)
    BY <1>1, <1>4, Zenon DEF ReadRelease, writer, IInv, SlotInv
  <2>2. Queue # <<>> /\ Queue' = Tail(Queue)
    BY <1>1, <1>2, <2>1, WindowShrinks
  <2> QED
    BY <2>2, Zenon DEF F!FifoNext, F!Pop
<1>5. CASE ~WritePublish /\ ~ReadRelease
  <2>1. readIdx' = readIdx /\ written' = written
    BY <1>5, Zenon DEF Next, vars, slots, writer, reader, WriteCheck, WriteFails, WriteData, ReadCheck, ReadCopy, ReadReturn
  <2>2. Queue' = Queue
    BY <1>1, <1>2, <2>1, WindowSame, Zenon
  <2> QED
    BY <2>2, Zenon
<1> QED
  BY <1>3, <1>4, <1>5, Zenon

\* The queue of slots implements the bounded FIFO queue of messages: every step
\* of write() and read() pushes a message, pops one, or leaves the queue alone.
THEOREM BehavesAsFifo == Spec => ImplementsFifo
<1>1. Init => F!FifoInit
  BY DEF Init, F!FifoInit, Queue
<1>2. IInv /\ QueueHolds /\ QueueHolds' /\ [Next]_vars => [F!FifoNext]_Queue
  BY FifoStep, Zenon
<1> QED
  BY <1>1, <1>2, Invariance, QueueOfSlots, PTL DEF Spec, ImplementsFifo, F!FifoSpec
-----------------------------------------------------------------------------
(* LfqRunner, the thread that consumes such a queue: no wake-up is lost, and  *)
(* stop() never joins a sleeping thread, for every capacity and every store   *)
(* buffer.                                                                    *)

\* The types and the two properties are inductive together with WaitInv.
RunnerInv == RunnerTypeOK /\ WaitInv /\ NoLostWakeUp /\ JoinsAwakeThread

\* The variables keep their types in every step.
LEMMA RunnerTypeKept == RunnerTypeOK /\ [RunnerNext]_runnerVars => RunnerTypeOK'
<1> SUFFICES ASSUME RunnerTypeOK, [RunnerNext]_runnerVars PROVE RunnerTypeOK'
  BY Zenon
<1> USE DEF RunnerTypeOK, poster, consumer, stopper
<1>1. CASE Write
  BY <1>1 DEF Write
<1>2. CASE GiveUp
  BY <1>2 DEF GiveUp
<1>3. CASE LoadSleeping
  BY <1>3 DEF LoadSleeping, AfterFlag
<1>4. CASE Bump
  BY <1>4 DEF Bump
<1>5. CASE Wake
  BY <1>5, Zenon DEF Wake, WakeUp
<1>6. CASE Drain
  BY <1>6 DEF Drain
<1>7. CASE Start
  BY <1>7, Zenon DEF Start
<1>8. CASE Consume
  BY <1>8 DEF Consume
<1>9. CASE SpinEnds
  BY <1>9, Zenon DEF SpinEnds
<1>10. CASE LoadFutex
  BY <1>10, Zenon DEF LoadFutex
<1>11. CASE RaiseFlag
  BY <1>11, Zenon DEF RaiseFlag
<1>12. CASE LastRead
  <2>1. consumed' \in Nat
    BY <1>12 DEF LastRead
  <2> QED
    BY <1>12, <2>1, Zenon DEF LastRead
<1>13. CASE GoToSleep
  BY <1>13, Zenon DEF GoToSleep, Arrived, StopSeen
<1>14. CASE FutexWait
  BY <1>14, Zenon DEF FutexWait, AfterWait
<1>15. CASE SpuriousWake
  BY <1>15, Zenon DEF SpuriousWake
<1>16. CASE LowerFlag
  BY <1>16, Zenon DEF LowerFlag
<1>17. CASE Exit
  BY <1>17, Zenon DEF Exit, Arrived, StopSeen
<1>18. CASE RequestStop
  BY <1>18 DEF RequestStop
<1>19. CASE StopCalled
  BY <1>19, Zenon DEF StopCalled
<1>20. CASE StopBump
  BY <1>20 DEF StopBump, Bumped
<1>21. CASE StopWake
  BY <1>21, Zenon DEF StopWake, WakeUp
<1>22. CASE Join
  BY <1>22, Zenon DEF Join
<1>23. CASE UNCHANGED runnerVars
  BY <1>23 DEF runnerVars
<1> QED
  BY <1>1, <1>2, <1>3, <1>4, <1>5, <1>6, <1>7, <1>8, <1>9, <1>10, <1>11, <1>12,
     <1>13, <1>14, <1>15, <1>16, <1>17, <1>18, <1>19, <1>20, <1>21, <1>22, <1>23, Zenon
     DEF RunnerNext, PosterNext, LoopNext, StopNext

\* WaitInv, and with it the two properties, is kept by every step.
LEMMA RunnerWaitKept == RunnerInv /\ [RunnerNext]_runnerVars => (WaitInv /\ NoLostWakeUp /\ JoinsAwakeThread)'
<1> SUFFICES ASSUME RunnerInv, [RunnerNext]_runnerVars PROVE (WaitInv /\ NoLostWakeUp /\ JoinsAwakeThread)'
  BY Zenon
<1> USE DEF RunnerInv, RunnerTypeOK, WaitInv, NoLostWakeUp, JoinsAwakeThread, poster, consumer, stopper
<1>1. CASE Write
  BY <1>1 DEF Write
<1>2. CASE GiveUp
  BY <1>2, Zenon DEF GiveUp
<1>3. CASE LoadSleeping
  BY <1>3 DEF LoadSleeping, AfterFlag
<1>4. CASE Bump
  BY <1>4 DEF Bump
<1>5. CASE Wake
  BY <1>5, Zenon DEF Wake, WakeUp
<1>6. CASE Drain
  BY <1>6 DEF Drain
<1>7. CASE Start
  BY <1>7, Zenon DEF Start
<1>8. CASE Consume
  BY <1>8 DEF Consume
<1>9. CASE SpinEnds
  BY <1>9, Zenon DEF SpinEnds
<1>10. CASE LoadFutex
  BY <1>10 DEF LoadFutex
<1>11. CASE RaiseFlag
  BY <1>11, Zenon DEF RaiseFlag
<1>12. CASE LastRead
  BY <1>12 DEF LastRead, Arrived
<1>13. CASE GoToSleep
  BY <1>13 DEF GoToSleep, Arrived, StopSeen
<1>14. CASE FutexWait
  BY <1>14 DEF FutexWait, AfterWait
<1>15. CASE SpuriousWake
  BY <1>15, Zenon DEF SpuriousWake
<1>16. CASE LowerFlag
  BY <1>16, Zenon DEF LowerFlag
<1>17. CASE Exit
  BY <1>17, Zenon DEF Exit, Arrived, StopSeen
<1>18. CASE RequestStop
  BY <1>18, Zenon DEF RequestStop
<1>19. CASE StopCalled
  BY <1>19, Zenon DEF StopCalled
<1>20. CASE StopBump
  BY <1>20 DEF StopBump, Bumped
<1>21. CASE StopWake
  BY <1>21, Zenon DEF StopWake, WakeUp
<1>22. CASE Join
  BY <1>22, Zenon DEF Join
<1>23. CASE UNCHANGED runnerVars
  BY <1>23, Zenon DEF runnerVars
<1> QED
  BY <1>1, <1>2, <1>3, <1>4, <1>5, <1>6, <1>7, <1>8, <1>9, <1>10, <1>11, <1>12,
     <1>13, <1>14, <1>15, <1>16, <1>17, <1>18, <1>19, <1>20, <1>21, <1>22, <1>23, Zenon
     DEF RunnerNext, PosterNext, LoopNext, StopNext

\* The inductive invariant holds in every behaviour.
THEOREM RunnerInvariance == RunnerSpec => []RunnerInv
<1>1. RunnerInit => RunnerInv
  <2> SUFFICES ASSUME RunnerInit PROVE RunnerInv
    BY Zenon
  <2>1. RunnerTypeOK
    BY Zenon DEF RunnerInit, RunnerTypeOK
  <2>2. WaitInv /\ NoLostWakeUp /\ JoinsAwakeThread
    BY DEF RunnerInit, WaitInv, NoLostWakeUp, JoinsAwakeThread
  <2> QED
    BY <2>1, <2>2, Zenon DEF RunnerInv
<1>2. RunnerInv /\ [RunnerNext]_runnerVars => RunnerInv'
  BY RunnerTypeKept, RunnerWaitKept, Zenon DEF RunnerInv
<1> QED
  BY <1>1, <1>2, PTL DEF RunnerSpec

\* The consumer never sleeps on a message that was in memory when post() read
\* sleeping_, unless the poster is about to wake it.
THEOREM WakeUpsNotLost == RunnerSpec => []NoLostWakeUp
  BY RunnerInvariance, PTL DEF RunnerInv

\* LfqRunner::stop never joins a thread that sleeps on the futex.
THEOREM JoinIsSafe == RunnerSpec => []JoinsAwakeThread
  BY RunnerInvariance, PTL DEF RunnerInv

\* The flags, the futex word and the places of the threads keep their types.
THEOREM RunnerTypesKept == RunnerSpec => []RunnerTypeOK
  BY RunnerInvariance, PTL DEF RunnerInv
-----------------------------------------------------------------------------
(* TurboSPSC, the ring of bytes whose sides keep copies of each other's index:*)
(* messages come out whole and in order, for every size of the ring and of    *)
(* the messages, and it implements the bounded FIFO queue.                    *)

\* The remainder is the one number below n that differs by a multiple of n.
LEMMA RemainderIs ==
  ASSUME NEW n \in Nat \ {0}, NEW q \in Nat, NEW r \in 0 .. n - 1
  PROVE  (n * q + r) % n = r
<1> DEFINE a == n * q + r
           p == a \div n
           s == a % n
<1>1. a \in Nat
  OBVIOUS
<1>2. a = n * p + s /\ p \in Nat /\ s \in 0 .. n - 1
  BY <1>1, DivMod, Zenon
<1>3. n * p + s = n * q + r
  BY <1>2, Zenon
<1> HIDE DEF a, p, s
<1>4. n * (p - q) = r - s /\ n * (q - p) = s - r /\ p - q \in Int /\ q - p \in Int
  BY <1>2, <1>3
<1>5. CASE p - q >= 1
  BY <1>2, <1>4, <1>5, MultipleNotSmaller
<1>6. CASE q - p >= 1
  BY <1>2, <1>4, <1>6, MultipleNotSmaller
<1>7. CASE p = q
  BY <1>2, <1>3, <1>7 DEF a, s
<1> QED
  BY <1>2, <1>5, <1>6, <1>7

\* And the quotient is that multiple.
LEMMA QuotientIs ==
  ASSUME NEW n \in Nat \ {0}, NEW q \in Nat
  PROVE  (n * q + 0) \div n = q
<1> DEFINE a == n * q + 0
           p == a \div n
           r == a % n
<1>1. a \in Nat /\ a = n * q
  OBVIOUS
<1>2. a = n * p + r /\ p \in Nat
  BY <1>1, DivMod, Zenon
<1>3. r = 0
  BY RemainderIs
<1> HIDE DEF a, p, r
<1>4. n * p = n * q
  BY <1>1, <1>2, <1>3
<1>5. p = q
  BY <1>2, <1>4
<1> QED
  BY <1>5, Zenon DEF a, p

\* Multiples are ordered as their factors.
LEMMA MultiplesOrdered ==
  ASSUME NEW n \in Nat \ {0}, NEW a \in Nat, NEW b \in Nat
  PROVE  /\ a * n <= b * n <=> a <= b
         /\ a * n < b * n <=> a < b
         /\ a * n < b * n => a * n + n <= b * n
         /\ a * n \in Nat
         /\ a * n + n = (a + 1) * n
  OBVIOUS

\* Messages the ring holds.
Places == BUFFER_SIZE \div SIZE

LEMMA PlacesFill ==
  ASSUME TurboConstants
  PROVE  /\ Places \in Nat \ {0} /\ BUFFER_SIZE = Places * SIZE
         /\ SIZE \in Nat \ {0} /\ BUFFER_SIZE \in Nat \ {0}
<1>1. SIZE \in Nat \ {0} /\ BUFFER_SIZE \in Nat \ {0} /\ BUFFER_SIZE % SIZE = 0
  BY Zenon DEF TurboConstants
<1>2. BUFFER_SIZE = SIZE * (BUFFER_SIZE \div SIZE) + (BUFFER_SIZE % SIZE) /\ BUFFER_SIZE \div SIZE \in Nat
  BY <1>1, DivMod, Zenon
<1> DEFINE p == BUFFER_SIZE \div SIZE
<1> HIDE DEF p
<1>3. BUFFER_SIZE = SIZE * p /\ p \in Nat
  BY <1>1, <1>2 DEF p
<1>4. p # 0 /\ SIZE * p = p * SIZE
  BY <1>1, <1>3
<1> QED
  BY <1>1, <1>3, <1>4, Zenon DEF p, Places

\* Where the bytes of a message are.
LEMMA CellIs ==
  ASSUME TurboConstants, NEW n \in Nat \ {0}, NEW k \in 1..SIZE
  PROVE  Bytes((n - 1) * SIZE)[k] = ((n - 1) % Places) * SIZE + k - 1
<1> DEFINE a == n - 1
           q == a \div Places
           r == a % Places
<1>1. a \in Nat /\ Places \in Nat \ {0} /\ BUFFER_SIZE = Places * SIZE /\ SIZE \in Nat \ {0} /\ BUFFER_SIZE \in Nat \ {0}
  BY PlacesFill
<1>2. a = Places * q + r /\ q \in Nat /\ r \in 0 .. Places - 1
  BY <1>1, DivMod, Zenon
<1> HIDE DEF a, q, r
<1>3. a * SIZE = (Places * q + r) * SIZE
  BY <1>2, Zenon
<1>4. (Places * q + r) * SIZE = BUFFER_SIZE * q + r * SIZE
  BY <1>1, <1>2
<1>5. r * SIZE \in 0 .. BUFFER_SIZE - 1
  <2>1. r * SIZE < Places * SIZE /\ r * SIZE \in Nat
    BY <1>1, <1>2, MultiplesOrdered
  <2> QED
    BY <1>1, <2>1
<1>6. (BUFFER_SIZE * q + r * SIZE) % BUFFER_SIZE = r * SIZE
  BY <1>1, <1>2, <1>5, RemainderIs, Zenon
<1>7. (a * SIZE) % BUFFER_SIZE = r * SIZE
  BY <1>3, <1>4, <1>6, Zenon
<1> QED
  BY <1>7, Zenon DEF a, r, Bytes

\* The bytes of a message are bytes of the ring.
LEMMA CellType ==
  ASSUME TurboConstants, NEW n \in Nat \ {0}, NEW k \in 1..SIZE
  PROVE  Bytes((n - 1) * SIZE)[k] \in 0 .. BUFFER_SIZE - 1
<1> DEFINE r == (n - 1) % Places
<1>1. Places \in Nat \ {0} /\ BUFFER_SIZE = Places * SIZE /\ SIZE \in Nat \ {0} /\ BUFFER_SIZE \in Nat \ {0}
  BY PlacesFill, Zenon
<1>2. r \in 0 .. Places - 1
  BY <1>1, DivMod
<1>3. Bytes((n - 1) * SIZE)[k] = r * SIZE + k - 1
  BY CellIs, Zenon
<1> HIDE DEF r
<1>4. r * SIZE + SIZE <= Places * SIZE /\ r * SIZE \in Nat
  BY <1>1, <1>2, MultiplesOrdered
<1> QED
  BY <1>1, <1>3, <1>4

\* Messages less than a ring apart share no byte.
LEMMA CellsApart ==
  ASSUME TurboConstants, NEW m \in Nat \ {0}, NEW n \in Nat \ {0}, m < n, n < m + Places,
         NEW k \in 1..SIZE, NEW l \in 1..SIZE
  PROVE  Bytes((m - 1) * SIZE)[k] # Bytes((n - 1) * SIZE)[l]
<1> DEFINE r == (m - 1) % Places
           s == (n - 1) % Places
<1>1. Places \in Nat \ {0} /\ SIZE \in Nat \ {0}
  BY PlacesFill, Zenon
<1>2. r \in Nat /\ s \in Nat
  BY <1>1, DivMod
<1>3. r # s
  <2>1. m - 1 \in Nat /\ n - 1 \in Nat /\ m - 1 < n - 1 /\ n - 1 < (m - 1) + Places
    BY <1>1
  <2> QED
    BY <1>1, <2>1, RemaindersDiffer, Zenon
<1>4. Bytes((m - 1) * SIZE)[k] = r * SIZE + k - 1 /\ Bytes((n - 1) * SIZE)[l] = s * SIZE + l - 1
  BY CellIs, Zenon
<1> HIDE DEF r, s
<1>5. /\ r < s => r * SIZE + SIZE <= s * SIZE
      /\ s < r => s * SIZE + SIZE <= r * SIZE
      /\ r * SIZE \in Nat /\ s * SIZE \in Nat
  BY <1>1, <1>2, MultiplesOrdered, Zenon
<1> QED
  BY <1>1, <1>2, <1>3, <1>4, <1>5

-----------------------------------------------------------------------------
\* The indices as counts of messages: the reader is behind the writer, by less
\* than a ring while the writer copies, and has something to copy when it does.
LEMMA TurboIndicesCount ==
  ASSUME TurboConstants, TurboTypeOK, BytesInv
  PROVE  /\ Len(twritten) \in Nat /\ Len(tgot) \in Nat /\ Len(tgot) <= Len(twritten)
         /\ twpc \in {"fill", "publish"} => Len(twritten) + 1 <= Len(tgot) + Places
         /\ trpc = "copy" => Len(tgot) < Len(twritten) /\ readCursor + SIZE <= tailCache
<1> DEFINE w == Len(twritten)
           g == Len(tgot)
           t == tailCache \div SIZE
<1>1. Places \in Nat \ {0} /\ BUFFER_SIZE = Places * SIZE /\ SIZE \in Nat \ {0}
  BY PlacesFill, Zenon
<1>2. w \in Nat /\ g \in Nat /\ tailCache \in Nat /\ headCache \in Nat /\ thead \in Nat
  BY DEF TurboTypeOK
<1>3. ttail = w * SIZE /\ readCursor = g * SIZE /\ tailCache % SIZE = 0
  BY Zenon DEF BytesInv
<1>4. t \in Nat /\ tailCache = t * SIZE
  <2>1. tailCache = SIZE * t + (tailCache % SIZE) /\ t \in Nat
    BY <1>1, <1>2, DivMod, Zenon
  <2> HIDE DEF t
  <2> QED
    BY <1>1, <1>2, <1>3, <2>1
<1>5. headCache <= thead /\ thead <= readCursor /\ readCursor <= tailCache /\ tailCache <= ttail
  BY Zenon DEF TurboTypeOK
<1>6. /\ twpc \in {"fill", "publish"} => ttail + SIZE <= headCache + BUFFER_SIZE
      /\ trpc = "copy" => readCursor < tailCache
  BY Zenon DEF BytesInv, Fits
<1> HIDE DEF w, g, t
<1>7. g * SIZE <= t * SIZE /\ t * SIZE <= w * SIZE
  BY <1>3, <1>4, <1>5, Zenon
<1>8. g <= t /\ t <= w
  BY <1>1, <1>2, <1>4, <1>7, MultiplesOrdered, Zenon
<1>9. ASSUME twpc \in {"fill", "publish"} PROVE w + 1 <= g + Places
  <2>1. g * SIZE \in Nat /\ w * SIZE \in Nat
    BY <1>1, <1>2, MultiplesOrdered, Zenon
  <2>2. w * SIZE + SIZE <= g * SIZE + Places * SIZE
    BY <1>1, <1>2, <1>3, <1>5, <1>6, <1>9, <2>1
  <2>3. (w + 1) * SIZE <= (g + Places) * SIZE
    BY <1>1, <1>2, <2>2
  <2> QED
    BY <1>1, <1>2, <2>3, MultiplesOrdered
<1>10. ASSUME trpc = "copy" PROVE g < w /\ readCursor + SIZE <= tailCache
  <2>1. g * SIZE < t * SIZE
    BY <1>3, <1>4, <1>6, <1>10, Zenon
  <2>2. g < t /\ g * SIZE + SIZE <= t * SIZE
    BY <1>1, <1>2, <1>4, <2>1, MultiplesOrdered, Zenon
  <2> QED
    BY <1>2, <1>3, <1>4, <1>8, <2>2
<1> QED
  BY <1>2, <1>4, <1>8, <1>9, <1>10 DEF w, g

\* So the two memcpys stay apart.
LEMMA TurboCopiesApart ==
  ASSUME TurboConstants, TurboTypeOK, BytesInv
  PROVE  TurboCopiesDoNotOverlap
<1> SUFFICES ASSUME twpc \in {"fill", "publish"}, trpc = "copy", NEW k \in 1..SIZE, NEW l \in 1..SIZE
             PROVE  Bytes(ttail)[k] # Bytes(readCursor)[l]
  BY Zenon DEF TurboCopiesDoNotOverlap
<1> DEFINE w == Len(twritten) + 1
           g == Len(tgot) + 1
<1>1. w \in Nat \ {0} /\ g \in Nat \ {0} /\ g < w /\ w < g + Places
  BY TurboIndicesCount, PlacesFill
<1>2. w - 1 = Len(twritten) /\ g - 1 = Len(tgot)
  BY TurboIndicesCount
<1>3. ttail = (w - 1) * SIZE /\ readCursor = (g - 1) * SIZE
  BY <1>2, Zenon DEF BytesInv
<1> HIDE DEF w, g
<1>4. Bytes((g - 1) * SIZE)[l] # Bytes((w - 1) * SIZE)[k]
  BY <1>1, CellsApart, Zenon
<1> QED
  BY <1>3, <1>4, Zenon

-----------------------------------------------------------------------------
\* The invariant without what follows from it.
TurboCore == TurboTypeOK /\ BytesInv /\ TurboReadsInOrder

\* Steps that leave the ring, the indices and the messages alone.
LEMMA TurboQuietSteps ==
  ASSUME TurboConstants, TurboCore,
         TurboWriteReload \/ TurboReadCheck \/ TurboReadLoad \/ (\E m \in TurboMessage : TurboWriteCheck(m)) \/ UNCHANGED turboVars
  PROVE  TurboCore'
<1>1. UNCHANGED <<ttail, buffer, twritten, readCursor, tgot>>
  BY Zenon DEF TurboWriteReload, TurboReadCheck, TurboReadLoad, TurboWriteCheck, turboVars, turboWriter, turboReader
<1>2. TurboReadsInOrder'
  BY <1>1, Zenon DEF TurboCore, TurboReadsInOrder
<1>3. /\ {thead, headCache, tailCache} \subseteq Nat
      /\ headCache <= thead /\ thead <= readCursor /\ readCursor <= tailCache /\ tailCache <= ttail
      /\ readCursor = Len(tgot) * SIZE /\ ttail = Len(twritten) * SIZE /\ tailCache % SIZE = 0
      /\ readCursor \in Nat /\ ttail \in Nat
  <2>1. Len(tgot) \in Nat /\ Len(twritten) \in Nat /\ SIZE \in Nat
    BY PlacesFill DEF TurboCore, TurboTypeOK
  <2> QED
    BY <2>1 DEF TurboCore, TurboTypeOK, BytesInv
<1>4. ttail % SIZE = 0
  <2>1. SIZE \in Nat \ {0} /\ Len(twritten) \in Nat
    BY PlacesFill DEF TurboCore, TurboTypeOK
  <2>2. (SIZE * Len(twritten) + 0) % SIZE = 0
    BY <2>1, RemainderIs
  <2> QED
    BY <1>3, <2>1, <2>2
<1>5. /\ {thead, headCache, tailCache}' \subseteq Nat
      /\ (headCache <= thead /\ thead <= readCursor /\ readCursor <= tailCache /\ tailCache <= ttail)'
      /\ tailCache' % SIZE = 0 /\ (trpc' = "copy" => readCursor' < tailCache')
  <2>1. CASE TurboWriteReload
    BY <1>3, <2>1 DEF TurboWriteReload, turboReader, TurboCore, BytesInv
  <2>2. CASE TurboReadCheck
    BY <1>3, <2>2 DEF TurboReadCheck, turboWriter
  <2>3. CASE TurboReadLoad
    BY <1>3, <1>4, <2>3 DEF TurboReadLoad, turboWriter
  <2>4. CASE (\E m \in TurboMessage : TurboWriteCheck(m)) \/ UNCHANGED turboVars
    BY <1>3, <2>4, Zenon DEF TurboWriteCheck, turboVars, turboWriter, turboReader, TurboCore, BytesInv
  <2> QED
    BY <2>1, <2>2, <2>3, <2>4, Zenon
<1>6. /\ twpc' \in {"idle", "reload", "fill", "publish"} /\ trpc' \in {"idle", "load", "copy"}
      /\ twpc' # "idle" => twmsg' \in TurboMessage
      /\ twpc' \in {"fill", "publish"} => Fits(headCache)'
      /\ twpc' = "publish" => twpc = "publish" /\ twmsg' = twmsg
  <2>1. CASE TurboWriteReload
    BY <2>1, Zenon DEF TurboWriteReload, turboReader, TurboCore, TurboTypeOK, Fits
  <2>2. CASE TurboReadCheck \/ TurboReadLoad \/ UNCHANGED turboVars
    BY <2>2, Zenon DEF TurboReadCheck, TurboReadLoad, turboVars, turboWriter, turboReader, TurboCore, TurboTypeOK, BytesInv, Fits
  <2>3. CASE \E m \in TurboMessage : TurboWriteCheck(m)
    BY <2>3, Zenon DEF TurboWriteCheck, turboReader, TurboCore, TurboTypeOK, Fits
  <2> QED
    BY <2>1, <2>2, <2>3, Zenon
<1>7. TurboTypeOK'
  BY <1>1, <1>5, <1>6, Zenon DEF TurboCore, TurboTypeOK
<1>8. BytesInv'
  BY <1>1, <1>5, <1>6, Zenon DEF TurboCore, BytesInv, Filled, Bytes
<1> QED
  BY <1>2, <1>7, <1>8, Zenon DEF TurboCore

\* The memcpy of write() fills the next place and touches no message in the ring.
LEMMA TurboCopyStep ==
  ASSUME TurboConstants, TurboCore, TurboWriteCopy
  PROVE  TurboCore'
<1> DEFINE w == Len(twritten)
           g == Len(tgot)
<1>1. /\ twpc = "fill" /\ twpc' = "publish" /\ twmsg \in TurboMessage
      /\ UNCHANGED <<thead, ttail, headCache, twmsg, twritten, tailCache, readCursor, trpc, tgot>>
  BY Zenon DEF TurboWriteCopy, turboReader, TurboCore, TurboTypeOK
<1>2. buffer \in [0..(BUFFER_SIZE - 1) -> TurboMessage \cup {0}] /\ ttail = w * SIZE
  BY Zenon DEF TurboCore, TurboTypeOK, BytesInv
<1>3. w \in Nat /\ g \in Nat /\ g <= w /\ w + 1 <= g + Places /\ Places \in Nat
  BY <1>1, TurboIndicesCount, PlacesFill, Zenon DEF TurboCore
<1>4. buffer' = [b \in 0..(BUFFER_SIZE - 1) |-> IF \E k \in 1..SIZE : Bytes(w * SIZE)[k] = b THEN twmsg ELSE buffer[b]]
  BY <1>2, Zenon DEF TurboWriteCopy
<1> HIDE DEF w, g
<1>5. ASSUME NEW n \in (g + 1)..w, NEW k \in 1..SIZE
      PROVE  buffer'[Bytes((n - 1) * SIZE)[k]] = buffer[Bytes((n - 1) * SIZE)[k]]
  <2>1. n \in Nat \ {0} /\ w + 1 \in Nat \ {0} /\ n < w + 1 /\ w + 1 < n + Places /\ (w + 1) - 1 = w
    BY <1>3
  <2>2. \A l \in 1..SIZE : Bytes((n - 1) * SIZE)[k] # Bytes(((w + 1) - 1) * SIZE)[l]
    BY <2>1, CellsApart, Zenon
  <2>3. Bytes((n - 1) * SIZE)[k] \in 0..(BUFFER_SIZE - 1)
    BY <2>1, CellType, Zenon
  <2> QED
    BY <1>4, <2>1, <2>2, <2>3, Zenon
<1>6. ASSUME NEW k \in 1..SIZE PROVE buffer'[Bytes(w * SIZE)[k]] = twmsg
  <2>1. w + 1 \in Nat \ {0} /\ (w + 1) - 1 = w
    BY <1>3
  <2>2. Bytes(w * SIZE)[k] \in 0..(BUFFER_SIZE - 1)
    BY <2>1, CellType, Zenon
  <2> QED
    BY <1>4, <2>2, Zenon
<1>7. TurboTypeOK'
  <2>1. buffer' \in [0..(BUFFER_SIZE - 1) -> TurboMessage \cup {0}]
    BY <1>1, <1>2, <1>4, Zenon
  <2> QED
    BY <1>1, <2>1, Zenon DEF TurboCore, TurboTypeOK
<1>8. BytesInv'
  <2>1. \A n \in (g + 1)..w : Filled(n, twritten[n])'
    <3> SUFFICES ASSUME NEW n \in (g + 1)..w, NEW k \in 1..SIZE PROVE buffer'[Bytes((n - 1) * SIZE)[k]] = twritten[n]
      BY <1>1, Zenon DEF Filled, Bytes
    <3>1. Filled(n, twritten[n])
      BY Zenon DEF TurboCore, BytesInv, w, g
    <3> QED
      BY <1>5, <3>1, Zenon DEF Filled
  <2>2. Filled(w + 1, twmsg)'
    <3>1. (w + 1) - 1 = w
      BY <1>3
    <3>2. w' = w
      BY <1>1, Zenon DEF w
    <3> QED
      BY <1>1, <1>6, <3>1, <3>2, Zenon DEF Filled, Bytes
  <2>3. Fits(headCache)'
    BY <1>1, Zenon DEF TurboCore, BytesInv, Fits
  <2> QED
    BY <1>1, <2>1, <2>2, <2>3, Zenon DEF TurboCore, BytesInv, w, g
<1>9. TurboReadsInOrder'
  BY <1>1, Zenon DEF TurboCore, TurboReadsInOrder
<1> QED
  BY <1>7, <1>8, <1>9, Zenon DEF TurboCore

\* The message in the next place becomes one of those in the ring.
LEMMA TurboPublishStep ==
  ASSUME TurboConstants, TurboCore, TurboWritePublish
  PROVE  TurboCore'
<1> DEFINE w == Len(twritten)
           g == Len(tgot)
<1>1. /\ twpc = "publish" /\ twpc' = "idle" /\ twmsg \in TurboMessage
      /\ ttail' = ttail + SIZE /\ twritten' = Append(twritten, twmsg)
      /\ UNCHANGED <<thead, buffer, headCache, twmsg, tailCache, readCursor, trpc, tgot>>
  BY Zenon DEF TurboWritePublish, turboReader, TurboCore, TurboTypeOK
<1>2. w \in Nat /\ g \in Nat /\ g <= w /\ SIZE \in Nat \ {0} /\ twritten \in Seq(TurboMessage)
  BY TurboIndicesCount, PlacesFill, Zenon DEF TurboCore, TurboTypeOK
<1>3. /\ twritten' \in Seq(TurboMessage) /\ Len(twritten') = w + 1
      /\ \A n \in 1..w : twritten'[n] = twritten[n]
      /\ twritten'[w + 1] = twmsg
  BY <1>1, <1>2
<1>4. /\ ttail = w * SIZE /\ readCursor = g * SIZE /\ tailCache % SIZE = 0
      /\ trpc = "copy" => readCursor < tailCache
      /\ \A n \in (g + 1)..w : Filled(n, twritten[n])
      /\ Filled(w + 1, twmsg)
  BY <1>1, Zenon DEF TurboCore, BytesInv
<1>5. ttail' = (w + 1) * SIZE /\ ttail \in Nat
  BY <1>1, <1>2, <1>4, MultiplesOrdered, Zenon
<1>6. TurboTypeOK'
  <2>1. tailCache \in Nat /\ tailCache <= ttail
    BY Zenon DEF TurboCore, TurboTypeOK
  <2>2. tailCache <= ttail'
    BY <1>1, <1>2, <1>5, <2>1
  <2> QED
    BY <1>1, <1>3, <2>2, Zenon DEF TurboCore, TurboTypeOK
<1>7. BytesInv'
  <2>1. ASSUME NEW n \in (g + 1)..(w + 1) PROVE Filled(n, twritten[n])'
    <3>1. Filled(n, twritten'[n])
      <4>1. CASE n = w + 1
        BY <1>3, <1>4, <4>1, Zenon
      <4>2. CASE n \in (g + 1)..w
        <5>1. n \in 1..w
          BY <1>2, <4>2
        <5> QED
          BY <1>3, <1>4, <4>2, <5>1, Zenon
      <4> QED
        BY <1>2, <4>1, <4>2
    <3> QED
      BY <1>1, <3>1, Zenon DEF Filled, Bytes
  <2> QED
    BY <1>1, <1>3, <1>4, <1>5, <2>1, Zenon DEF BytesInv
<1>8. TurboReadsInOrder'
  <2>1. DOMAIN tgot = 1..g
    BY DEF TurboCore, TurboTypeOK
  <2>2. \A i \in 1..g : tgot[i] = [k \in 1..SIZE |-> twritten[i]] /\ i \in 1..w
    BY <1>2, <2>1 DEF TurboCore, TurboReadsInOrder
  <2> QED
    BY <1>1, <1>2, <1>3, <2>1, <2>2 DEF TurboReadsInOrder
<1> QED
  BY <1>6, <1>7, <1>8, Zenon DEF TurboCore

\* The memcpy of read() finds the oldest message, whole.
LEMMA TurboReadStep ==
  ASSUME TurboConstants, TurboCore, TurboReadCopy
  PROVE  TurboCore'
<1> DEFINE w == Len(twritten)
           g == Len(tgot)
           e == [k \in 1..SIZE |-> twritten[g + 1]]
<1>1. /\ trpc = "copy" /\ trpc' = "idle" /\ readCursor' = readCursor + SIZE
      /\ tgot' = Append(tgot, [k \in 1..SIZE |-> buffer[Bytes(readCursor)[k]]])
      /\ UNCHANGED <<thead, ttail, buffer, headCache, twpc, twmsg, twritten, tailCache>>
  BY Zenon DEF TurboReadCopy, turboWriter
<1>2. /\ w \in Nat /\ g \in Nat /\ g < w /\ SIZE \in Nat \ {0} /\ twritten \in Seq(TurboMessage)
      /\ tgot \in Seq([1..SIZE -> TurboMessage]) /\ readCursor + SIZE <= tailCache
  BY <1>1, TurboIndicesCount, PlacesFill, Zenon DEF TurboCore, TurboTypeOK
<1>3. /\ ttail = w * SIZE /\ readCursor = g * SIZE /\ tailCache % SIZE = 0
      /\ \A n \in (g + 1)..w : Filled(n, twritten[n])
  BY Zenon DEF TurboCore, BytesInv
<1>4. twritten[g + 1] \in TurboMessage /\ e \in [1..SIZE -> TurboMessage]
  BY <1>2
<1>5. [k \in 1..SIZE |-> buffer[Bytes(readCursor)[k]]] = e
  <2>1. g + 1 \in (g + 1)..w /\ (g + 1) - 1 = g
    BY <1>2
  <2>2. Filled(g + 1, twritten[g + 1])
    BY <1>3, <2>1, Zenon
  <2>3. \A k \in 1..SIZE : buffer[Bytes(readCursor)[k]] = twritten[g + 1]
    BY <1>3, <2>1, <2>2 DEF Filled
  <2> QED
    BY <2>3, Zenon
<1>6. tgot' = Append(tgot, e)
  BY <1>1, <1>5, Zenon
<1> HIDE DEF e
<1>7. /\ tgot' \in Seq([1..SIZE -> TurboMessage]) /\ Len(tgot') = g + 1
      /\ \A i \in 1..g : tgot'[i] = tgot[i]
      /\ tgot'[g + 1] = e
  BY <1>2, <1>4, <1>6
<1>8. readCursor' = (g + 1) * SIZE /\ readCursor \in Nat /\ tailCache \in Nat
  BY <1>1, <1>2, <1>3, MultiplesOrdered, Zenon DEF TurboCore, TurboTypeOK
<1>9. TurboTypeOK'
  <2>1. thead \in Nat /\ thead <= readCursor
    BY Zenon DEF TurboCore, TurboTypeOK
  <2>2. thead <= readCursor' /\ readCursor' <= tailCache
    BY <1>1, <1>2, <1>8, <2>1
  <2> QED
    BY <1>1, <1>7, <2>2, Zenon DEF TurboCore, TurboTypeOK
<1>10. BytesInv'
  <2>1. ASSUME NEW n \in (g + 2)..w PROVE Filled(n, twritten[n])'
    <3>1. Filled(n, twritten[n])
      BY <1>2, <1>3
    <3> QED
      BY <1>1, <3>1, Zenon DEF Filled, Bytes
  <2>2. twpc' = "publish" => Filled(Len(twritten) + 1, twmsg)'
    BY <1>1, Zenon DEF TurboCore, BytesInv, Filled, Bytes
  <2>3. twpc' \in {"fill", "publish"} => Fits(headCache)'
    BY <1>1, Zenon DEF TurboCore, BytesInv, Fits
  <2>4. Len(tgot') + 1 = g + 2
    BY <1>2, <1>7
  <2> QED
    BY <1>1, <1>3, <1>7, <1>8, <2>1, <2>2, <2>3, <2>4, Zenon DEF BytesInv
<1>11. TurboReadsInOrder'
  <2>1. DOMAIN tgot' = 1..(g + 1) /\ DOMAIN tgot = 1..g
    BY <1>2, <1>7
  <2>2. \A i \in 1..g : tgot[i] = [k \in 1..SIZE |-> twritten[i]]
    BY <2>1, Zenon DEF TurboCore, TurboReadsInOrder
  <2>3. ASSUME NEW i \in 1..(g + 1) PROVE tgot'[i] = [k \in 1..SIZE |-> twritten[i]]
    <3>1. CASE i = g + 1
      BY <1>7, <3>1, Zenon DEF e
    <3>2. CASE i \in 1..g
      BY <1>7, <2>2, <3>2, Zenon
    <3> QED
      BY <1>2, <3>1, <3>2
  <2> QED
    BY <1>1, <1>2, <1>7, <2>1, <2>3 DEF TurboReadsInOrder
<1> QED
  BY <1>9, <1>10, <1>11, Zenon DEF TurboCore

\* The invariant is kept by every step.
LEMMA TurboStays == TurboSpec => []TurboCore
<1> USE TurboAssumption
<1>1. TurboInit => TurboCore
  <2> SUFFICES ASSUME TurboInit PROVE TurboCore
    BY Zenon
  <2>1. SIZE \in Nat \ {0} /\ BUFFER_SIZE \in Nat \ {0}
    BY PlacesFill, Zenon
  <2>2. 0 * SIZE = 0 /\ 0 % SIZE = 0
    BY <2>1
  <2>3. TurboTypeOK /\ TurboReadsInOrder
    BY DEF TurboInit, TurboTypeOK, TurboReadsInOrder
  <2>4. BytesInv
    BY <2>1, <2>2 DEF TurboInit, BytesInv
  <2> QED
    BY <2>3, <2>4, Zenon DEF TurboCore
<1>2. TurboCore /\ [TurboNext]_turboVars => TurboCore'
  BY TurboQuietSteps, TurboCopyStep, TurboPublishStep, TurboReadStep, Zenon DEF TurboNext, TurboWrite, TurboRead
<1> QED
  BY <1>1, <1>2, PTL DEF TurboSpec

\* TurboSPSC: the copies of an index lag behind it, the memcpy of write() and
\* that of read() never share a byte, and read() hands out the messages accepted,
\* whole and in order.
THEOREM TurboIsSafe == TurboSpec => []TurboInv
<1>1. TurboCore => TurboInv
  BY TurboAssumption, TurboCopiesApart, Zenon DEF TurboCore, TurboInv
<1> QED
  BY <1>1, TurboStays, PTL

\* The messages between the indices are those written and not read yet.
TurboHolds == TurboQueue \in Seq(TurboMessage) /\ Window(TurboQueue, twritten, Len(tgot))

LEMMA QueueOfBytes == TurboConstants /\ TurboCore => TurboHolds
<1> SUFFICES ASSUME TurboConstants, TurboCore PROVE TurboHolds
  BY Zenon
<1> DEFINE w == Len(twritten)
           g == Len(tgot)
<1>1. w \in Nat /\ g \in Nat /\ g <= w /\ SIZE \in Nat \ {0} /\ twritten \in Seq(TurboMessage)
  BY TurboIndicesCount, PlacesFill, Zenon DEF TurboCore, TurboTypeOK
<1>2. ttail = w * SIZE /\ readCursor = g * SIZE /\ \A n \in (g + 1)..w : Filled(n, twritten[n])
  BY Zenon DEF TurboCore, BytesInv
<1>3. (ttail - readCursor) \div SIZE = w - g
  <2>1. ttail - readCursor = SIZE * (w - g) + 0 /\ w - g \in Nat
    BY <1>1, <1>2
  <2> HIDE DEF w, g
  <2> QED
    BY <1>1, <2>1, QuotientIs, Zenon
<1>4. ASSUME NEW k \in 1..(w - g)
      PROVE  buffer[Bytes(readCursor + (k - 1) * SIZE)[1]] = twritten[g + k] /\ twritten[g + k] \in TurboMessage
  <2>1. readCursor + (k - 1) * SIZE = ((g + k) - 1) * SIZE /\ g + k \in (g + 1)..w /\ 1 \in 1..SIZE
    BY <1>1, <1>2
  <2>2. Filled(g + k, twritten[g + k])
    BY <1>2, <2>1, Zenon
  <2>3. twritten[g + k] \in TurboMessage
    BY <1>1, <2>1
  <2> QED
    BY <2>1, <2>2, <2>3, Zenon DEF Filled
<1> HIDE DEF w, g
<1>5. TurboQueue \in [1..(w - g) -> TurboMessage] /\ \A k \in 1..(w - g) : TurboQueue[k] = twritten[g + k]
  BY <1>3, <1>4, Zenon DEF TurboQueue
<1>6. w - g \in Nat
  BY <1>1
<1>7. TurboQueue \in Seq(TurboMessage) /\ Len(TurboQueue) = w - g
  BY <1>5, <1>6
<1> QED
  BY <1>5, <1>7, Zenon DEF TurboHolds, Window, w, g

\* Publishing pushes a message, the memcpy of read() pops one, and no other step
\* changes the queue.
LEMMA TurboFifoStep ==
  ASSUME TurboConstants, TurboCore, TurboHolds, TurboHolds', [TurboNext]_turboVars
  PROVE  [TurboFifo!FifoNext]_(TurboQueue)
<1>1. /\ Len(twritten) \in Nat /\ Len(tgot) \in Nat /\ Len(tgot) <= Len(twritten) /\ twritten \in Seq(TurboMessage)
      /\ tgot \in Seq([1..SIZE -> TurboMessage]) /\ Places \in Nat
  BY TurboIndicesCount, PlacesFill, Zenon DEF TurboCore, TurboTypeOK
<1>2. /\ TurboQueue \in Seq(TurboMessage) /\ Window(TurboQueue, twritten, Len(tgot))
      /\ TurboQueue' \in Seq(TurboMessage) /\ Window(TurboQueue', twritten', Len(tgot'))
  BY Zenon DEF TurboHolds, Window
<1>3. CASE TurboWritePublish
  <2>1. twritten' = Append(twritten, twmsg) /\ tgot' = tgot /\ twmsg \in TurboMessage /\ twpc \in {"fill", "publish"}
    BY <1>3, Zenon DEF TurboWritePublish, turboReader, TurboCore, TurboTypeOK
  <2>2. TurboQueue' = Append(TurboQueue, twmsg)
    BY <1>1, <1>2, <2>1, WindowGrows, Zenon
  <2>3. Len(twritten) + 1 <= Len(tgot) + Places
    BY <2>1, TurboIndicesCount, Zenon DEF TurboCore
  <2>4. Len(TurboQueue) < Places
    BY <1>1, <1>2, <2>3 DEF Window
  <2> QED
    BY <2>1, <2>2, <2>4, Zenon DEF TurboFifo!FifoNext, TurboFifo!Push, Places
<1>4. CASE TurboReadCopy
  <2>1. trpc = "copy" /\ twritten' = twritten /\ Len(tgot') = Len(tgot) + 1
    <3>1. trpc = "copy" /\ twritten' = twritten /\ tgot' = Append(tgot, [k \in 1..SIZE |-> buffer[Bytes(readCursor)[k]]])
      BY <1>4, Zenon DEF TurboReadCopy, turboWriter
    <3> QED
      BY <1>1, <3>1
  <2>2. Len(tgot) < Len(twritten)
    BY <2>1, TurboIndicesCount, Zenon DEF TurboCore
  <2>3. TurboQueue # <<>> /\ TurboQueue' = Tail(TurboQueue)
    BY <1>1, <1>2, <2>1, <2>2, WindowShrinks
  <2> QED
    BY <2>3, Zenon DEF TurboFifo!FifoNext, TurboFifo!Pop
<1>5. CASE ~TurboWritePublish /\ ~TurboReadCopy
  <2>1. twritten' = twritten /\ tgot' = tgot
    BY <1>5, Zenon DEF TurboNext, TurboWrite, TurboRead, turboVars, turboWriter, turboReader, TurboWriteCheck, TurboWriteReload, TurboWriteCopy, TurboReadCheck, TurboReadLoad
  <2>2. TurboQueue' = TurboQueue
    BY <1>1, <1>2, <2>1, WindowSame, Zenon
  <2> QED
    BY <2>2, Zenon
<1> QED
  BY <1>3, <1>4, <1>5, Zenon

\* The ring of bytes implements the bounded FIFO queue.
THEOREM TurboBehavesAsFifo == TurboSpec => TurboImplementsFifo
<1> USE TurboAssumption
<1>1. TurboInit => TurboFifo!FifoInit
  <2> SUFFICES ASSUME TurboInit PROVE TurboQueue = <<>>
    BY Zenon DEF TurboFifo!FifoInit
  <2>1. SIZE \in Nat \ {0}
    BY PlacesFill, Zenon
  <2>2. (ttail - readCursor) \div SIZE = 0
    BY <2>1 DEF TurboInit
  <2> QED
    BY <2>2 DEF TurboQueue
<1>2. TurboCore /\ TurboHolds /\ TurboHolds' /\ [TurboNext]_turboVars => [TurboFifo!FifoNext]_(TurboQueue)
  BY TurboFifoStep, Zenon
<1>3. TurboCore => TurboHolds
  BY QueueOfBytes, Zenon
<1> QED
  BY <1>1, <1>2, <1>3, TurboStays, PTL DEF TurboSpec, TurboImplementsFifo, TurboFifo!FifoSpec
=============================================================================
