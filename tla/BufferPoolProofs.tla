-------------------------- MODULE BufferPoolProofs --------------------------
(***************************************************************************)
(* Every buffer of the pool is in one place, whatever the interleaving of  *)
(* any number of threads, and a release loses its buffer only beside a pop *)
(* that has not given its slot back.                                       *)
(*                                                                         *)
(* BufferPoolInv is inductive: SlotsInv ties the sequence numbers to the   *)
(* two indices, so a thread that won an exchange is alone at its slot.     *)
(***************************************************************************)
EXTENDS BufferPool, FiniteSetTheorems, TLAPS

\* The time, in seconds, that a prover may take over a leaf.
USE SMTT(30), ZenonT(30)

-----------------------------------------------------------------------------
(* Slots of positions *)

\* Quotient and remainder.
LEMMA DivMod ==
  ASSUME NEW n \in Nat \ {0}, NEW a \in Nat
  PROVE  a = n * (a \div n) + (a % n) /\ a \div n \in Nat /\ a % n \in 0..(n - 1)
  OBVIOUS

\* A positive multiple is no smaller.
LEMMA MultipleNotSmaller ==
  ASSUME NEW n \in Nat \ {0}, NEW k \in Nat \ {0}
  PROVE  n * k >= n
  OBVIOUS

\* A position has a slot, and a number below the number of slots is its own.
LEMMA SlotType ==
  ASSUME PoolConstants, NEW a \in Nat
  PROVE  slot(a) \in BufferSlot /\ (a < PoolSize => slot(a) = a)
<1>1. a % PoolSize \in 0..(PoolSize - 1)
  BY DivMod DEF PoolConstants
<1>2. a < PoolSize => a % PoolSize = a
  BY DEF PoolConstants
<1>. QED
  BY <1>1, <1>2, Zenon DEF slot, BufferSlot

\* Remainders differ by what the numbers differ by, up to multiples.
LEMMA EqualSlots ==
  ASSUME PoolConstants, NEW a \in Nat, NEW b \in Nat
  PROVE  \E k \in Int : b - a = PoolSize * k + (slot(b) - slot(a))
<1> DEFINE qa == a \div PoolSize
           qb == b \div PoolSize
<1>1. PoolSize \in Nat \ {0}
  BY DEF PoolConstants
<1>2. /\ a = PoolSize * qa + slot(a) /\ b = PoolSize * qb + slot(b) /\ qa \in Nat /\ qb \in Nat
      /\ slot(a) \in Nat /\ slot(b) \in Nat
  BY <1>1, DivMod DEF slot
<1> HIDE DEF qa, qb
<1>3. b - a = PoolSize * (qb - qa) + (slot(b) - slot(a)) /\ qb - qa \in Int
  BY <1>1, <1>2
<1>. QED
  BY <1>3, Zenon

\* Two positions less than the number of slots apart have different slots.
LEMMA SlotsDiffer ==
  ASSUME PoolConstants, NEW a \in Nat, NEW b \in Nat, a < b, b < a + PoolSize
  PROVE  slot(a) # slot(b)
<1> SUFFICES ASSUME slot(a) = slot(b) PROVE FALSE
  BY Zenon
<1>1. PoolSize \in Nat \ {0}
  BY DEF PoolConstants
<1>2. slot(a) \in Int /\ slot(b) \in Int
  BY SlotType DEF BufferSlot
<1>3. PICK k \in Int : b - a = PoolSize * k + (slot(b) - slot(a))
  BY EqualSlots, Zenon
<1>4. b - a = PoolSize * k
  BY <1>1, <1>2, <1>3
<1>5. CASE k >= 1
  <2>1. PoolSize * k >= PoolSize
    BY <1>1, <1>5, MultipleNotSmaller
  <2>. QED
    BY <1>1, <1>4, <2>1
<1>6. CASE k <= 0
  <2>1. PoolSize * k <= 0
    BY <1>1, <1>6
  <2>. QED
    BY <1>1, <1>4, <2>1
<1>. QED
  BY <1>5, <1>6

\* Once around leads back to the slot.
LEMMA SlotWraps ==
  ASSUME PoolConstants, NEW a \in Nat
  PROVE  slot(a + PoolSize) = slot(a)
<1>1. PoolSize \in Nat \ {0} /\ a + PoolSize \in Nat
  BY DEF PoolConstants
<1>2. PICK k \in Int : (a + PoolSize) - a = PoolSize * k + (slot(a + PoolSize) - slot(a))
  BY <1>1, EqualSlots, Zenon
<1>3. slot(a) \in 0..(PoolSize - 1) /\ slot(a + PoolSize) \in 0..(PoolSize - 1)
  BY <1>1, SlotType, Zenon DEF BufferSlot
<1>4. PoolSize * (1 - k) = slot(a + PoolSize) - slot(a)
  <2>1. PoolSize = PoolSize * k + (slot(a + PoolSize) - slot(a))
    BY <1>1, <1>2, <1>3
  <2>2. PoolSize * (1 - k) = PoolSize - PoolSize * k
    BY <1>1
  <2>3. slot(a) \in Int /\ slot(a + PoolSize) \in Int /\ PoolSize * k \in Int
    BY <1>1, <1>3
  <2>. QED
    BY <1>1, <2>1, <2>2, <2>3
<1>5. CASE 1 - k >= 1
  <2>1. PoolSize * (1 - k) >= PoolSize
    BY <1>1, <1>5, MultipleNotSmaller
  <2>. QED
    BY <1>1, <1>3, <1>4, <2>1
<1>6. CASE 1 - k <= -1
  <2>1. PoolSize * (k - 1) >= PoolSize
    BY <1>1, <1>6, MultipleNotSmaller
  <2>2. PoolSize * (k - 1) = -(PoolSize * (1 - k))
    BY <1>1
  <2>. QED
    BY <1>1, <1>3, <1>4, <2>1, <2>2
<1>7. CASE 1 - k = 0
  <2>1. PoolSize * (1 - k) = 0
    BY <1>1, <1>7
  <2>. QED
    BY <1>3, <1>4, <2>1
<1>. QED
  BY <1>5, <1>6, <1>7

\* Every slot has a position in every window of PoolSize positions.
LEMMA SlotInWindow ==
  ASSUME PoolConstants, NEW h \in Nat, NEW s \in BufferSlot
  PROVE  \E m \in h..(h + PoolSize - 1) : slot(m) = s
<1> DEFINE q == h \div PoolSize
           r == h % PoolSize
<1>1. PoolSize \in Nat \ {0} /\ s \in 0..(PoolSize - 1)
  BY DEF PoolConstants, BufferSlot
<1>2. h = PoolSize * q + r /\ q \in Nat /\ r \in 0..(PoolSize - 1)
  BY <1>1, DivMod, Zenon
<1> HIDE DEF q, r
<1>3. \A j \in Nat : slot(PoolSize * j + s) = s
  <2> SUFFICES ASSUME NEW j \in Nat PROVE slot(PoolSize * j + s) = s
    BY Zenon
  <2>1. PICK a : a = PoolSize * j + s
    BY Zenon
  <2>2. a \in Nat /\ s \in Nat /\ slot(s) = s
    BY <1>1, <2>1, SlotType
  <2>3. PICK k \in Int : a - s = PoolSize * k + (slot(a) - s)
    BY <2>2, EqualSlots
  <2>4. slot(a) \in 0..(PoolSize - 1)
    BY <2>2, SlotType, Zenon DEF BufferSlot
  <2>5. PoolSize * (j - k) = slot(a) - s
    BY <1>1, <2>1, <2>3, <2>4
  <2>6. CASE j - k >= 1
    <3>1. PoolSize * (j - k) >= PoolSize
      BY <1>1, <2>6, MultipleNotSmaller
    <3>. QED
      BY <1>1, <2>4, <2>5, <3>1
  <2>7. CASE j - k <= -1
    <3>1. PoolSize * (k - j) >= PoolSize
      BY <1>1, <2>7, MultipleNotSmaller
    <3>2. PoolSize * (k - j) = -(PoolSize * (j - k))
      BY <1>1
    <3>. QED
      BY <1>1, <2>4, <2>5, <3>1, <3>2
  <2>8. CASE j - k = 0
    <3>1. PoolSize * (j - k) = 0
      BY <1>1, <2>8
    <3>. QED
      BY <1>1, <2>1, <2>4, <2>5, <3>1
  <2>. QED
    BY <2>6, <2>7, <2>8
<1>4. CASE s >= r
  <2>1. PoolSize * q + s \in h..(h + PoolSize - 1)
    BY <1>1, <1>2, <1>4
  <2>. QED
    BY <1>2, <1>3, <2>1, Zenon
<1>5. CASE s < r
  <2>1. PoolSize * (q + 1) + s \in h..(h + PoolSize - 1)
    <3>1. PoolSize * (q + 1) = PoolSize * q + PoolSize
      BY <1>1, <1>2
    <3>. QED
      BY <1>1, <1>2, <1>5, <3>1
  <2>. QED
    BY <1>2, <1>3, <2>1
<1>. QED
  BY <1>1, <1>2, <1>4, <1>5
-----------------------------------------------------------------------------
(* Where buffers are *)

\* A place says of what kind it is.
LEMMA Places ==
  ASSUME NEW i
  PROVE  /\ \A t : <<"thread", t>> \in Owners(i) <=> t \in Thread /\ i \in owned[t]
         /\ \A t : <<"push", t>> \in Owners(i) <=>
                     t \in Thread /\ pc[t] \in {"pushSeq", "pushCas", "pushStore"} /\ idx[t] = i
         /\ \A t : <<"pop", t>> \in Owners(i) <=>
                     t \in Thread /\ pc[t] = "popStore" /\ value[slot(at[t])] = i
         /\ \A n : <<"queue", n>> \in Owners(i) <=> n \in QueuedPositions /\ value[slot(n)] = i
         /\ <<"unused", 0>> \in Owners(i) <=> i >= nextFreeIdx
         /\ <<"lost", 0>> \in Owners(i) <=> i \in leaked
  BY Zenon DEF Owners, HeldBy, PushedBy, PoppedBy, QueuedAt, Unused, Lost

\* No buffer moves.
LEMMA NoneMoves ==
  ASSUME EveryBufferOnce, \A i \in BufferSlot : Owners(i)' = Owners(i), UNCHANGED BufferSlot
  PROVE  EveryBufferOnce'
  BY Zenon DEF EveryBufferOnce

\* One buffer moves from one place to another.
LEMMA OneMoves ==
  ASSUME EveryBufferOnce, UNCHANGED BufferSlot, NEW b \in BufferSlot, NEW p, NEW q,
         p \in Owners(b), Owners(b)' = (Owners(b) \ {p}) \cup {q},
         \A i \in BufferSlot : i # b => Owners(i)' = Owners(i)
  PROVE  EveryBufferOnce'
<1>1. Owners(b) = {p}
  BY Zenon DEF EveryBufferOnce
<1>2. Owners(b)' = {q}
  BY <1>1, Zenon
<1>. QED
  BY <1>2 DEF EveryBufferOnce

\* A buffer that is in two places is in none of the pool's states.
LEMMA OnlyPlace ==
  ASSUME EveryBufferOnce, NEW b \in BufferSlot, NEW p, NEW q, p \in Owners(b), q \in Owners(b)
  PROVE  p = q
  BY DEF EveryBufferOnce

\* A thread that begins or goes on with an operation without touching a slot.
LEMMA SameOwners ==
  ASSUME UNCHANGED <<queue, nextFreeIdx, owned, leaked, idx>>, NEW t \in Thread,
         pc[t] # "popStore", pc'[t] # "popStore",
         pc[t] \in {"pushSeq", "pushCas", "pushStore"} <=> pc'[t] \in {"pushSeq", "pushCas", "pushStore"},
         \A u \in Thread : u # t => pc'[u] = pc[u] /\ at'[u] = at[u],
         NEW i
  PROVE  Owners(i)' = Owners(i)
<1> USE DEF queue
<1>1. HeldBy(i)' = HeldBy(i) /\ Unused(i)' = Unused(i) /\ Lost(i)' = Lost(i)
  BY Zenon DEF HeldBy, Unused, Lost
<1>2. QueuedAt(i)' = QueuedAt(i)
  BY Zenon DEF QueuedAt, QueuedPositions
<1>3. PushedBy(i)' = PushedBy(i)
  <2>1. {u \in Thread : pc'[u] \in {"pushSeq", "pushCas", "pushStore"} /\ idx'[u] = i}
        = {u \in Thread : pc[u] \in {"pushSeq", "pushCas", "pushStore"} /\ idx[u] = i}
    BY Zenon
  <2>. QED
    BY <2>1, Zenon DEF PushedBy
<1>4. PoppedBy(i)' = PoppedBy(i)
  <2>1. {u \in Thread : pc'[u] = "popStore" /\ value'[slot(at'[u])] = i}
        = {u \in Thread : pc[u] = "popStore" /\ value[slot(at[u])] = i}
    BY Zenon
  <2>. QED
    BY <2>1, Zenon DEF PoppedBy, slot
<1>. QED
  BY <1>1, <1>2, <1>3, <1>4, Zenon DEF Owners

-----------------------------------------------------------------------------
(* What the sequence numbers say *)

\* The slot of one position of the window is not that of another.
LEMMA Apart ==
  ASSUME PoolConstants, NEW m \in Nat, NEW n \in Nat, slot(m) = slot(n),
         m < n + PoolSize, n < m + PoolSize
  PROVE  m = n
<1>1. PoolSize \in Nat
  BY Zenon DEF PoolConstants
<1>. QED
  BY <1>1, SlotsDiffer

\* A thread that moves between steps that claim no slot.
LEMMA SlotsStay ==
  ASSUME SlotsInv, NEW t \in Thread, UNCHANGED <<sequence, qhead, qtail>>,
         pc[t] \notin {"pushStore", "popStore"}, pc'[t] \notin {"pushStore", "popStore"},
         \A u \in Thread : u # t => pc'[u] = pc[u] /\ at'[u] = at[u],
         pc'[t] \in {"pushSeq", "pushCas"} => at'[t] <= qtail,
         pc'[t] = "pushCas" /\ at'[t] = qtail => sequence[slot(qtail)] = qtail,
         pc'[t] \in {"popSeq", "popCas"} => at'[t] <= qhead,
         pc'[t] = "popCas" /\ at'[t] = qhead => sequence[slot(qhead)] = qhead + 1
  PROVE  SlotsInv'
<1>1. \A n : (PushPending(n)' <=> PushPending(n)) /\ (PopPending(n)' <=> PopPending(n))
  BY Zenon DEF PushPending, PopPending
<1>2. /\ qhead' <= qtail' /\ qtail' <= qhead' + PoolSize
      /\ \A n \in qhead'..(qtail' - 1) :
           sequence'[slot(n)] = n + 1 \/ (sequence'[slot(n)] = n /\ PushPending(n)')
      /\ \A n \in qtail'..(qhead' + PoolSize - 1) :
           sequence'[slot(n)] = n \/ (sequence'[slot(n)] = n + 1 - PoolSize /\ PopPending(n - PoolSize)')
  BY <1>1, Zenon DEF SlotsInv
<1>3. \A u \in Thread :
       /\ pc'[u] \in {"pushSeq", "pushCas"} => at'[u] <= qtail'
       /\ pc'[u] = "pushCas" /\ at'[u] = qtail' => sequence'[slot(qtail')] = qtail'
       /\ pc'[u] = "pushStore" => at'[u] \in qhead'..(qtail' - 1) /\ sequence'[slot(at'[u])] = at'[u]
       /\ pc'[u] \in {"popSeq", "popCas"} => at'[u] <= qhead'
       /\ pc'[u] = "popCas" /\ at'[u] = qhead' => sequence'[slot(qhead')] = qhead' + 1
       /\ pc'[u] = "popStore" => at'[u] < qhead' /\ qtail' <= at'[u] + PoolSize /\ sequence'[slot(at'[u])] = at'[u] + 1
  BY DEF SlotsInv
<1>4. \A v, u \in Thread :
        pc'[v] = pc'[u] /\ pc'[v] \in {"pushStore", "popStore"} /\ at'[v] = at'[u] => v = u
  BY DEF SlotsInv
<1>. QED
  BY <1>2, <1>3, <1>4, Zenon DEF SlotsInv, slot
-----------------------------------------------------------------------------
(* The steps *)

\* The part of the invariant that is not about types.
PlacesInv == SlotsInv /\ EveryBufferOnce

\* The variables keep their types in every step.
LEMMA TypeKept ==
  ASSUME PoolConstants, PoolTypeOK, NEW t \in Thread, acquireBuffer(t) \/ releaseBuffer(t) \/ Step(t)
  PROVE  PoolTypeOK'
<1> USE DEF PoolTypeOK, Goto, queue
<1>1. slot(at[t]) \in BufferSlot
  BY SlotType, Zenon
<1>2. CASE acquireBuffer(t)
  BY <1>2 DEF acquireBuffer
<1>3. CASE releaseBuffer(t)
  BY <1>3 DEF releaseBuffer
<1>4. CASE PushSequence(t)
  BY <1>4, Zenon DEF PushSequence
<1>5. CASE PushCas(t)
  BY <1>5 DEF PushCas
<1>6. CASE PushStore(t)
  BY <1>1, <1>6 DEF PushStore
<1>7. CASE PopSequence(t)
  BY <1>7, Zenon DEF PopSequence
<1>8. CASE PopCas(t)
  BY <1>8 DEF PopCas
<1>9. CASE PopStore(t)
  <2>1. at[t] + PoolSize \in Nat
    BY DEF PoolConstants
  <2>. QED
    BY <1>1, <1>9, <2>1, Zenon DEF PopStore
<1>10. CASE FreshIndex(t)
  <2>1. nextFreeIdx < PoolSize => nextFreeIdx \in BufferSlot
    BY DEF BufferSlot, PoolConstants
  <2>. QED
    BY <1>10, <2>1 DEF FreshIndex
<1>. QED
  BY <1>2, <1>3, <1>4, <1>5, <1>6, <1>7, <1>8, <1>9, <1>10, Zenon DEF Step

\* acquire() loads head_.
LEMMA AcquireKeeps ==
  ASSUME PoolConstants, BufferPoolInv, NEW t \in Thread, acquireBuffer(t)
  PROVE  PlacesInv'
<1> SUFFICES SlotsInv' /\ EveryBufferOnce'
  BY Zenon DEF PlacesInv
<1>i. PoolTypeOK /\ SlotsInv /\ EveryBufferOnce
  BY Zenon DEF BufferPoolInv
<1> USE <1>i
<1>1. /\ pc[t] = "idle" /\ pc'[t] = "popSeq" /\ \A u \in Thread : u # t => pc'[u] = pc[u] /\ at'[u] = at[u]
      /\ UNCHANGED <<queue, nextFreeIdx, owned, leaked, idx>> /\ UNCHANGED BufferSlot
      /\ at'[t] = qhead /\ qhead <= qhead
  BY DEF acquireBuffer, Goto, PoolTypeOK, BufferSlot
<1>2. UNCHANGED <<sequence, qhead, qtail>>
  BY <1>1, Zenon DEF queue
<1>3. SlotsInv'
  BY <1>1, <1>2, SlotsStay, Zenon
<1>4. \A i \in BufferSlot : Owners(i)' = Owners(i)
  BY <1>1, SameOwners, Zenon
<1>. QED
  BY <1>1, <1>3, <1>4, NoneMoves, Zenon

\* release() takes the buffer from its holder and loads tail_.
LEMMA ReleaseKeeps ==
  ASSUME PoolConstants, BufferPoolInv, NEW t \in Thread, releaseBuffer(t)
  PROVE  PlacesInv'
<1> SUFFICES SlotsInv' /\ EveryBufferOnce'
  BY Zenon DEF PlacesInv
<1>i. PoolTypeOK /\ SlotsInv /\ EveryBufferOnce
  BY Zenon DEF BufferPoolInv
<1> USE <1>i
<1>1. PICK b \in owned[t] : idx' = [idx EXCEPT ![t] = b] /\ owned' = [owned EXCEPT ![t] = @ \ {b}]
  BY Zenon DEF releaseBuffer
<1>2. /\ pc[t] = "idle" /\ pc'[t] = "pushSeq" /\ at'[t] = qtail
      /\ \A u \in Thread : u # t => pc'[u] = pc[u] /\ at'[u] = at[u]
      /\ UNCHANGED <<queue, nextFreeIdx, leaked>> /\ UNCHANGED BufferSlot /\ qtail <= qtail
  BY DEF releaseBuffer, Goto, PoolTypeOK, BufferSlot
<1>3. UNCHANGED <<sequence, value, qhead, qtail>>
  BY <1>2, Zenon DEF queue
<1>4. SlotsInv'
  BY <1>2, <1>3, SlotsStay, Zenon
<1>5. /\ idx'[t] = b /\ owned'[t] = owned[t] \ {b} /\ b \in BufferSlot
      /\ \A u \in Thread : u # t => idx'[u] = idx[u] /\ owned'[u] = owned[u]
  BY <1>1, Zenon DEF PoolTypeOK
<1>6. \A i : Unused(i)' = Unused(i) /\ Lost(i)' = Lost(i) /\ QueuedAt(i)' = QueuedAt(i)
  BY <1>2, <1>3, Zenon DEF Unused, Lost, QueuedAt, QueuedPositions, slot
<1>7. \A i : PoppedBy(i)' = PoppedBy(i)
  <2> SUFFICES ASSUME NEW i PROVE PoppedBy(i)' = PoppedBy(i)
    BY Zenon
  <2>1. {u \in Thread : pc'[u] = "popStore" /\ value'[slot(at'[u])] = i}
        = {u \in Thread : pc[u] = "popStore" /\ value[slot(at[u])] = i}
    BY <1>2, <1>3, Zenon
  <2>. QED
    BY <2>1, Zenon DEF PoppedBy, slot
<1>8. \A i : i # b => HeldBy(i)' = HeldBy(i) /\ PushedBy(i)' = PushedBy(i)
  <2> SUFFICES ASSUME NEW i, i # b PROVE HeldBy(i)' = HeldBy(i) /\ PushedBy(i)' = PushedBy(i)
    BY Zenon
  <2>1. {u \in Thread : i \in owned'[u]} = {u \in Thread : i \in owned[u]}
    BY <1>5, Zenon
  <2>2. {u \in Thread : pc'[u] \in {"pushSeq", "pushCas", "pushStore"} /\ idx'[u] = i}
        = {u \in Thread : pc[u] \in {"pushSeq", "pushCas", "pushStore"} /\ idx[u] = i}
    BY <1>2, <1>5, Zenon
  <2>. QED
    BY <2>1, <2>2, Zenon DEF HeldBy, PushedBy
<1>9. /\ HeldBy(b)' = HeldBy(b) \ {<<"thread", t>>} /\ <<"thread", t>> \in HeldBy(b)
      /\ PushedBy(b)' = PushedBy(b) \cup {<<"push", t>>}
  <2>1. {u \in Thread : b \in owned'[u]} = {u \in Thread : b \in owned[u]} \ {t}
    BY <1>5, Zenon
  <2>2. {u \in Thread : pc'[u] \in {"pushSeq", "pushCas", "pushStore"} /\ idx'[u] = b}
        = {u \in Thread : pc[u] \in {"pushSeq", "pushCas", "pushStore"} /\ idx[u] = b} \cup {t}
    BY <1>2, <1>5, Zenon
  <2>. QED
    BY <2>1, <2>2 DEF HeldBy, PushedBy
<1>10. <<"thread", t>> \notin PushedBy(b) \cup PoppedBy(b) \cup QueuedAt(b) \cup Unused(b) \cup Lost(b)
  BY Zenon DEF PushedBy, PoppedBy, QueuedAt, Unused, Lost
<1>11. <<"thread", t>> # <<"push", t>>
  BY Zenon
<1>12. /\ <<"thread", t>> \in Owners(b)
       /\ Owners(b)' = (Owners(b) \ {<<"thread", t>>}) \cup {<<"push", t>>}
  BY <1>6, <1>7, <1>9, <1>10, <1>11 DEF Owners
<1>13. \A i \in BufferSlot : i # b => Owners(i)' = Owners(i)
  BY <1>6, <1>7, <1>8, Zenon DEF Owners
<1>. QED
  BY <1>2, <1>4, <1>5, <1>12, <1>13, OneMoves, Zenon
\* push() reads the slot's sequence number; a full slot loses the index.
LEMMA PushSequenceKeeps ==
  ASSUME PoolConstants, BufferPoolInv, NEW t \in Thread, PushSequence(t)
  PROVE  PlacesInv'
<1> SUFFICES SlotsInv' /\ EveryBufferOnce'
  BY Zenon DEF PlacesInv
<1>i. PoolTypeOK /\ SlotsInv /\ EveryBufferOnce
  BY Zenon DEF BufferPoolInv
<1> USE <1>i
<1>1. /\ pc[t] = "pushSeq" /\ \A u \in Thread : u # t => pc'[u] = pc[u] /\ at'[u] = at[u]
      /\ UNCHANGED <<queue, nextFreeIdx, owned, idx>> /\ UNCHANGED BufferSlot
      /\ at[t] \in Nat /\ at[t] <= qtail /\ qtail \in Nat /\ sequence[slot(at[t])] \in Nat /\ idx[t] \in BufferSlot
  <2>1. slot(at[t]) \in BufferSlot /\ at[t] \in Nat /\ qtail \in Nat /\ idx[t] \in BufferSlot
    BY SlotType, Zenon DEF PoolTypeOK
  <2>2. sequence[slot(at[t])] \in Nat
    BY <2>1, Zenon DEF PoolTypeOK
  <2>3. at[t] <= qtail
    BY Zenon DEF PushSequence, SlotsInv
  <2>. QED
    BY <2>1, <2>2, <2>3, Zenon DEF PushSequence, Goto, PoolTypeOK, BufferSlot
<1>2. UNCHANGED <<sequence, value, qhead, qtail>>
  BY <1>1, Zenon DEF queue
<1>3. CASE sequence[slot(at[t])] = at[t]
  <2>1. pc'[t] = "pushCas" /\ at'[t] = at[t] /\ leaked' = leaked
    BY <1>1, <1>3 DEF PushSequence, Goto, PoolTypeOK
  <2>2. SlotsInv'
    BY <1>1, <1>2, <1>3, <2>1, SlotsStay, Zenon
  <2>3. \A i \in BufferSlot : Owners(i)' = Owners(i)
    BY <1>1, <2>1, SameOwners, Zenon
  <2>. QED
    BY <1>1, <2>2, <2>3, NoneMoves, Zenon
<1>4. CASE sequence[slot(at[t])] > at[t]
  <2>1. pc' = pc /\ at'[t] = qtail /\ leaked' = leaked
    BY <1>1, <1>4 DEF PushSequence, Goto, PoolTypeOK
  <2>2. SlotsInv'
    BY <1>1, <1>2, <2>1, SlotsStay
  <2>3. \A i \in BufferSlot : Owners(i)' = Owners(i)
    BY <1>1, <2>1, SameOwners, Zenon
  <2>. QED
    BY <1>1, <2>2, <2>3, NoneMoves, Zenon
<1>5. CASE sequence[slot(at[t])] < at[t]
  <2>b. PICK b \in BufferSlot : b = idx[t]
    BY <1>1, Zenon
  <2>1. pc'[t] = "idle" /\ at' = at /\ leaked' = leaked \cup {b}
    BY <1>1, <1>5, <2>b DEF PushSequence, Goto, PoolTypeOK
  <2>2. SlotsInv'
    BY <1>1, <1>2, <2>1, SlotsStay, Zenon
  <2>3. \A i : Unused(i)' = Unused(i) /\ HeldBy(i)' = HeldBy(i) /\ QueuedAt(i)' = QueuedAt(i)
    BY <1>1, <1>2, Zenon DEF Unused, HeldBy, QueuedAt, QueuedPositions, slot
  <2>4. \A i : PoppedBy(i)' = PoppedBy(i)
    <3> SUFFICES ASSUME NEW i PROVE PoppedBy(i)' = PoppedBy(i)
      BY Zenon
    <3>1. {u \in Thread : pc'[u] = "popStore" /\ value'[slot(at'[u])] = i}
          = {u \in Thread : pc[u] = "popStore" /\ value[slot(at[u])] = i}
      BY <1>1, <1>2, <2>1, Zenon
    <3>. QED
      BY <3>1, Zenon DEF PoppedBy, slot
  <2>5. \A i : i # b => PushedBy(i)' = PushedBy(i) /\ Lost(i)' = Lost(i)
    <3> SUFFICES ASSUME NEW i, i # b PROVE PushedBy(i)' = PushedBy(i) /\ Lost(i)' = Lost(i)
      BY Zenon
    <3>1. {u \in Thread : pc'[u] \in {"pushSeq", "pushCas", "pushStore"} /\ idx'[u] = i}
          = {u \in Thread : pc[u] \in {"pushSeq", "pushCas", "pushStore"} /\ idx[u] = i}
      BY <1>1, <2>1, <2>b, Zenon
    <3>. QED
      BY <2>1, <3>1, Zenon DEF PushedBy, Lost
  <2>6. /\ PushedBy(b)' = PushedBy(b) \ {<<"push", t>>} /\ <<"push", t>> \in PushedBy(b)
        /\ Lost(b)' = {<<"lost", 0>>} /\ Lost(b) \subseteq {<<"lost", 0>>}
    <3>1. {u \in Thread : pc'[u] \in {"pushSeq", "pushCas", "pushStore"} /\ idx'[u] = b}
          = {u \in Thread : pc[u] \in {"pushSeq", "pushCas", "pushStore"} /\ idx[u] = b} \ {t}
      BY <1>1, <2>1, <2>b, Zenon
    <3>. QED
      BY <1>1, <2>1, <2>b, <3>1 DEF PushedBy, Lost
  <2>7. /\ <<"push", t>> \notin HeldBy(b) \cup PoppedBy(b) \cup QueuedAt(b) \cup Unused(b) \cup Lost(b)
        /\ <<"push", t>> # <<"lost", 0>>
    BY Zenon DEF HeldBy, PoppedBy, QueuedAt, Unused, Lost
  <2>8. /\ <<"push", t>> \in Owners(b)
        /\ Owners(b)' = (Owners(b) \ {<<"push", t>>}) \cup {<<"lost", 0>>}
    BY <2>3, <2>4, <2>6, <2>7 DEF Owners
  <2>9. \A i \in BufferSlot : i # b => Owners(i)' = Owners(i)
    BY <2>3, <2>4, <2>5, Zenon DEF Owners
  <2>. QED
    BY <1>1, <2>2, <2>8, <2>9, OneMoves, Zenon
<1>. QED
  BY <1>1, <1>3, <1>4, <1>5

\* pop() reads the slot's sequence number.
LEMMA PopSequenceKeeps ==
  ASSUME PoolConstants, BufferPoolInv, NEW t \in Thread, PopSequence(t)
  PROVE  PlacesInv'
<1> SUFFICES SlotsInv' /\ EveryBufferOnce'
  BY Zenon DEF PlacesInv
<1>i. PoolTypeOK /\ SlotsInv /\ EveryBufferOnce
  BY Zenon DEF BufferPoolInv
<1> USE <1>i
<1>1. /\ pc[t] = "popSeq" /\ \A u \in Thread : u # t => pc'[u] = pc[u] /\ at'[u] = at[u]
      /\ UNCHANGED <<queue, nextFreeIdx, owned, leaked, idx>> /\ UNCHANGED BufferSlot
  BY Zenon DEF PopSequence, Goto, PoolTypeOK, BufferSlot
<1>2. /\ pc'[t] \in {"popSeq", "popCas", "fresh"}
      /\ pc'[t] = "popCas" => at'[t] = at[t] /\ sequence[slot(at[t])] = at[t] + 1
      /\ at'[t] <= qhead
  <2>1. slot(at[t]) \in BufferSlot /\ at[t] \in Nat
    BY SlotType, Zenon DEF PoolTypeOK
  <2>2. sequence[slot(at[t])] \in Nat
    BY <2>1, Zenon DEF PoolTypeOK
  <2>3. at[t] <= qhead /\ qhead \in Nat
    BY <1>1, Zenon DEF SlotsInv, PoolTypeOK
  <2>. QED
    BY <1>1, <2>1, <2>2, <2>3 DEF PopSequence, Goto, PoolTypeOK
<1>3. UNCHANGED <<sequence, qhead, qtail>>
  BY <1>1, Zenon DEF queue
<1>4. SlotsInv'
  BY <1>1, <1>2, <1>3, SlotsStay, Zenon
<1>5. \A i \in BufferSlot : Owners(i)' = Owners(i)
  BY <1>1, <1>2, SameOwners, Zenon
<1>. QED
  BY <1>1, <1>4, <1>5, NoneMoves, Zenon

\* The queue is empty: a buffer that was never used, if there is one.
LEMMA FreshKeeps ==
  ASSUME PoolConstants, BufferPoolInv, NEW t \in Thread, FreshIndex(t)
  PROVE  PlacesInv'
<1> SUFFICES SlotsInv' /\ EveryBufferOnce'
  BY Zenon DEF PlacesInv
<1>i. PoolTypeOK /\ SlotsInv /\ EveryBufferOnce
  BY Zenon DEF BufferPoolInv
<1> USE <1>i
<1>1. /\ pc[t] = "fresh" /\ pc'[t] = "idle" /\ \A u \in Thread : u # t => pc'[u] = pc[u] /\ at'[u] = at[u]
      /\ UNCHANGED <<queue, leaked, idx>> /\ UNCHANGED BufferSlot /\ at' = at /\ nextFreeIdx \in Nat
      /\ nextFreeIdx' = nextFreeIdx + 1 /\ PoolSize \in Nat
  BY Zenon DEF FreshIndex, Goto, PoolTypeOK, BufferSlot, PoolConstants
<1>2. UNCHANGED <<sequence, value, qhead, qtail>>
  BY <1>1, Zenon DEF queue
<1>3. SlotsInv'
  BY <1>1, <1>2, SlotsStay, Zenon
<1>4. \A i : Lost(i)' = Lost(i) /\ QueuedAt(i)' = QueuedAt(i)
  BY <1>1, <1>2, Zenon DEF Lost, QueuedAt, QueuedPositions, slot
<1>5. \A i : PoppedBy(i)' = PoppedBy(i) /\ PushedBy(i)' = PushedBy(i)
  <2> SUFFICES ASSUME NEW i PROVE PoppedBy(i)' = PoppedBy(i) /\ PushedBy(i)' = PushedBy(i)
    BY Zenon
  <2>1. {u \in Thread : pc'[u] = "popStore" /\ value'[slot(at'[u])] = i}
        = {u \in Thread : pc[u] = "popStore" /\ value[slot(at[u])] = i}
    BY <1>1, <1>2, Zenon
  <2>2. {u \in Thread : pc'[u] \in {"pushSeq", "pushCas", "pushStore"} /\ idx'[u] = i}
        = {u \in Thread : pc[u] \in {"pushSeq", "pushCas", "pushStore"} /\ idx[u] = i}
    BY <1>1, Zenon
  <2>. QED
    BY <2>1, <2>2, Zenon DEF PoppedBy, PushedBy, slot
<1>6. CASE nextFreeIdx >= PoolSize
  <2>1. owned' = owned
    BY <1>1, <1>6 DEF FreshIndex
  <2>2. \A i \in BufferSlot : Unused(i)' = Unused(i)
    BY <1>1, <1>6 DEF Unused, BufferSlot
  <2>3. \A i \in BufferSlot : Owners(i)' = Owners(i)
    BY <1>4, <1>5, <2>1, <2>2, Zenon DEF Owners, HeldBy
  <2>. QED
    BY <1>1, <1>3, <2>3, NoneMoves, Zenon
<1>7. CASE nextFreeIdx < PoolSize
  <2>b. PICK b \in BufferSlot : b = nextFreeIdx
    BY <1>1, <1>7 DEF BufferSlot
  <2>1. owned'[t] = owned[t] \cup {b} /\ \A u \in Thread : u # t => owned'[u] = owned[u]
    BY <1>1, <1>7, <2>b, Zenon DEF FreshIndex, PoolTypeOK
  <2>2. \A i \in BufferSlot : i # b => HeldBy(i)' = HeldBy(i) /\ Unused(i)' = Unused(i)
    <3> SUFFICES ASSUME NEW i \in BufferSlot, i # b PROVE HeldBy(i)' = HeldBy(i) /\ Unused(i)' = Unused(i)
      BY Zenon
    <3>1. {u \in Thread : i \in owned'[u]} = {u \in Thread : i \in owned[u]}
      BY <2>1, Zenon
    <3>2. i >= nextFreeIdx <=> i >= nextFreeIdx'
      BY <1>1, <2>b DEF BufferSlot
    <3>. QED
      BY <3>1, <3>2, Zenon DEF HeldBy, Unused
  <2>3. /\ HeldBy(b)' = HeldBy(b) \cup {<<"thread", t>>}
        /\ Unused(b)' = {} /\ Unused(b) = {<<"unused", 0>>}
    <3>1. {u \in Thread : b \in owned'[u]} = {u \in Thread : b \in owned[u]} \cup {t}
      BY <2>1, Zenon
    <3>2. b >= nextFreeIdx /\ ~(b >= nextFreeIdx')
      BY <1>1, <2>b DEF BufferSlot
    <3>. QED
      BY <3>1, <3>2, Zenon DEF HeldBy, Unused
  <2>4. /\ <<"unused", 0>> \notin HeldBy(b) \cup PoppedBy(b) \cup QueuedAt(b) \cup PushedBy(b) \cup Lost(b)
        /\ <<"unused", 0>> # <<"thread", t>>
    BY Zenon DEF HeldBy, PoppedBy, QueuedAt, PushedBy, Lost
  <2>5. /\ <<"unused", 0>> \in Owners(b)
        /\ Owners(b)' = (Owners(b) \ {<<"unused", 0>>}) \cup {<<"thread", t>>}
    BY <1>4, <1>5, <2>3, <2>4 DEF Owners
  <2>6. \A i \in BufferSlot : i # b => Owners(i)' = Owners(i)
    BY <1>4, <1>5, <2>2, Zenon DEF Owners
  <2>. QED
    BY <1>1, <1>3, <2>5, <2>6, OneMoves, Zenon
<1>. QED
  BY <1>1, <1>6, <1>7
\* A position of the queue, and one whose slot a pop still has, are apart.
LEMMA WindowApart ==
  ASSUME PoolConstants, BufferPoolInv
  PROVE  /\ qhead \in Nat /\ qtail \in Nat /\ PoolSize \in Nat /\ PoolSize > 1
         /\ qhead <= qtail /\ qtail <= qhead + PoolSize
         /\ \A m, n \in qhead..(qhead + PoolSize - 1) : slot(m) = slot(n) => m = n
         /\ \A m \in qhead..(qtail - 1) : m \in Nat
         /\ \A t \in Thread : pc[t] = "popStore" =>
              /\ at[t] \in Nat /\ at[t] < qhead /\ qtail <= at[t] + PoolSize
              /\ \A m \in qhead..(qtail - 1) : slot(m) # slot(at[t])
<1>i. PoolTypeOK /\ SlotsInv
  BY Zenon DEF BufferPoolInv
<1> USE <1>i
<1>1. qhead \in Nat /\ qtail \in Nat /\ PoolSize \in Nat /\ PoolSize > 1 /\ qhead <= qtail /\ qtail <= qhead + PoolSize
  BY Zenon DEF PoolTypeOK, PoolConstants, SlotsInv
<1>2. \A m, n \in qhead..(qhead + PoolSize - 1) : slot(m) = slot(n) => m = n
  BY <1>1, Apart
<1>3. ASSUME NEW t \in Thread, pc[t] = "popStore"
      PROVE  /\ at[t] \in Nat /\ at[t] < qhead /\ qtail <= at[t] + PoolSize
             /\ \A m \in qhead..(qtail - 1) : slot(m) # slot(at[t])
  <2>1. at[t] \in Nat /\ at[t] < qhead /\ qtail <= at[t] + PoolSize
    BY <1>3, Zenon DEF PoolTypeOK, SlotsInv
  <2>2. \A m \in qhead..(qtail - 1) : m \in Nat /\ m # at[t] /\ m < at[t] + PoolSize /\ at[t] < m + PoolSize
    BY <1>1, <2>1
  <2>. QED
    BY <2>1, <2>2, Apart, Zenon
<1>. QED
  BY <1>1, <1>2, <1>3

\* push() exchanges tail_, or sees that another thread did.
LEMMA PushCasKeeps ==
  ASSUME PoolConstants, BufferPoolInv, NEW t \in Thread, PushCas(t)
  PROVE  PlacesInv'
<1> SUFFICES SlotsInv' /\ EveryBufferOnce'
  BY Zenon DEF PlacesInv
<1>i. PoolTypeOK /\ SlotsInv /\ EveryBufferOnce
  BY Zenon DEF BufferPoolInv
<1> USE <1>i
<1>1. /\ pc[t] = "pushCas" /\ \A u \in Thread : u # t => pc'[u] = pc[u] /\ at'[u] = at[u]
      /\ UNCHANGED <<sequence, value, qhead, nextFreeIdx, owned, leaked, idx>> /\ UNCHANGED BufferSlot
  BY DEF PushCas, Goto, PoolTypeOK, BufferSlot
<1>w. /\ qhead \in Nat /\ qtail \in Nat /\ PoolSize \in Nat /\ PoolSize > 1
      /\ qhead <= qtail /\ qtail <= qhead + PoolSize
  BY WindowApart, Zenon
<1>2. CASE qtail # at[t]
  <2>1. pc'[t] = "pushSeq" /\ at'[t] = qtail /\ qtail' = qtail
    BY <1>2, Zenon DEF PushCas, Goto, PoolTypeOK
  <2>2. SlotsInv'
    BY <1>1, <1>w, <2>1, SlotsStay
  <2>3. \A i \in BufferSlot : Owners(i)' = Owners(i)
    BY <1>1, <2>1, SameOwners, Zenon DEF queue
  <2>. QED
    BY <1>1, <2>2, <2>3, NoneMoves, Zenon
<1>3. CASE qtail = at[t]
  <2>1. /\ pc'[t] = "pushStore" /\ at' = at /\ qtail' = qtail + 1 /\ sequence[slot(qtail)] = qtail
        /\ at'[t] = qtail /\ slot(qtail) \in BufferSlot
    BY <1>1, <1>3, <1>w, SlotType DEF PushCas, Goto, PoolTypeOK, SlotsInv
  <2>2. qtail < qhead + PoolSize
    <3> SUFFICES ASSUME qtail = qhead + PoolSize PROVE FALSE
      BY <1>w
    <3>1. slot(qtail) = slot(qhead) /\ qhead \in qhead..(qtail - 1)
      BY <1>w, SlotWraps
    <3>2. sequence[slot(qhead)] = qhead + 1 \/ sequence[slot(qhead)] = qhead
      BY <3>1, Zenon DEF SlotsInv
    <3>. QED
      BY <1>w, <2>1, <3>1, <3>2
  <2>3. \A n : PushPending(n) => PushPending(n)'
    BY <1>1, <2>1, Zenon DEF PushPending
  <2>c. PICK c : c = qtail
    BY Zenon
  <2>4. PushPending(c)'
    BY <1>3, <2>1, <2>c, Zenon DEF PushPending
  <2>5. \A n : PopPending(n) => PopPending(n)'
    BY <1>1, <2>1, Zenon DEF PopPending
  <2>6. \A n \in qhead..qtail : sequence[slot(n)] = n + 1 \/ (sequence[slot(n)] = n /\ PushPending(n)')
    <3>1. \A n \in qhead..(qtail - 1) : sequence[slot(n)] = n + 1 \/ (sequence[slot(n)] = n /\ PushPending(n)')
      BY <2>3, Zenon DEF SlotsInv
    <3>. QED
      BY <1>w, <2>1, <2>4, <2>c, <3>1
  <2>7. \A n \in (qtail + 1)..(qhead + PoolSize - 1) :
          sequence[slot(n)] = n \/ (sequence[slot(n)] = n + 1 - PoolSize /\ PopPending(n - PoolSize)')
    <3>1. \A n \in (qtail + 1)..(qhead + PoolSize - 1) : n \in qtail..(qhead + PoolSize - 1)
      BY <1>w
    <3>. QED
      BY <2>5, <3>1, Zenon DEF SlotsInv
  <2>8. ASSUME NEW u \in Thread, pc[u] = "popStore"
        PROVE  qtail + 1 <= at[u] + PoolSize
    <3> SUFFICES ASSUME qtail = at[u] + PoolSize PROVE FALSE
      BY <1>w, <2>8, WindowApart
    <3>1. slot(qtail) = slot(at[u]) /\ at[u] \in Nat
      BY <2>8, SlotWraps, WindowApart, Zenon
    <3>2. sequence[slot(at[u])] = at[u] + 1
      BY <2>8, Zenon DEF SlotsInv
    <3>. QED
      BY <1>w, <2>1, <3>1, <3>2
  <2>9. \A u \in Thread :
          /\ pc'[u] \in {"pushSeq", "pushCas"} => at'[u] <= qtail
          /\ pc'[u] = "pushStore" => at'[u] \in qhead..qtail /\ sequence[slot(at'[u])] = at'[u]
          /\ pc'[u] \in {"popSeq", "popCas"} => at'[u] <= qhead
          /\ pc'[u] = "popCas" /\ at'[u] = qhead => sequence[slot(qhead)] = qhead + 1
          /\ pc'[u] = "popStore" => at'[u] < qhead /\ sequence[slot(at'[u])] = at'[u] + 1
    <3>1. \A u \in Thread : u # t /\ pc[u] = "pushStore" => at[u] \in qhead..qtail
      BY <1>w DEF SlotsInv
    <3>2. qtail \in qhead..qtail
      BY <1>w
    <3>. QED
      BY <1>1, <1>3, <2>1, <3>1, <3>2 DEF SlotsInv
  <2>10. \A u \in Thread : at[u] \in Nat
    BY Zenon DEF PoolTypeOK
  <2>11. \A u, v \in Thread :
           pc'[u] = pc'[v] /\ pc'[u] \in {"pushStore", "popStore"} /\ at'[u] = at'[v] => u = v
    <3>1. \A u \in Thread : pc[u] = "pushStore" => at[u] # qtail
      BY <1>w DEF SlotsInv
    <3>. QED
      BY <1>1, <1>3, <2>1, <3>1 DEF SlotsInv
  <2>12. SlotsInv'
    <3>1. qhead' <= qtail' /\ qtail' <= qhead' + PoolSize
      BY <1>1, <1>w, <2>1, <2>2
    <3>2. \A n \in qhead'..(qtail' - 1) : sequence'[slot(n)] = n + 1 \/ (sequence'[slot(n)] = n /\ PushPending(n)')
      BY <1>1, <1>w, <2>1, <2>6
    <3>3. \A n \in qtail'..(qhead' + PoolSize - 1) :
            sequence'[slot(n)] = n \/ (sequence'[slot(n)] = n + 1 - PoolSize /\ PopPending(n - PoolSize)')
      BY <1>1, <2>1, <2>7, Zenon
    <3>4. \A u \in Thread :
            /\ pc'[u] \in {"pushSeq", "pushCas"} => at'[u] <= qtail'
            /\ pc'[u] = "pushCas" /\ at'[u] = qtail' => sequence'[slot(qtail')] = qtail'
            /\ pc'[u] = "pushStore" => at'[u] \in qhead'..(qtail' - 1) /\ sequence'[slot(at'[u])] = at'[u]
            /\ pc'[u] \in {"popSeq", "popCas"} => at'[u] <= qhead'
            /\ pc'[u] = "popCas" /\ at'[u] = qhead' => sequence'[slot(qhead')] = qhead' + 1
            /\ pc'[u] = "popStore" => at'[u] < qhead' /\ qtail' <= at'[u] + PoolSize /\ sequence'[slot(at'[u])] = at'[u] + 1
      <4> SUFFICES ASSUME NEW u \in Thread
                   PROVE  /\ pc'[u] \in {"pushSeq", "pushCas"} => at'[u] <= qtail'
                          /\ pc'[u] = "pushCas" /\ at'[u] = qtail' => sequence'[slot(qtail')] = qtail'
                          /\ pc'[u] = "pushStore" => at'[u] \in qhead'..(qtail' - 1) /\ sequence'[slot(at'[u])] = at'[u]
                          /\ pc'[u] \in {"popSeq", "popCas"} => at'[u] <= qhead'
                          /\ pc'[u] = "popCas" /\ at'[u] = qhead' => sequence'[slot(qhead')] = qhead' + 1
                          /\ pc'[u] = "popStore" => at'[u] < qhead' /\ qtail' <= at'[u] + PoolSize /\ sequence'[slot(at'[u])] = at'[u] + 1
        BY Zenon
      <4>1. pc'[u] \in {"pushSeq", "pushCas"} => at'[u] <= qtail' /\ at'[u] # qtail'
        BY <1>w, <2>1, <2>9, <2>10
      <4>2. pc'[u] = "pushStore" => at'[u] \in qhead'..(qtail' - 1) /\ sequence'[slot(at'[u])] = at'[u]
        BY <1>1, <1>w, <2>1, <2>9
      <4>3. pc'[u] = "popStore" => qtail' <= at'[u] + PoolSize
        BY <1>1, <2>1, <2>8, Zenon
      <4>. QED
        BY <1>1, <2>9, <4>1, <4>2, <4>3, Zenon
    <3>. QED
      BY <2>11, <3>1, <3>2, <3>3, <3>4, Zenon DEF SlotsInv, slot
  <2>13. QueuedPositions' = QueuedPositions
    <3>1. \A n \in qhead'..(qtail' - 1) : n \in qhead..(qtail - 1) \/ n = qtail
      BY <1>1, <1>w, <2>1
    <3>2. \A n \in qhead..(qtail - 1) : n \in qhead'..(qtail' - 1)
      BY <1>1, <1>w, <2>1
    <3>3. sequence[slot(qtail)] # qtail + 1
      BY <1>w, <2>1
    <3>. QED
      BY <1>1, <3>1, <3>2, <3>3, Zenon DEF QueuedPositions, slot
  <2>14. \A i \in BufferSlot : Owners(i)' = Owners(i)
    <3> SUFFICES ASSUME NEW i \in BufferSlot PROVE Owners(i)' = Owners(i)
      BY Zenon
    <3>1. HeldBy(i)' = HeldBy(i) /\ Unused(i)' = Unused(i) /\ Lost(i)' = Lost(i) /\ QueuedAt(i)' = QueuedAt(i)
      BY <1>1, <2>13, Zenon DEF HeldBy, Unused, Lost, QueuedAt, slot
    <3>2. {u \in Thread : pc'[u] \in {"pushSeq", "pushCas", "pushStore"} /\ idx'[u] = i}
          = {u \in Thread : pc[u] \in {"pushSeq", "pushCas", "pushStore"} /\ idx[u] = i}
      BY <1>1, <2>1, Zenon
    <3>3. {u \in Thread : pc'[u] = "popStore" /\ value'[slot(at'[u])] = i}
          = {u \in Thread : pc[u] = "popStore" /\ value[slot(at[u])] = i}
      BY <1>1, <2>1, Zenon
    <3>. QED
      BY <3>1, <3>2, <3>3, Zenon DEF Owners, PushedBy, PoppedBy, slot
  <2>. QED
    BY <1>1, <2>12, <2>14, NoneMoves, Zenon
<1>. QED
  BY <1>2, <1>3, Zenon
\* push() stores the value and publishes it: the position is the pusher's alone.
LEMMA PushStoreKeeps ==
  ASSUME PoolConstants, BufferPoolInv, NEW t \in Thread, PushStore(t)
  PROVE  PlacesInv'
<1> SUFFICES SlotsInv' /\ EveryBufferOnce'
  BY Zenon DEF PlacesInv
<1>i. PoolTypeOK /\ SlotsInv /\ EveryBufferOnce
  BY Zenon DEF BufferPoolInv
<1> USE <1>i
<1>n. PICK n : n = at[t]
  BY Zenon
<1>b. PICK b : b = idx[t]
  BY Zenon
<1>1. /\ pc[t] = "pushStore" /\ pc'[t] = "idle" /\ at' = at /\ idx' = idx
      /\ \A u \in Thread : u # t => pc'[u] = pc[u]
      /\ value' = [value EXCEPT ![slot(n)] = b] /\ sequence' = [sequence EXCEPT ![slot(n)] = n + 1]
      /\ qhead' = qhead /\ qtail' = qtail
      /\ UNCHANGED <<nextFreeIdx, owned, leaked>> /\ UNCHANGED BufferSlot
  BY <1>n, <1>b, Zenon DEF PushStore, Goto, PoolTypeOK, BufferSlot
<1>w. /\ qhead \in Nat /\ qtail \in Nat /\ PoolSize \in Nat /\ PoolSize > 1
      /\ qhead <= qtail /\ qtail <= qhead + PoolSize
  BY WindowApart, Zenon
<1>2. /\ n \in Nat /\ n \in qhead..(qtail - 1) /\ sequence[slot(n)] = n /\ slot(n) \in BufferSlot /\ b \in BufferSlot
  <2>1. n \in qhead..(qtail - 1) /\ sequence[slot(n)] = n
    BY <1>1, <1>n, Zenon DEF SlotsInv
  <2>. QED
    BY <1>n, <1>b, <2>1, SlotType, Zenon DEF PoolTypeOK
<1>3. \A m \in qhead..(qhead + PoolSize - 1) : m # n => slot(m) # slot(n)
  <2>1. n \in qhead..(qhead + PoolSize - 1)
    BY <1>2, <1>w
  <2>. QED
    BY <2>1, WindowApart, Zenon
<1>4. \A s : s # slot(n) /\ s \in BufferSlot => sequence'[s] = sequence[s] /\ value'[s] = value[s]
  BY <1>1, Zenon DEF PoolTypeOK
<1>5. sequence'[slot(n)] = n + 1 /\ value'[slot(n)] = b
  BY <1>1, <1>2, Zenon DEF PoolTypeOK
<1>6. \A m \in Nat : slot(m) \in BufferSlot
  BY SlotType, Zenon
<1>7. \A m : (PopPending(m)' <=> PopPending(m)) /\ (m # n /\ PushPending(m) => PushPending(m)')
  BY <1>1, <1>n, Zenon DEF PopPending, PushPending
<1>8. \A m \in qhead..(qtail - 1) :
        sequence'[slot(m)] = m + 1 \/ (sequence'[slot(m)] = m /\ PushPending(m)')
  <2> SUFFICES ASSUME NEW m \in qhead..(qtail - 1)
               PROVE  sequence'[slot(m)] = m + 1 \/ (sequence'[slot(m)] = m /\ PushPending(m)')
    BY Zenon
  <2>1. CASE m = n
    BY <1>5, <2>1, Zenon
  <2>2. CASE m # n
    <3>1. m \in qhead..(qhead + PoolSize - 1) /\ m \in Nat
      BY <1>w
    <3>2. sequence'[slot(m)] = sequence[slot(m)]
      BY <1>3, <1>4, <1>6, <2>2, <3>1, Zenon
    <3>. QED
      BY <1>7, <2>2, <3>2, Zenon DEF SlotsInv
  <2>. QED
    BY <2>1, <2>2, Zenon
<1>9. \A m \in qtail..(qhead + PoolSize - 1) :
        sequence'[slot(m)] = m \/ (sequence'[slot(m)] = m + 1 - PoolSize /\ PopPending(m - PoolSize)')
  <2> SUFFICES ASSUME NEW m \in qtail..(qhead + PoolSize - 1)
               PROVE  sequence'[slot(m)] = m \/ (sequence'[slot(m)] = m + 1 - PoolSize /\ PopPending(m - PoolSize)')
    BY Zenon
  <2>1. m \in qhead..(qhead + PoolSize - 1) /\ m \in Nat /\ m # n
    BY <1>w, <1>2
  <2>2. sequence'[slot(m)] = sequence[slot(m)]
    BY <1>3, <1>4, <1>6, <2>1, Zenon
  <2>. QED
    BY <1>7, <2>2, Zenon DEF SlotsInv
<1>10. ASSUME NEW u \in Thread
       PROVE  /\ pc'[u] \in {"pushSeq", "pushCas"} => at[u] <= qtail
              /\ pc'[u] = "pushCas" /\ at[u] = qtail => sequence'[slot(qtail)] = qtail
              /\ pc'[u] = "pushStore" => at[u] \in qhead..(qtail - 1) /\ sequence'[slot(at[u])] = at[u]
              /\ pc'[u] \in {"popSeq", "popCas"} => at[u] <= qhead
              /\ pc'[u] = "popCas" /\ at[u] = qhead => sequence'[slot(qhead)] = qhead + 1
              /\ pc'[u] = "popStore" => at[u] < qhead /\ qtail <= at[u] + PoolSize /\ sequence'[slot(at[u])] = at[u] + 1
  <2>1. pc'[u] = "pushCas" /\ at[u] = qtail => sequence'[slot(qtail)] = qtail
    <3> SUFFICES ASSUME pc'[u] = "pushCas", at[u] = qtail PROVE sequence'[slot(qtail)] = qtail
      BY Zenon
    <3>1. sequence[slot(qtail)] = qtail
      BY <1>1, Zenon DEF SlotsInv
    <3>2. slot(qtail) # slot(n)
      BY <1>2, <1>w, <3>1
    <3>. QED
      BY <1>4, <1>6, <1>w, <3>1, <3>2, Zenon
  <2>2. pc'[u] = "pushStore" => at[u] \in qhead..(qtail - 1) /\ sequence'[slot(at[u])] = at[u]
    <3> SUFFICES ASSUME pc'[u] = "pushStore"
                 PROVE  at[u] \in qhead..(qtail - 1) /\ sequence'[slot(at[u])] = at[u]
      BY Zenon
    <3>1. u # t /\ pc[u] = "pushStore"
      BY <1>1, Zenon
    <3>2. at[u] # n /\ at[u] \in qhead..(qtail - 1) /\ sequence[slot(at[u])] = at[u]
      BY <1>1, <1>n, <3>1 DEF SlotsInv
    <3>3. at[u] \in qhead..(qhead + PoolSize - 1) /\ at[u] \in Nat
      BY <1>w, <3>2
    <3>. QED
      BY <1>3, <1>4, <1>6, <3>2, <3>3, Zenon
  <2>3. pc'[u] = "popCas" /\ at[u] = qhead => sequence'[slot(qhead)] = qhead + 1
    <3> SUFFICES ASSUME pc'[u] = "popCas", at[u] = qhead PROVE sequence'[slot(qhead)] = qhead + 1
      BY Zenon
    <3>1. sequence[slot(qhead)] = qhead + 1
      BY <1>1, Zenon DEF SlotsInv
    <3>2. qhead # n
      BY <1>2, <1>w, <3>1
    <3>3. qhead \in qhead..(qhead + PoolSize - 1)
      BY <1>w
    <3>. QED
      BY <1>3, <1>4, <1>6, <1>w, <3>1, <3>2, <3>3, Zenon
  <2>4. pc'[u] = "popStore" => at[u] < qhead /\ qtail <= at[u] + PoolSize /\ sequence'[slot(at[u])] = at[u] + 1
    <3> SUFFICES ASSUME pc'[u] = "popStore"
                 PROVE  at[u] < qhead /\ qtail <= at[u] + PoolSize /\ sequence'[slot(at[u])] = at[u] + 1
      BY Zenon
    <3>1. pc[u] = "popStore"
      BY <1>1, Zenon
    <3>2. at[u] \in Nat /\ at[u] < qhead /\ qtail <= at[u] + PoolSize /\ slot(n) # slot(at[u])
      BY <1>2, <3>1, WindowApart, Zenon
    <3>3. sequence[slot(at[u])] = at[u] + 1
      BY <3>1, Zenon DEF SlotsInv
    <3>. QED
      BY <1>4, <1>6, <3>2, <3>3, Zenon
  <2>5. (pc'[u] \in {"pushSeq", "pushCas"} => at[u] <= qtail) /\ (pc'[u] \in {"popSeq", "popCas"} => at[u] <= qhead)
    BY <1>1, Zenon DEF SlotsInv
  <2>. QED
    BY <2>1, <2>2, <2>3, <2>4, <2>5, Zenon
<1>11. \A u, v \in Thread :
         pc'[u] = pc'[v] /\ pc'[u] \in {"pushStore", "popStore"} /\ at[u] = at[v] => u = v
  BY <1>1 DEF SlotsInv
<1>12. SlotsInv'
  <2>1. qhead' = qhead /\ qtail' = qtail /\ at' = at
    BY <1>1, Zenon
  <2>. QED
    BY <1>w, <1>8, <1>9, <1>10, <1>11, <2>1, Zenon DEF SlotsInv, slot
<1>13. QueuedPositions' = QueuedPositions \cup {n} /\ n \notin QueuedPositions
  <2>1. \A m \in qhead..(qtail - 1) : m # n => sequence'[slot(m)] = sequence[slot(m)]
    <3>1. \A m \in qhead..(qtail - 1) : m \in qhead..(qhead + PoolSize - 1) /\ m \in Nat
      BY <1>w
    <3>. QED
      BY <1>3, <1>4, <1>6, <3>1, Zenon
  <2>2. sequence[slot(n)] # n + 1
    BY <1>2
  <2>. QED
    BY <1>1, <1>2, <1>5, <2>1, <2>2, Zenon DEF QueuedPositions, slot
<1>14. \A m \in QueuedPositions : value'[slot(m)] = value[slot(m)]
  <2>1. \A m \in QueuedPositions : m \in qhead..(qhead + PoolSize - 1) /\ m \in Nat /\ m # n
    <3>1. \A m \in QueuedPositions : m \in qhead..(qtail - 1) /\ m # n
      BY <1>13, Zenon DEF QueuedPositions
    <3>2. \A m \in qhead..(qtail - 1) : m \in qhead..(qhead + PoolSize - 1) /\ m \in Nat
      BY <1>w
    <3>. QED
      BY <3>1, <3>2, Zenon
  <2>. QED
    BY <1>3, <1>4, <1>6, <2>1, Zenon
<1>15. \A i : HeldBy(i)' = HeldBy(i) /\ Unused(i)' = Unused(i) /\ Lost(i)' = Lost(i)
  BY <1>1, Zenon DEF HeldBy, Unused, Lost
<1>16. \A i : PoppedBy(i)' = PoppedBy(i)
  <2> SUFFICES ASSUME NEW i PROVE PoppedBy(i)' = PoppedBy(i)
    BY Zenon
  <2>1. \A u \in Thread : pc[u] = "popStore" => value'[slot(at[u])] = value[slot(at[u])]
    BY <1>2, <1>4, <1>6, WindowApart, Zenon
  <2>2. {u \in Thread : pc'[u] = "popStore" /\ value'[slot(at'[u])] = i}
        = {u \in Thread : pc[u] = "popStore" /\ value[slot(at[u])] = i}
    BY <1>1, <2>1, Zenon
  <2>. QED
    BY <2>2, Zenon DEF PoppedBy, slot
<1>17. \A i : i # b => PushedBy(i)' = PushedBy(i) /\ QueuedAt(i)' = QueuedAt(i)
  <2> SUFFICES ASSUME NEW i, i # b PROVE PushedBy(i)' = PushedBy(i) /\ QueuedAt(i)' = QueuedAt(i)
    BY Zenon
  <2>1. {u \in Thread : pc'[u] \in {"pushSeq", "pushCas", "pushStore"} /\ idx'[u] = i}
        = {u \in Thread : pc[u] \in {"pushSeq", "pushCas", "pushStore"} /\ idx[u] = i}
    BY <1>1, <1>b, Zenon
  <2>2. {m \in QueuedPositions' : value'[slot(m)] = i} = {m \in QueuedPositions : value[slot(m)] = i}
    BY <1>5, <1>13, <1>14, Zenon
  <2>. QED
    BY <2>1, <2>2, Zenon DEF PushedBy, QueuedAt, slot
<1>18. /\ PushedBy(b)' = PushedBy(b) \ {<<"push", t>>} /\ <<"push", t>> \in PushedBy(b)
       /\ QueuedAt(b)' = QueuedAt(b) \cup {<<"queue", n>>}
  <2>1. {u \in Thread : pc'[u] \in {"pushSeq", "pushCas", "pushStore"} /\ idx'[u] = b}
        = {u \in Thread : pc[u] \in {"pushSeq", "pushCas", "pushStore"} /\ idx[u] = b} \ {t}
    BY <1>1, <1>b, Zenon
  <2>2. {m \in QueuedPositions' : value'[slot(m)] = b} = {m \in QueuedPositions : value[slot(m)] = b} \cup {n}
    BY <1>5, <1>13, <1>14, Zenon
  <2>. QED
    BY <1>1, <1>b, <2>1, <2>2 DEF PushedBy, QueuedAt, slot
<1>19. /\ <<"push", t>> \notin HeldBy(b) \cup PoppedBy(b) \cup QueuedAt(b) \cup Unused(b) \cup Lost(b)
       /\ <<"push", t>> # <<"queue", n>>
  BY Zenon DEF HeldBy, PoppedBy, QueuedAt, Unused, Lost
<1>20. /\ <<"push", t>> \in Owners(b)
       /\ Owners(b)' = (Owners(b) \ {<<"push", t>>}) \cup {<<"queue", n>>}
  BY <1>15, <1>16, <1>18, <1>19 DEF Owners
<1>21. \A i \in BufferSlot : i # b => Owners(i)' = Owners(i)
  BY <1>15, <1>16, <1>17, Zenon DEF Owners
<1>. QED
  BY <1>1, <1>2, <1>12, <1>20, <1>21, OneMoves, Zenon
\* pop() exchanges head_, or sees that another thread did.
LEMMA PopCasKeeps ==
  ASSUME PoolConstants, BufferPoolInv, NEW t \in Thread, PopCas(t)
  PROVE  PlacesInv'
<1> SUFFICES SlotsInv' /\ EveryBufferOnce'
  BY Zenon DEF PlacesInv
<1>i. PoolTypeOK /\ SlotsInv /\ EveryBufferOnce
  BY Zenon DEF BufferPoolInv
<1> USE <1>i
<1>1. /\ pc[t] = "popCas" /\ \A u \in Thread : u # t => pc'[u] = pc[u] /\ at'[u] = at[u]
      /\ UNCHANGED <<sequence, value, qtail, nextFreeIdx, owned, leaked, idx>> /\ UNCHANGED BufferSlot
  BY DEF PopCas, Goto, PoolTypeOK, BufferSlot
<1>w. /\ qhead \in Nat /\ qtail \in Nat /\ PoolSize \in Nat /\ PoolSize > 1
      /\ qhead <= qtail /\ qtail <= qhead + PoolSize
  BY WindowApart, Zenon
<1>2. CASE qhead # at[t]
  <2>1. pc'[t] = "popSeq" /\ at'[t] = qhead /\ qhead' = qhead
    BY <1>2, Zenon DEF PopCas, Goto, PoolTypeOK
  <2>2. SlotsInv'
    BY <1>1, <1>w, <2>1, SlotsStay
  <2>3. \A i \in BufferSlot : Owners(i)' = Owners(i)
    BY <1>1, <2>1, SameOwners, Zenon DEF queue
  <2>. QED
    BY <1>1, <2>2, <2>3, NoneMoves, Zenon
<1>3. CASE qhead = at[t]
  <2>n. PICK n : n = qhead
    BY Zenon
  <2>1. /\ pc'[t] = "popStore" /\ at' = at /\ qhead' = n + 1 /\ sequence[slot(n)] = n + 1
        /\ at[t] = n /\ slot(n) \in BufferSlot /\ n \in Nat
    BY <1>1, <1>3, <1>w, <2>n, SlotType DEF PopCas, Goto, PoolTypeOK, SlotsInv
  <2>2. n < qtail
    <3> SUFFICES ASSUME n = qtail PROVE FALSE
      BY <1>w, <2>n
    <3>1. n \in qtail..(qhead + PoolSize - 1)
      BY <1>w, <2>n
    <3>2. sequence[slot(n)] = n \/ sequence[slot(n)] = n + 1 - PoolSize
      BY <3>1, Zenon DEF SlotsInv
    <3>. QED
      BY <1>w, <2>1, <2>n, <3>2
  <2>3. \A m : (PushPending(m) => PushPending(m)') /\ (PopPending(m) => PopPending(m)')
    BY <1>1, <2>1, Zenon DEF PushPending, PopPending
  <2>4. PopPending(n)'
    BY <2>1, Zenon DEF PopPending
  <2>5. \A m \in (n + 1)..(qtail - 1) : sequence[slot(m)] = m + 1 \/ (sequence[slot(m)] = m /\ PushPending(m)')
    <3>1. \A m \in (n + 1)..(qtail - 1) : m \in qhead..(qtail - 1)
      BY <1>w, <2>n
    <3>. QED
      BY <2>3, <3>1, Zenon DEF SlotsInv
  <2>6. \A m \in qtail..(n + 1 + PoolSize - 1) :
          sequence[slot(m)] = m \/ (sequence[slot(m)] = m + 1 - PoolSize /\ PopPending(m - PoolSize)')
    <3> SUFFICES ASSUME NEW m \in qtail..(n + 1 + PoolSize - 1)
                 PROVE  sequence[slot(m)] = m \/ (sequence[slot(m)] = m + 1 - PoolSize /\ PopPending(m - PoolSize)')
      BY Zenon
    <3>1. CASE m = n + PoolSize
      <4>1. slot(m) = slot(n) /\ m + 1 - PoolSize = n + 1 /\ m - PoolSize = n
        BY <1>w, <2>1, <3>1, SlotWraps
      <4>. QED
        BY <2>1, <2>4, <4>1, Zenon
    <3>2. CASE m # n + PoolSize
      <4>1. m \in qtail..(qhead + PoolSize - 1)
        BY <1>w, <2>n, <3>2
      <4>. QED
        BY <2>3, <4>1, Zenon DEF SlotsInv
    <3>. QED
      BY <3>1, <3>2, Zenon
  <2>7. ASSUME NEW u \in Thread
        PROVE  /\ pc'[u] \in {"pushSeq", "pushCas"} => at[u] <= qtail
               /\ pc'[u] = "pushCas" /\ at[u] = qtail => sequence[slot(qtail)] = qtail
               /\ pc'[u] = "pushStore" => at[u] \in (n + 1)..(qtail - 1) /\ sequence[slot(at[u])] = at[u]
               /\ pc'[u] \in {"popSeq", "popCas"} => at[u] <= n + 1
               /\ pc'[u] = "popCas" => at[u] # n + 1
               /\ pc'[u] = "popStore" => at[u] < n + 1 /\ qtail <= at[u] + PoolSize /\ sequence[slot(at[u])] = at[u] + 1
    <3>1. at[u] \in Nat
      BY Zenon DEF PoolTypeOK
    <3>2. pc'[u] = "pushStore" => at[u] \in (n + 1)..(qtail - 1) /\ sequence[slot(at[u])] = at[u]
      <4> SUFFICES ASSUME pc'[u] = "pushStore"
                   PROVE  at[u] \in (n + 1)..(qtail - 1) /\ sequence[slot(at[u])] = at[u]
        BY Zenon
      <4>1. at[u] \in qhead..(qtail - 1) /\ sequence[slot(at[u])] = at[u]
        BY <1>1, <2>1, Zenon DEF SlotsInv
      <4>2. at[u] # n
        BY <2>1, <4>1
      <4>. QED
        BY <1>w, <2>n, <4>1, <4>2
    <3>3. pc'[u] \in {"popSeq", "popCas"} => at[u] <= n
      BY <1>1, <2>1, <2>n, Zenon DEF SlotsInv
    <3>4. pc'[u] = "popStore" => at[u] < n + 1 /\ qtail <= at[u] + PoolSize /\ sequence[slot(at[u])] = at[u] + 1
      <4>1. CASE u = t
        BY <1>w, <2>1, <2>n, <4>1
      <4>2. CASE u # t
        <5>1. pc'[u] = "popStore" => at[u] < n /\ qtail <= at[u] + PoolSize /\ sequence[slot(at[u])] = at[u] + 1
          BY <1>1, <2>n, <4>2, Zenon DEF SlotsInv
        <5>. QED
          BY <2>1, <3>1, <5>1
      <4>. QED
        BY <4>1, <4>2, Zenon
    <3>5. /\ pc'[u] \in {"pushSeq", "pushCas"} => at[u] <= qtail
          /\ pc'[u] = "pushCas" /\ at[u] = qtail => sequence[slot(qtail)] = qtail
      BY <1>1, <2>1, Zenon DEF SlotsInv
    <3>6. pc'[u] \in {"popSeq", "popCas"} => at[u] <= n + 1 /\ at[u] # n + 1
      BY <2>1, <3>1, <3>3
    <3>. QED
      BY <3>2, <3>4, <3>5, <3>6, Zenon
  <2>8. \A u, v \in Thread :
          pc'[u] = pc'[v] /\ pc'[u] \in {"pushStore", "popStore"} /\ at[u] = at[v] => u = v
    <3>1. \A u \in Thread : pc[u] = "popStore" => at[u] # n
      BY <1>w, <2>n, WindowApart
    <3>. QED
      BY <1>1, <2>1, <3>1 DEF SlotsInv
  <2>9. SlotsInv'
    <3>1. qhead' <= qtail' /\ qtail' <= qhead' + PoolSize
      BY <1>1, <1>w, <2>1, <2>2, <2>n
    <3>2. \A u \in Thread :
            /\ pc'[u] = "pushCas" /\ at'[u] = qtail' => sequence'[slot(qtail')] = qtail'
            /\ pc'[u] = "popCas" /\ at'[u] = qhead' => sequence'[slot(qhead')] = qhead' + 1
      BY <1>1, <2>1, <2>7, Zenon
    <3>. QED
      BY <1>1, <2>1, <2>5, <2>6, <2>7, <2>8, <3>1, <3>2, Zenon DEF SlotsInv, slot
  <2>b. PICK b : b = value[slot(n)]
    BY Zenon
  <2>10. b \in BufferSlot
    BY <2>1, <2>b, Zenon DEF PoolTypeOK
  <2>11. QueuedPositions' = QueuedPositions \ {n} /\ n \in QueuedPositions
    <3>1. \A m : m \in qhead'..(qtail' - 1) <=> m \in qhead..(qtail - 1) /\ m # n
      BY <1>1, <1>w, <2>1, <2>n
    <3>2. n \in qhead..(qtail - 1)
      BY <1>w, <2>2, <2>n
    <3>. QED
      BY <1>1, <2>1, <3>1, <3>2, Zenon DEF QueuedPositions, slot
  <2>12. \A i : HeldBy(i)' = HeldBy(i) /\ Unused(i)' = Unused(i) /\ Lost(i)' = Lost(i)
    BY <1>1, Zenon DEF HeldBy, Unused, Lost
  <2>13. \A i : PushedBy(i)' = PushedBy(i)
    <3> SUFFICES ASSUME NEW i PROVE PushedBy(i)' = PushedBy(i)
      BY Zenon
    <3>1. {u \in Thread : pc'[u] \in {"pushSeq", "pushCas", "pushStore"} /\ idx'[u] = i}
          = {u \in Thread : pc[u] \in {"pushSeq", "pushCas", "pushStore"} /\ idx[u] = i}
      BY <1>1, <2>1, Zenon
    <3>. QED
      BY <3>1, Zenon DEF PushedBy
  <2>14. \A i : i # b => PoppedBy(i)' = PoppedBy(i) /\ QueuedAt(i)' = QueuedAt(i)
    <3> SUFFICES ASSUME NEW i, i # b PROVE PoppedBy(i)' = PoppedBy(i) /\ QueuedAt(i)' = QueuedAt(i)
      BY Zenon
    <3>1. {u \in Thread : pc'[u] = "popStore" /\ value'[slot(at'[u])] = i}
          = {u \in Thread : pc[u] = "popStore" /\ value[slot(at[u])] = i}
      BY <1>1, <2>1, <2>b, Zenon
    <3>2. {m \in QueuedPositions' : value'[slot(m)] = i} = {m \in QueuedPositions : value[slot(m)] = i}
      BY <1>1, <2>11, <2>b, Zenon
    <3>. QED
      BY <3>1, <3>2, Zenon DEF PoppedBy, QueuedAt, slot
  <2>15. /\ PoppedBy(b)' = PoppedBy(b) \cup {<<"pop", t>>}
         /\ QueuedAt(b)' = QueuedAt(b) \ {<<"queue", n>>} /\ <<"queue", n>> \in QueuedAt(b)
    <3>1. {u \in Thread : pc'[u] = "popStore" /\ value'[slot(at'[u])] = b}
          = {u \in Thread : pc[u] = "popStore" /\ value[slot(at[u])] = b} \cup {t}
      BY <1>1, <2>1, <2>b, Zenon
    <3>2. {m \in QueuedPositions' : value'[slot(m)] = b} = {m \in QueuedPositions : value[slot(m)] = b} \ {n}
      BY <1>1, <2>11, Zenon
    <3>. QED
      BY <2>11, <2>b, <3>1, <3>2 DEF PoppedBy, QueuedAt, slot
  <2>16. /\ <<"queue", n>> \notin HeldBy(b) \cup PoppedBy(b) \cup PushedBy(b) \cup Unused(b) \cup Lost(b)
         /\ <<"queue", n>> # <<"pop", t>>
    BY Zenon DEF HeldBy, PoppedBy, PushedBy, Unused, Lost
  <2>17. /\ <<"queue", n>> \in Owners(b)
         /\ Owners(b)' = (Owners(b) \ {<<"queue", n>>}) \cup {<<"pop", t>>}
    BY <2>12, <2>13, <2>15, <2>16 DEF Owners
  <2>18. \A i \in BufferSlot : i # b => Owners(i)' = Owners(i)
    BY <2>12, <2>13, <2>14, Zenon DEF Owners
  <2>. QED
    BY <1>1, <2>9, <2>10, <2>17, <2>18, OneMoves, Zenon
<1>. QED
  BY <1>2, <1>3, Zenon

\* pop() reads the value and gives the slot back for the next round.
LEMMA PopStoreKeeps ==
  ASSUME PoolConstants, BufferPoolInv, NEW t \in Thread, PopStore(t)
  PROVE  PlacesInv'
<1> SUFFICES SlotsInv' /\ EveryBufferOnce'
  BY Zenon DEF PlacesInv
<1>i. PoolTypeOK /\ SlotsInv /\ EveryBufferOnce
  BY Zenon DEF BufferPoolInv
<1> USE <1>i
<1>n. PICK n : n = at[t]
  BY Zenon
<1>b. PICK b : b = value[slot(n)]
  BY Zenon
<1>1. /\ pc[t] = "popStore" /\ pc'[t] = "idle" /\ at' = at /\ idx' = idx /\ value' = value
      /\ \A u \in Thread : u # t => pc'[u] = pc[u]
      /\ sequence' = [sequence EXCEPT ![slot(n)] = n + PoolSize]
      /\ owned'[t] = owned[t] \cup {b} /\ \A u \in Thread : u # t => owned'[u] = owned[u]
      /\ qhead' = qhead /\ qtail' = qtail
      /\ UNCHANGED <<nextFreeIdx, leaked>> /\ UNCHANGED BufferSlot
  BY <1>n, <1>b, Zenon DEF PopStore, Goto, PoolTypeOK, BufferSlot
<1>w. /\ qhead \in Nat /\ qtail \in Nat /\ PoolSize \in Nat /\ PoolSize > 1
      /\ qhead <= qtail /\ qtail <= qhead + PoolSize
  BY WindowApart, Zenon
<1>2. /\ n \in Nat /\ n < qhead /\ qtail <= n + PoolSize /\ sequence[slot(n)] = n + 1 /\ slot(n) \in BufferSlot /\ b \in BufferSlot
      /\ \A m \in qhead..(qtail - 1) : slot(m) # slot(n)
  <2>1. n \in Nat /\ n < qhead /\ qtail <= n + PoolSize /\ \A m \in qhead..(qtail - 1) : slot(m) # slot(n)
    BY <1>1, <1>n, WindowApart, Zenon
  <2>2. sequence[slot(n)] = n + 1
    BY <1>1, <1>n, Zenon DEF SlotsInv
  <2>3. slot(n) \in BufferSlot
    BY <2>1, SlotType, Zenon
  <2>. QED
    BY <1>b, <2>1, <2>2, <2>3, Zenon DEF PoolTypeOK
<1>3. /\ n + PoolSize \in qtail..(qhead + PoolSize - 1) /\ slot(n + PoolSize) = slot(n)
      /\ \A m \in qtail..(qhead + PoolSize - 1) : m # n + PoolSize => slot(m) # slot(n)
  <2>1. n + PoolSize \in qtail..(qhead + PoolSize - 1) /\ slot(n + PoolSize) = slot(n)
    BY <1>2, <1>w, SlotWraps
  <2>2. \A m \in qtail..(qhead + PoolSize - 1) : m \in qhead..(qhead + PoolSize - 1)
    BY <1>w
  <2>. QED
    BY <2>1, <2>2, WindowApart, Zenon
<1>4. \A s \in BufferSlot : s # slot(n) => sequence'[s] = sequence[s]
  BY <1>1, Zenon DEF PoolTypeOK
<1>5. sequence'[slot(n)] = n + PoolSize
  BY <1>1, <1>2, Zenon DEF PoolTypeOK
<1>6. \A m \in Nat : slot(m) \in BufferSlot
  BY SlotType, Zenon
<1>7. \A m : (PushPending(m)' <=> PushPending(m)) /\ (m # n /\ PopPending(m) => PopPending(m)')
  BY <1>1, <1>n, Zenon DEF PopPending, PushPending
<1>8. \A m \in qhead..(qtail - 1) : sequence'[slot(m)] = sequence[slot(m)]
  <2>1. \A m \in qhead..(qtail - 1) : m \in Nat
    BY <1>w
  <2>. QED
    BY <1>2, <1>4, <1>6, <2>1, Zenon
<1>9. \A m \in qtail..(qhead + PoolSize - 1) :
        sequence'[slot(m)] = m \/ (sequence'[slot(m)] = m + 1 - PoolSize /\ PopPending(m - PoolSize)')
  <2> SUFFICES ASSUME NEW m \in qtail..(qhead + PoolSize - 1)
               PROVE  sequence'[slot(m)] = m \/ (sequence'[slot(m)] = m + 1 - PoolSize /\ PopPending(m - PoolSize)')
    BY Zenon
  <2>1. CASE m = n + PoolSize
    BY <1>3, <1>5, <2>1, Zenon
  <2>2. CASE m # n + PoolSize
    <3>1. m \in Nat /\ m - PoolSize # n
      BY <1>2, <1>w, <2>2
    <3>2. sequence'[slot(m)] = sequence[slot(m)]
      BY <1>3, <1>4, <1>6, <2>2, <3>1, Zenon
    <3>. QED
      BY <1>7, <3>1, <3>2, Zenon DEF SlotsInv
  <2>. QED
    BY <2>1, <2>2, Zenon
<1>10. ASSUME NEW u \in Thread
       PROVE  /\ pc'[u] \in {"pushSeq", "pushCas"} => at[u] <= qtail
              /\ pc'[u] = "pushCas" /\ at[u] = qtail => sequence'[slot(qtail)] = qtail
              /\ pc'[u] = "pushStore" => at[u] \in qhead..(qtail - 1) /\ sequence'[slot(at[u])] = at[u]
              /\ pc'[u] \in {"popSeq", "popCas"} => at[u] <= qhead
              /\ pc'[u] = "popCas" /\ at[u] = qhead => sequence'[slot(qhead)] = qhead + 1
              /\ pc'[u] = "popStore" => at[u] < qhead /\ qtail <= at[u] + PoolSize /\ sequence'[slot(at[u])] = at[u] + 1
  <2>1. pc'[u] = "pushCas" /\ at[u] = qtail => sequence'[slot(qtail)] = qtail
    <3> SUFFICES ASSUME pc'[u] = "pushCas", at[u] = qtail PROVE sequence'[slot(qtail)] = qtail
      BY Zenon
    <3>1. sequence[slot(qtail)] = qtail
      BY <1>1, Zenon DEF SlotsInv
    <3>2. slot(qtail) # slot(n)
      <4> SUFFICES ASSUME slot(qtail) = slot(n) PROVE FALSE
        BY Zenon
      <4>1. qtail = n + 1
        BY <1>2, <3>1, Zenon
      <4>. QED
        BY <1>2, <1>w, <4>1, SlotsDiffer
    <3>. QED
      BY <1>4, <1>6, <1>w, <3>1, <3>2, Zenon
  <2>2. pc'[u] = "pushStore" => at[u] \in qhead..(qtail - 1) /\ sequence'[slot(at[u])] = at[u]
    BY <1>1, <1>8 DEF SlotsInv
  <2>3. pc'[u] = "popCas" /\ at[u] = qhead => sequence'[slot(qhead)] = qhead + 1
    <3> SUFFICES ASSUME pc'[u] = "popCas", at[u] = qhead PROVE sequence'[slot(qhead)] = qhead + 1
      BY Zenon
    <3>1. sequence[slot(qhead)] = qhead + 1
      BY <1>1, Zenon DEF SlotsInv
    <3>2. slot(qhead) # slot(n)
      BY <1>2, <1>w, <3>1
    <3>. QED
      BY <1>4, <1>6, <1>w, <3>1, <3>2, Zenon
  <2>4. pc'[u] = "popStore" => at[u] < qhead /\ qtail <= at[u] + PoolSize /\ sequence'[slot(at[u])] = at[u] + 1
    <3> SUFFICES ASSUME pc'[u] = "popStore"
                 PROVE  at[u] < qhead /\ qtail <= at[u] + PoolSize /\ sequence'[slot(at[u])] = at[u] + 1
      BY Zenon
    <3>1. pc[u] = "popStore" /\ u # t
      BY <1>1, Zenon
    <3>2. at[u] \in Nat /\ at[u] < qhead /\ qtail <= at[u] + PoolSize
      BY <3>1, WindowApart, Zenon
    <3>3. sequence[slot(at[u])] = at[u] + 1 /\ at[u] # n
      BY <1>1, <1>n, <3>1 DEF SlotsInv
    <3>4. slot(at[u]) # slot(n)
      BY <1>2, <1>w, <3>2, <3>3, Apart
    <3>. QED
      BY <1>4, <1>6, <3>2, <3>3, <3>4, Zenon
  <2>5. (pc'[u] \in {"pushSeq", "pushCas"} => at[u] <= qtail) /\ (pc'[u] \in {"popSeq", "popCas"} => at[u] <= qhead)
    BY <1>1, Zenon DEF SlotsInv
  <2>. QED
    BY <2>1, <2>2, <2>3, <2>4, <2>5, Zenon
<1>11. \A u, v \in Thread :
         pc'[u] = pc'[v] /\ pc'[u] \in {"pushStore", "popStore"} /\ at[u] = at[v] => u = v
  BY <1>1 DEF SlotsInv
<1>12. SlotsInv'
  <2>1. \A m \in qhead..(qtail - 1) :
          sequence'[slot(m)] = m + 1 \/ (sequence'[slot(m)] = m /\ PushPending(m)')
    BY <1>7, <1>8, Zenon DEF SlotsInv
  <2>2. qhead' = qhead /\ qtail' = qtail /\ at' = at
    BY <1>1, Zenon
  <2>. QED
    BY <1>w, <1>9, <1>10, <1>11, <2>1, <2>2, Zenon DEF SlotsInv, slot
<1>13. QueuedPositions' = QueuedPositions
  BY <1>1, <1>8, Zenon DEF QueuedPositions, slot
<1>14. \A i : QueuedAt(i)' = QueuedAt(i) /\ Unused(i)' = Unused(i) /\ Lost(i)' = Lost(i)
  BY <1>1, <1>13, Zenon DEF QueuedAt, Unused, Lost, slot
<1>15. \A i : PushedBy(i)' = PushedBy(i)
  <2> SUFFICES ASSUME NEW i PROVE PushedBy(i)' = PushedBy(i)
    BY Zenon
  <2>1. {u \in Thread : pc'[u] \in {"pushSeq", "pushCas", "pushStore"} /\ idx'[u] = i}
        = {u \in Thread : pc[u] \in {"pushSeq", "pushCas", "pushStore"} /\ idx[u] = i}
    BY <1>1, Zenon
  <2>. QED
    BY <2>1, Zenon DEF PushedBy
<1>16. \A i : i # b => PoppedBy(i)' = PoppedBy(i) /\ HeldBy(i)' = HeldBy(i)
  <2> SUFFICES ASSUME NEW i, i # b PROVE PoppedBy(i)' = PoppedBy(i) /\ HeldBy(i)' = HeldBy(i)
    BY Zenon
  <2>1. {u \in Thread : pc'[u] = "popStore" /\ value'[slot(at'[u])] = i}
        = {u \in Thread : pc[u] = "popStore" /\ value[slot(at[u])] = i}
    BY <1>1, <1>n, <1>b, Zenon
  <2>2. {u \in Thread : i \in owned'[u]} = {u \in Thread : i \in owned[u]}
    BY <1>1, Zenon
  <2>. QED
    BY <2>1, <2>2, Zenon DEF PoppedBy, HeldBy, slot
<1>17. /\ PoppedBy(b)' = PoppedBy(b) \ {<<"pop", t>>} /\ <<"pop", t>> \in PoppedBy(b)
       /\ HeldBy(b)' = HeldBy(b) \cup {<<"thread", t>>}
  <2>1. {u \in Thread : pc'[u] = "popStore" /\ value'[slot(at'[u])] = b}
        = {u \in Thread : pc[u] = "popStore" /\ value[slot(at[u])] = b} \ {t}
    BY <1>1, Zenon
  <2>2. {u \in Thread : b \in owned'[u]} = {u \in Thread : b \in owned[u]} \cup {t}
    BY <1>1, Zenon
  <2>. QED
    BY <1>1, <1>n, <1>b, <2>1, <2>2 DEF PoppedBy, HeldBy, slot
<1>18. /\ <<"pop", t>> \notin HeldBy(b) \cup QueuedAt(b) \cup PushedBy(b) \cup Unused(b) \cup Lost(b)
       /\ <<"pop", t>> # <<"thread", t>>
  BY Zenon DEF HeldBy, QueuedAt, PushedBy, Unused, Lost
<1>19. /\ <<"pop", t>> \in Owners(b)
       /\ Owners(b)' = (Owners(b) \ {<<"pop", t>>}) \cup {<<"thread", t>>}
  BY <1>14, <1>15, <1>17, <1>18 DEF Owners
<1>20. \A i \in BufferSlot : i # b => Owners(i)' = Owners(i)
  BY <1>14, <1>15, <1>16, Zenon DEF Owners
<1>. QED
  BY <1>1, <1>2, <1>12, <1>19, <1>20, OneMoves, Zenon
\* The new pool: every slot is free, every buffer unused.
LEMMA PoolStarts ==
  ASSUME PoolConstants, PoolInit
  PROVE  BufferPoolInv
<1>1. PoolSize \in Nat /\ PoolSize > 1
  BY Zenon DEF PoolConstants
<1>2. PoolTypeOK
  BY <1>1 DEF PoolInit, PoolTypeOK, BufferSlot
<1>3. SlotsInv
  <2>1. \A n \in 0..(0 + PoolSize - 1) : slot(n) = n /\ n \in BufferSlot
    BY <1>1, SlotType DEF BufferSlot
  <2>2. \A n \in 0..(0 + PoolSize - 1) : sequence[slot(n)] = n
    BY <2>1, Zenon DEF PoolInit
  <2>3. \A t \in Thread : pc[t] = "idle"
    BY Zenon DEF PoolInit
  <2>4. qhead = 0 /\ qtail = 0 /\ 0 <= 0 /\ 0 <= 0 + PoolSize /\ 0..(0 - 1) = {}
    BY <1>1 DEF PoolInit
  <2>. QED
    BY <2>2, <2>3, <2>4, Zenon DEF SlotsInv
<1>4. EveryBufferOnce
  <2> SUFFICES ASSUME NEW i \in BufferSlot PROVE Owners(i) = {<<"unused", 0>>}
    BY Zenon DEF EveryBufferOnce
  <2>1. HeldBy(i) = {} /\ PushedBy(i) = {} /\ PoppedBy(i) = {} /\ Lost(i) = {}
    BY Zenon DEF PoolInit, HeldBy, PushedBy, PoppedBy, Lost
  <2>2. QueuedAt(i) = {}
    <3>1. qhead..(qtail - 1) = {}
      BY DEF PoolInit
    <3>. QED
      BY <3>1, Zenon DEF QueuedAt, QueuedPositions
  <2>3. Unused(i) = {<<"unused", 0>>}
    BY <1>1 DEF PoolInit, Unused, BufferSlot
  <2>. QED
    BY <2>1, <2>2, <2>3, Zenon DEF Owners
<1>. QED
  BY <1>2, <1>3, <1>4, Zenon DEF BufferPoolInv

\* Every step of every thread keeps the invariant.
LEMMA PoolStep ==
  ASSUME PoolConstants, BufferPoolInv, [PoolNext]_poolVars
  PROVE  BufferPoolInv'
<1>1. CASE UNCHANGED poolVars
  <2>1. PoolTypeOK' /\ SlotsInv'
    BY <1>1 DEF BufferPoolInv, PoolTypeOK, SlotsInv, PushPending, PopPending, slot, BufferSlot, poolVars
  <2>2. \A i : Owners(i)' = Owners(i)
    <3>1. \A i : HeldBy(i)' = HeldBy(i) /\ Unused(i)' = Unused(i) /\ Lost(i)' = Lost(i)
      BY <1>1, Zenon DEF HeldBy, Unused, Lost, poolVars
    <3>2. \A i : PushedBy(i)' = PushedBy(i) /\ PoppedBy(i)' = PoppedBy(i)
      BY <1>1, Zenon DEF PushedBy, PoppedBy, slot, poolVars
    <3>3. \A i : QueuedAt(i)' = QueuedAt(i)
      BY <1>1, Zenon DEF QueuedAt, QueuedPositions, slot, poolVars
    <3>. QED
      BY <3>1, <3>2, <3>3, Zenon DEF Owners
  <2>3. EveryBufferOnce'
    BY <2>2, NoneMoves, Zenon DEF BufferPoolInv, BufferSlot
  <2>. QED
    BY <2>1, <2>3, Zenon DEF BufferPoolInv
<1>2. CASE PoolNext
  <2>1. PICK t \in Thread : acquireBuffer(t) \/ releaseBuffer(t) \/ Step(t)
    BY <1>2, Zenon DEF PoolNext
  <2>2. PoolTypeOK'
    BY <2>1, TypeKept, Zenon DEF BufferPoolInv
  <2>3. PlacesInv'
    BY <2>1, AcquireKeeps, ReleaseKeeps, PushSequenceKeeps, PushCasKeeps, PushStoreKeeps,
       PopSequenceKeeps, PopCasKeeps, PopStoreKeeps, FreshKeeps, Zenon DEF Step
  <2>. QED
    BY <2>2, <2>3, Zenon DEF BufferPoolInv, PlacesInv
<1>. QED
  BY <1>1, <1>2, Zenon

\* Every buffer is in one place in every reachable state: no two threads ever
\* have the same buffer, and none is lost but by a release that failed.
THEOREM BuffersAreExclusive == PoolSpec => []BufferPoolInv
<1>1. PoolInit => BufferPoolInv
  BY BufferAssumption, PoolStarts, Zenon
<1>2. BufferPoolInv /\ [PoolNext]_poolVars => BufferPoolInv'
  BY BufferAssumption, PoolStep, Zenon
<1>. QED
  BY <1>1, <1>2, PTL DEF PoolSpec

\* A thread that still has its buffer leaves room in the queue for it: the
\* positions between the indices and the thread have a buffer each.
LEMMA RoomForMine ==
  ASSUME PoolConstants, BufferPoolInv, NEW t \in Thread, pc[t] = "pushSeq"
  PROVE  qtail < qhead + PoolSize
<1>i. PoolTypeOK /\ SlotsInv /\ EveryBufferOnce
  BY Zenon DEF BufferPoolInv
<1> USE <1>i
<1>w. /\ qhead \in Nat /\ qtail \in Nat /\ PoolSize \in Nat /\ PoolSize > 1
      /\ qhead <= qtail /\ qtail <= qhead + PoolSize
  BY WindowApart, Zenon
<1> SUFFICES ASSUME qtail = qhead + PoolSize PROVE FALSE
  BY <1>w
<1> DEFINE At(x, p) ==
             \/ x < PoolSize /\ p = <<"queue", qhead + x>>
             \/ x < PoolSize /\ \E u \in Thread : pc[u] = "pushStore" /\ at[u] = qhead + x /\ p = <<"push", u>>
             \/ x = PoolSize /\ p = <<"push", t>>
           Has(x, b) == \E p \in Owners(b) : At(x, p)
           f == [x \in 0..PoolSize |-> CHOOSE b \in BufferSlot : Has(x, b)]
<1>1. ASSUME NEW x \in 0..PoolSize
      PROVE  \E b \in BufferSlot : Has(x, b)
  <2>1. CASE x = PoolSize
    <3>1. idx[t] \in BufferSlot /\ <<"push", t>> \in Owners(idx[t])
      BY Places, Zenon DEF PoolTypeOK
    <3>. QED
      BY <2>1, <3>1, Zenon
  <2>2. CASE x < PoolSize
    <3>n. PICK n : n = qhead + x
      BY Zenon
    <3>1. n \in qhead..(qtail - 1) /\ n \in Nat
      BY <1>w, <2>2, <3>n
    <3>2. CASE sequence[slot(n)] = n + 1
      <4>1. value[slot(n)] \in BufferSlot
        BY <3>1, SlotType, Zenon DEF PoolTypeOK
      <4>2. <<"queue", n>> \in Owners(value[slot(n)])
        BY <3>1, <3>2, Places, Zenon DEF QueuedPositions
      <4>. QED
        BY <2>2, <3>n, <4>1, <4>2, Zenon
    <3>3. CASE PushPending(n)
      <4>1. PICK u \in Thread : pc[u] = "pushStore" /\ at[u] = n
        BY <3>3, Zenon DEF PushPending
      <4>2. idx[u] \in BufferSlot /\ <<"push", u>> \in Owners(idx[u])
        BY <4>1, Places, Zenon DEF PoolTypeOK
      <4>. QED
        BY <2>2, <3>n, <4>1, <4>2, Zenon
    <3>. QED
      BY <3>1, <3>2, <3>3, Zenon DEF SlotsInv
  <2>. QED
    BY <1>w, <2>1, <2>2
<1>2. ASSUME NEW x \in 0..PoolSize, NEW y \in 0..PoolSize, NEW p, At(x, p), At(y, p)
      PROVE  x = y
  <2>1. pc[t] # "pushStore"
    BY Zenon
  <2>. QED
    BY <1>2, <1>w, <2>1
<1> HIDE DEF At
<1>3. f \in [0..PoolSize -> BufferSlot] /\ \A x \in 0..PoolSize : Has(x, f[x])
  BY <1>1, Zenon
<1> HIDE DEF f
<1>4. /\ IsFiniteSet(0..PoolSize) /\ Cardinality(0..PoolSize) = PoolSize + 1
      /\ IsFiniteSet(BufferSlot) /\ Cardinality(BufferSlot) = PoolSize
  <2>1. IsFiniteSet(0..PoolSize) /\ Cardinality(0..PoolSize) = IF 0 > PoolSize THEN 0 ELSE PoolSize - 0 + 1
    BY <1>w, FS_Interval
  <2>2. IsFiniteSet(BufferSlot) /\ Cardinality(BufferSlot) = IF 0 > PoolSize - 1 THEN 0 ELSE PoolSize - 1 - 0 + 1
    BY <1>w, FS_Interval DEF BufferSlot
  <2>. QED
    BY <1>w, <2>1, <2>2
<1>5. PICK x, y \in 0..PoolSize : x # y /\ f[x] = f[y]
  <2>1. Cardinality(BufferSlot) < Cardinality(0..PoolSize)
    BY <1>w, <1>4
  <2>2. PICK S : S = 0..PoolSize
    BY Zenon
  <2>3. IsFiniteSet(S) /\ IsFiniteSet(BufferSlot) /\ Cardinality(BufferSlot) < Cardinality(S) /\ f \in [S -> BufferSlot]
    BY <1>3, <1>4, <2>1, <2>2, Zenon
  <2>4. \E x, y \in S : x # y /\ f[x] = f[y]
    BY <2>3, FS_PigeonHole
  <2>. QED
    BY <2>2, <2>4, Zenon
<1>6. PICK p \in Owners(f[x]) : At(x, p)
  BY <1>3, Zenon
<1>7. PICK q \in Owners(f[x]) : At(y, q)
  BY <1>3, <1>5, Zenon
<1>8. p = q
  BY <1>3, <1>6, <1>7, OnlyPlace, Zenon
<1>. QED
  BY <1>2, <1>5, <1>6, <1>7, <1>8, Zenon

\* A push finds its slot taken only while the pop of that slot's last index is
\* under way.
LEMMA FullBesideAPop ==
  ASSUME PoolConstants, BufferPoolInv, NEW t \in Thread, pc[t] = "pushSeq",
         sequence[slot(at[t])] < at[t]
  PROVE  PopPending(at[t] - PoolSize)
<1>i. PoolTypeOK /\ SlotsInv /\ EveryBufferOnce
  BY Zenon DEF BufferPoolInv
<1> USE <1>i
<1>n. PICK n : n = at[t]
  BY Zenon
<1>w. /\ qhead \in Nat /\ qtail \in Nat /\ PoolSize \in Nat /\ PoolSize > 1
      /\ qhead <= qtail /\ qtail <= qhead + PoolSize
  BY WindowApart, Zenon
<1>1. n \in Nat /\ n <= qtail /\ slot(n) \in BufferSlot
  BY <1>n, SlotType, Zenon DEF PoolTypeOK, SlotsInv
<1>2. qtail < qhead + PoolSize
  BY RoomForMine, Zenon
<1>3. PICK m \in qhead..(qhead + PoolSize - 1) : slot(m) = slot(n)
  BY <1>1, <1>w, SlotInWindow, Zenon
<1>4. n <= m
  <2> SUFFICES ASSUME n > m PROVE FALSE
    BY <1>1, <1>w
  <2>1. n \in qhead..(qhead + PoolSize - 1)
    BY <1>1, <1>2, <1>w
  <2>. QED
    BY <1>3, <1>w, <2>1, WindowApart
<1>5. sequence[slot(m)] < m /\ sequence[slot(m)] \in Nat /\ m \in Nat
  <2>1. sequence[slot(m)] \in Nat /\ m \in Nat
    BY <1>1, <1>3, <1>w DEF PoolTypeOK
  <2>. QED
    BY <1>1, <1>3, <1>4, <1>n, <2>1
<1>6. m \in qtail..(qhead + PoolSize - 1)
  <2> SUFFICES ASSUME m < qtail PROVE FALSE
    BY <1>w, <1>5
  <2>1. m \in qhead..(qtail - 1)
    BY <1>w, <1>5
  <2>2. sequence[slot(m)] = m + 1 \/ sequence[slot(m)] = m
    BY <2>1, Zenon DEF SlotsInv
  <2>. QED
    BY <1>5, <2>2
<1>7. PopPending(m - PoolSize) /\ sequence[slot(m)] = m + 1 - PoolSize
  <2>1. sequence[slot(m)] # m
    BY <1>5
  <2>. QED
    BY <1>6, <2>1, Zenon DEF SlotsInv
<1>8. n = m
  <2> SUFFICES ASSUME n < m PROVE FALSE
    BY <1>1, <1>4, <1>5
  <2>1. m < n + PoolSize
    <3>1. m + 1 - PoolSize < n
      BY <1>3, <1>7, <1>n, Zenon
    <3>. QED
      BY <1>1, <1>5, <1>w, <3>1
  <2>. QED
    BY <1>1, <1>3, <1>5, <2>1, SlotsDiffer
<1>. QED
  BY <1>7, <1>8, <1>n, Zenon

\* A release loses its buffer only beside the pop of its slot's last index, which
\* has advanced head_ and not yet stored its sequence number.
THEOREM ReleasesFailBesideAPop == PoolSpec => ReleaseFailsBesideAPop
<1> USE BufferAssumption
<1>1. BufferPoolInv /\ [PoolNext]_poolVars =>
        [\A i \in leaked' \ leaked :
           \E t \in Thread : pc[t] = "pushSeq" /\ idx[t] = i /\ PopPending(at[t] - PoolSize)]_poolVars
  <2> SUFFICES ASSUME BufferPoolInv, PoolNext, NEW i \in leaked', i \notin leaked
               PROVE  \E t \in Thread : pc[t] = "pushSeq" /\ idx[t] = i /\ PopPending(at[t] - PoolSize)
    BY Zenon
  <2>1. PICK t \in Thread : acquireBuffer(t) \/ releaseBuffer(t) \/ Step(t)
    BY Zenon DEF PoolNext
  <2>2. PushSequence(t)
    BY <2>1, Zenon DEF acquireBuffer, releaseBuffer, Step, PushCas, PushStore, PopSequence, PopCas, PopStore, FreshIndex
  <2>3. slot(at[t]) \in BufferSlot /\ at[t] \in Nat
    BY SlotType, Zenon DEF BufferPoolInv, PoolTypeOK
  <2>4. sequence[slot(at[t])] \in Nat
    BY <2>3, Zenon DEF BufferPoolInv, PoolTypeOK
  <2>5. sequence[slot(at[t])] < at[t] /\ pc[t] = "pushSeq" /\ idx[t] = i
    BY <2>2, <2>3, <2>4 DEF PushSequence
  <2>. QED
    BY <2>5, FullBesideAPop, Zenon
<1>. QED
  BY <1>1, BuffersAreExclusive, PTL DEF PoolSpec, ReleaseFailsBesideAPop
=============================================================================
