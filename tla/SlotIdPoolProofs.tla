-------------------------- MODULE SlotIdPoolProofs --------------------------
(***************************************************************************)
(* The pool never issues an index twice and never loses one, for every     *)
(* capacity, cache size, chunk size and number of generations.             *)
(***************************************************************************)
EXTENDS SlotIdPool, FiniteSetTheorems, TLAPS

\* The time, in seconds, that a prover may take over a leaf.
USE SMTT(30), ZenonT(30)

\* TypeOK and the two properties are inductive together with CallInv.
IInv == TypeOK /\ IssuedOnce /\ NoIdLost /\ CallInv

\* release() moves an id to the next generation and keeps its index.
LEMMA NextGenType == ASSUME NEW id \in Id PROVE NextGen(id) \in Id /\ NextGen(id).index = id.index
  BY MaxGenAssumption DEF Id, NextGen, Make, Gen

\* The ring is never full: with all other slots queued, the CAPACITY - 1
\* queued indices and the one being released would not fit in Index.
LEMMA RingHasRoom == IInv /\ rpc = "publish" => Succ(tail) # Front
<1> SUFFICES ASSUME IInv, rpc = "publish", Succ(tail) = Front PROVE FALSE
  BY Zenon
<1> DEFINE others == Slot \ {tail}
           rest == Index \ {releasing.index}
           f == [s \in others |-> sharedQueue[s].index]
<1>1. tail \in Slot /\ Front \in Slot /\ releasing \in Id
  BY Zenon DEF IInv, TypeOK, CallInv, Front
<1>2. \A s \in others : InRing(s)
  BY <1>1, PoolAssumption DEF InRing, Between, Succ, Slot
<1>3. \A s \in others : sharedQueue[s] \in Id
  BY <1>2, Zenon DEF IInv, CallInv
<1>4. \A s \in others : sharedQueue[s].index \in Index
  BY <1>3, Zenon DEF Id
<1>5. \A s \in others : Queued(sharedQueue[s].index)
  BY <1>2, Zenon DEF Queued
<1>6. InRelease(releasing.index)
  BY Zenon DEF InRelease
<1>7. \A s \in others : sharedQueue[s].index # releasing.index
  BY <1>4, <1>5, <1>6, Zenon DEF IInv, IssuedOnce
<1>8. \A r, s \in others : sharedQueue[r].index = sharedQueue[s].index => r = s
  BY <1>2, Zenon DEF IInv, IssuedOnce
<1>9. f \in Injection(others, rest)
  <2>1. f \in [others -> rest]
    BY <1>4, <1>7, Zenon
  <2>2. \A r, s \in others : f[r] = f[s] => r = s
    BY <1>8, Zenon
  <2> QED
    BY <2>1, <2>2, Zenon DEF Injection, IsInjective
<1>10. IsFiniteSet(Slot) /\ Cardinality(Slot) = CAPACITY
  BY PoolAssumption, FS_Interval DEF Slot
<1>11. IsFiniteSet(Index) /\ Cardinality(Index) = CAPACITY - 1
  BY PoolAssumption, FS_Interval DEF Index
<1>12. Cardinality(others) = CAPACITY - 1
  BY <1>1, <1>10, FS_RemoveElement, Zenon
<1>13. releasing.index \in Index
  BY <1>1, Zenon DEF Id
<1>14. IsFiniteSet(rest) /\ Cardinality(rest) = CAPACITY - 2
  BY <1>11, <1>13, FS_RemoveElement, PoolAssumption
<1>15. Cardinality(others) <= Cardinality(rest)
  BY <1>9, <1>14, FS_Injection
<1> QED
  BY <1>12, <1>14, <1>15, PoolAssumption

\* The initial pool satisfies the invariant: no id exists yet.
LEMMA InitEstablishes == Init => IInv
<1> SUFFICES ASSUME Init PROVE IInv
  BY Zenon
<1>1. TypeOK
  BY PoolAssumption DEF Init, TypeOK, Slot, Id, InvalidId
<1>2. \A i : ~OnStack(i) /\ ~Queued(i) /\ ~InRelease(i) /\ ~Held(i)
  BY DEF Init, OnStack, Queued, InRing, Between, Front, InRelease, Held, Slot
<1>3. \A s \in Slot : ~InRing(s)
  BY DEF Init, InRing, Between, Front, Slot
<1>4. localStack = <<>> /\ held = {} /\ nextFreshIdx = 1 /\ rpc = "idle" /\ apc = "idle"
  BY Zenon DEF Init
<1> QED
  BY <1>1, <1>2, <1>3, <1>4 DEF IInv, IssuedOnce, NoIdLost, CallInv

\* Popping an id off a stack of distinct free ids moves it to held: the step
\* that acquire() and refill() share.
LEMMA PopMoves ==
  ASSUME NEW stack \in Seq(Id), PopFrom(stack), stack # <<>>, held \subseteq Id,
         \A j, k \in 1 .. Len(stack) : stack[j].index = stack[k].index => j = k
  PROVE  \E id \in Id :
           /\ held' = held \cup {id}
           /\ localStack' \in Seq(Id) /\ Len(localStack') = Len(stack) - 1
           /\ \A j, k \in 1 .. Len(localStack') : localStack'[j].index = localStack'[k].index => j = k
           /\ \E k \in 1 .. Len(stack) : stack[k].index = id.index
           /\ \A i : OnStack(i)' <=> (i # id.index /\ \E k \in 1 .. Len(stack) : stack[k].index = i)
<1> DEFINE n == Len(stack)
           id == stack[n]
<1>1. n \in Nat /\ n > 0 /\ id \in Id
  OBVIOUS
<1>2. held' = held \cup {id} /\ localStack' = SubSeq(stack, 1, n - 1)
  BY Zenon DEF PopFrom
<1> HIDE DEF n
<1>3. stack \in Seq(Id) /\ n - 1 \in 0 .. Len(stack) /\ 1 \in 1 .. Len(stack) + 1
  BY <1>1 DEF n
<1>4. /\ localStack' \in Seq(Id) /\ Len(localStack') = n - 1
      /\ \A k \in 1 .. n - 1 : localStack'[k] = stack[k]
  BY <1>1, <1>2, <1>3
<1>5. \A i : OnStack(i)' <=> \E k \in 1 .. n - 1 : stack[k].index = i
  BY <1>1, <1>4, Zenon DEF OnStack
<1>6. \A k \in 1 .. n : k = n \/ k \in 1 .. n - 1
  BY <1>1
<1>7. \A k \in 1 .. n - 1 : k \in 1 .. n /\ k # n
  BY <1>1
<1>8. \A k \in 1 .. n - 1 : stack[k].index # id.index
  BY <1>1, <1>7 DEF n
<1>9. \A i : OnStack(i)' <=> (i # id.index /\ \E k \in 1 .. n : stack[k].index = i)
  BY <1>5, <1>6, <1>7, <1>8, Zenon
<1>d. \A j, k \in 1 .. n : stack[j].index = stack[k].index => j = k
  BY Zenon DEF n
<1>10. \A j, k \in 1 .. Len(localStack') : localStack'[j].index = localStack'[k].index => j = k
  <2> SUFFICES ASSUME NEW j \in 1 .. n - 1, NEW k \in 1 .. n - 1, stack[j].index = stack[k].index
               PROVE  j = k
    BY <1>4, Zenon
  <2> QED
    BY <1>7, <1>d, Zenon
<1> QED
  BY <1>1, <1>2, <1>4, <1>9, <1>10 DEF n

\* An index of an interval is not below it, and below its end.
LEMMA IntervalBounds ==
  ASSUME NEW a \in Nat, NEW b \in Nat, NEW i \in a .. b - 1
  PROVE  ~(i < a) /\ i < b
  OBVIOUS

\* What popping preserves, when the stack holds the free ids of the pool's own
\* stack or the fresh ones between the old and the new nextFreshIdx.
LEMMA PopKeeps ==
  ASSUME TypeOK, IssuedOnce, NoIdLost,
         NEW stack \in Seq(Id), stack # <<>>, Len(stack) <= LOCAL_CACHE_SIZE, PopFrom(stack),
         \A j, k \in 1 .. Len(stack) : stack[j].index = stack[k].index => j = k,
         UNCHANGED <<tail, sharedQueue, rpc, releasing>>, Front' = Front,
         nextFreshIdx' \in 1 .. CAPACITY, nextFreshIdx <= nextFreshIdx',
         \A i \in Index : (\E k \in 1 .. Len(stack) : stack[k].index = i)
                             <=> OnStack(i) \/ i \in nextFreshIdx .. nextFreshIdx' - 1
  PROVE  /\ localStack' \in Seq(Id) /\ Len(localStack') <= LOCAL_CACHE_SIZE /\ held' \subseteq Id
         /\ \A s \in Slot : InRing(s)' <=> InRing(s)
         /\ IssuedOnce' /\ NoIdLost'
<1> DEFINE On(i) == \E k \in 1 .. Len(stack) : stack[k].index = i
<1>1. held \subseteq Id /\ nextFreshIdx \in 1 .. CAPACITY
  BY Zenon DEF TypeOK
<1>2. PICK id \in Id :
           /\ held' = held \cup {id}
           /\ localStack' \in Seq(Id) /\ Len(localStack') = Len(stack) - 1
           /\ \A j, k \in 1 .. Len(localStack') : localStack'[j].index = localStack'[k].index => j = k
           /\ On(id.index)
           /\ \A i : OnStack(i)' <=> (i # id.index /\ On(i))
  BY <1>1, PopMoves, Zenon
<1> HIDE DEF On
<1>3. id.index \in Index
  BY <1>2, Zenon DEF Id
<1>4. \A i \in Index : On(i) <=> OnStack(i) \/ i \in nextFreshIdx .. nextFreshIdx' - 1
  BY Zenon DEF On
<1>5. \A i \in Index : On(i) => /\ ~Queued(i) /\ ~InRelease(i) /\ ~Held(i)
                                 /\ i < nextFreshIdx'
  <2> SUFFICES ASSUME NEW i \in Index, On(i)
               PROVE  ~Queued(i) /\ ~InRelease(i) /\ ~Held(i) /\ i < nextFreshIdx'
    BY Zenon
  <2>1. i \in Nat /\ nextFreshIdx \in Nat /\ nextFreshIdx' \in Nat
    BY <1>1, PoolAssumption DEF Index
  <2>2. CASE OnStack(i)
    BY <2>1, <2>2 DEF IssuedOnce
  <2>3. CASE i \in nextFreshIdx .. nextFreshIdx' - 1
    <3>1. ~(i < nextFreshIdx) /\ i < nextFreshIdx'
      BY <2>1, <2>3, IntervalBounds, Zenon
    <3> QED
      BY <3>1, Zenon DEF IssuedOnce
  <2> QED
    BY <1>4, <2>2, <2>3, Zenon
<1>6. \A s : InRing(s)' <=> InRing(s)
  BY Zenon DEF InRing
<1>7. \A i : (Queued(i)' <=> Queued(i)) /\ (InRelease(i)' <=> InRelease(i))
  BY <1>6, Zenon DEF Queued, InRelease
<1>8. \A i : Held(i)' <=> (Held(i) \/ i = id.index)
  BY <1>2, Zenon DEF Held
<1>9. \A a, b \in held' : a.index = b.index => a = b
  BY <1>2, <1>3, <1>5 DEF IssuedOnce, Held
<1>10. \A i \in Index : i < nextFreshIdx => i < nextFreshIdx'
  BY <1>1, PoolAssumption DEF Index
<1>11. \A i \in Index : OnStack(i)' \/ Queued(i)' \/ InRelease(i)' \/ Held(i)' => i < nextFreshIdx'
  BY <1>2, <1>3, <1>5, <1>7, <1>8, <1>10 DEF IssuedOnce
<1>12. IssuedOnce'
  BY <1>2, <1>3, <1>5, <1>6, <1>7, <1>8, <1>9, <1>11 DEF IssuedOnce
<1>13. NoIdLost'
  <2> SUFFICES ASSUME NEW i \in 1 .. nextFreshIdx' - 1
               PROVE  OnStack(i)' \/ Queued(i)' \/ InRelease(i)' \/ Held(i)'
    BY Zenon DEF NoIdLost
  <2>1. i \in Index /\ (i \in 1 .. nextFreshIdx - 1 \/ i \in nextFreshIdx .. nextFreshIdx' - 1)
    BY <1>1, PoolAssumption DEF Index
  <2> QED
    BY <1>2, <1>4, <1>7, <1>8, <2>1, Zenon DEF NoIdLost
<1>14. Len(localStack') <= LOCAL_CACHE_SIZE
  BY <1>2, PoolAssumption
<1> QED
  BY <1>1, <1>2, <1>6, <1>12, <1>13, <1>14, Zenon

\* acquire() from the stack keeps the invariant.
LEMMA AcquireKeeps == IInv /\ acquire => IInv'
<1> SUFFICES ASSUME IInv, acquire PROVE IInv'
  BY Zenon
<1>1. TypeOK /\ IssuedOnce /\ NoIdLost /\ CallInv
  BY Zenon DEF IInv
<1>2. UNCHANGED <<nextFreshIdx, apc, h, t, head, tail, sharedQueue, rpc, releasing>>
  BY Zenon DEF acquire, releaser
<1>3. /\ localStack \in Seq(Id) /\ localStack # <<>> /\ Len(localStack) <= LOCAL_CACHE_SIZE
      /\ PopFrom(localStack) /\ nextFreshIdx \in 1 .. CAPACITY
  BY <1>1, Zenon DEF acquire, TypeOK
<1>4. Front' = Front /\ nextFreshIdx <= nextFreshIdx' /\ nextFreshIdx .. nextFreshIdx' - 1 = {}
  BY <1>2, <1>3, PoolAssumption DEF Front
<1>5. /\ \A j, k \in 1 .. Len(localStack) : localStack[j].index = localStack[k].index => j = k
      /\ \A i : (\E k \in 1 .. Len(localStack) : localStack[k].index = i) <=> OnStack(i)
  BY <1>1, Zenon DEF IssuedOnce, OnStack
<1>6. /\ localStack' \in Seq(Id) /\ Len(localStack') <= LOCAL_CACHE_SIZE /\ held' \subseteq Id
      /\ \A s \in Slot : InRing(s)' <=> InRing(s)
      /\ IssuedOnce' /\ NoIdLost'
  BY <1>1, <1>2, <1>3, <1>4, <1>5, PopKeeps, Zenon
<1>7. TypeOK'
  BY <1>1, <1>2, <1>6, Zenon DEF TypeOK
<1>8. CallInv'
  BY <1>1, <1>2, <1>6, Zenon DEF CallInv
<1> QED
  BY <1>6, <1>7, <1>8, Zenon DEF IInv

\* Loading the indices in refill() keeps the invariant.
LEMMA RefillLoadKeeps == IInv /\ RefillLoad => IInv'
<1> SUFFICES ASSUME IInv, RefillLoad PROVE IInv'
  BY Zenon
<1>1. TypeOK /\ IssuedOnce /\ NoIdLost /\ CallInv
  BY Zenon DEF IInv
<1>2. UNCHANGED <<localStack, nextFreshIdx, head, tail, sharedQueue, rpc, releasing, held>>
  BY Zenon DEF RefillLoad, releaser
<1>3. apc = "idle" /\ apc' = "copy" /\ h' = head /\ t' = tail
  BY Zenon DEF RefillLoad
<1>4. \A s : InRing(s)' <=> InRing(s)
  BY <1>2, <1>3, Zenon DEF InRing, Front
<1>5. \A i : /\ OnStack(i)' <=> OnStack(i)
             /\ Queued(i)' <=> Queued(i)
             /\ InRelease(i)' <=> InRelease(i)
             /\ Held(i)' <=> Held(i)
  BY <1>2, <1>4, Zenon DEF OnStack, Queued, InRelease, Held
<1>6. TypeOK'
  BY <1>1, <1>2, <1>3, Zenon DEF TypeOK
<1>7. IssuedOnce' /\ NoIdLost'
  BY <1>1, <1>2, <1>4, <1>5, Zenon DEF IssuedOnce, NoIdLost
<1>8. CallInv'
  BY <1>1, <1>2, <1>3, <1>4, Zenon DEF CallInv
<1> QED
  BY <1>6, <1>7, <1>8, Zenon DEF IInv

\* Copying a slot in refill() moves its id from the ring to the stack.
LEMMA RefillCopyKeeps == IInv /\ RefillCopy => IInv'
<1> SUFFICES ASSUME IInv, RefillCopy PROVE IInv'
  BY Zenon
<1>1. TypeOK /\ IssuedOnce /\ NoIdLost /\ CallInv
  BY Zenon DEF IInv
<1>2. UNCHANGED <<nextFreshIdx, apc, t, head, tail, sharedQueue, rpc, releasing, held>>
  BY Zenon DEF RefillCopy, releaser
<1>3. /\ apc = "copy" /\ h # t /\ Len(localStack) < LOCAL_CACHE_SIZE /\ h' = Succ(h)
      /\ localStack' = Append(localStack, sharedQueue[h])
  BY Zenon DEF RefillCopy, MoreToCopy
<1>4. h \in Slot /\ t \in Slot /\ tail \in Slot /\ localStack \in Seq(Id)
  BY <1>1, Zenon DEF TypeOK
<1>5. t = tail \/ Between(h, tail, t)
  BY <1>1, <1>3, Zenon DEF CallInv
<1>6. InRing(h) /\ h' \in Slot /\ (t = tail \/ Between(h', tail, t))
  BY <1>3, <1>4, <1>5, PoolAssumption DEF InRing, Front, Between, Succ, Slot
<1>7. \A s \in Slot : InRing(s)' <=> InRing(s) /\ s # h
  BY <1>2, <1>3, <1>4, <1>6, PoolAssumption DEF InRing, Front, Between, Succ, Slot
<1> DEFINE id == sharedQueue[h]
           n == Len(localStack)
<1>8. id \in Id
  BY <1>1, <1>4, <1>6, Zenon DEF CallInv
<1>9. id.index \in Index /\ Queued(id.index)
  BY <1>4, <1>6, <1>8, Zenon DEF Id, Queued
<1>10. ~OnStack(id.index)
  BY <1>1, <1>9, Zenon DEF IssuedOnce
<1>11. /\ localStack' \in Seq(Id) /\ Len(localStack') = n + 1 /\ localStack'[n + 1] = id
       /\ \A k \in 1 .. n : localStack'[k] = localStack[k]
       /\ n \in Nat
  BY <1>3, <1>4, <1>8
<1> HIDE DEF n, id
<1>12. \A i : OnStack(i)' <=> OnStack(i) \/ i = id.index
  <2>1. \A k \in 1 .. n + 1 : k \in 1 .. n \/ k = n + 1
    BY <1>11
  <2>2. n + 1 \in 1 .. n + 1 /\ \A k \in 1 .. n : k \in 1 .. n + 1
    BY <1>11
  <2> QED
    BY <1>11, <2>1, <2>2, Zenon DEF OnStack, n
<1>13. \A i : Queued(i)' <=> Queued(i) /\ i # id.index
  <2>1. \A s \in Slot : InRing(s) /\ s # h => sharedQueue[s].index # id.index
    BY <1>1, <1>4, <1>6, Zenon DEF IssuedOnce, id
  <2>2. \A s \in Slot : sharedQueue'[s] = sharedQueue[s]
    BY <1>2, Zenon
  <2> QED
    BY <1>7, <2>1, <2>2, Zenon DEF Queued, id
<1>14. \A i : (InRelease(i)' <=> InRelease(i)) /\ (Held(i)' <=> Held(i))
  BY <1>2, Zenon DEF InRelease, Held
<1>15. TypeOK'
  <2>1. Len(localStack') <= LOCAL_CACHE_SIZE
    BY <1>3, <1>11, PoolAssumption DEF n
  <2> QED
    BY <1>1, <1>2, <1>6, <1>11, <2>1, Zenon DEF TypeOK
<1>16. \A j, k \in 1 .. Len(localStack') : localStack'[j].index = localStack'[k].index => j = k
  <2>1. \A j, k \in 1 .. n : localStack[j].index = localStack[k].index => j = k
    BY <1>1, Zenon DEF IssuedOnce, n
  <2>2. \A j \in 1 .. n : localStack[j].index # id.index
    BY <1>10, Zenon DEF OnStack, n
  <2>3. \A k \in 1 .. n + 1 : k \in 1 .. n \/ k = n + 1
    BY <1>11
  <2> QED
    BY <1>11, <2>1, <2>2, <2>3
<1>17. \A r, s \in Slot : InRing(r)' /\ InRing(s)' /\ sharedQueue'[r].index = sharedQueue'[s].index => r = s
  BY <1>1, <1>2, <1>7, Zenon DEF IssuedOnce
<1>18. IssuedOnce'
  BY <1>1, <1>2, <1>9, <1>12, <1>13, <1>14, <1>16, <1>17, Zenon DEF IssuedOnce
<1>19. NoIdLost'
  BY <1>1, <1>2, <1>12, <1>13, <1>14, Zenon DEF NoIdLost
<1>20. CallInv'
  BY <1>1, <1>2, <1>3, <1>6, <1>7, Zenon DEF CallInv
<1> QED
  BY <1>15, <1>18, <1>19, <1>20, Zenon DEF IInv

\* The ids refill() generates are the next indices, in generation 1.
LEMMA FreshIds ==
  ASSUME TypeOK, localStack = <<>>
  PROVE  /\ Fresh \in Seq(Id) /\ Len(Fresh) <= LOCAL_CACHE_SIZE
         /\ nextFreshIdx + Len(Fresh) \in 1 .. CAPACITY /\ nextFreshIdx <= nextFreshIdx + Len(Fresh)
         /\ \A k \in 1 .. Len(Fresh) : Fresh[k].index = nextFreshIdx + k - 1
<1> DEFINE m == Lesser(FreshLimit - nextFreshIdx, LOCAL_CACHE_SIZE)
<1>1. nextFreshIdx \in 1 .. CAPACITY
  BY Zenon DEF TypeOK
<1>2. /\ m \in Nat /\ m <= LOCAL_CACHE_SIZE /\ nextFreshIdx + m \in 1 .. CAPACITY
      /\ nextFreshIdx <= nextFreshIdx + m
  BY <1>1, PoolAssumption DEF Lesser, FreshLimit
<1> HIDE DEF m
<1>3. Fresh = [k \in 1 .. m |-> Make(nextFreshIdx + k - 1, 1)]
  BY Zenon DEF Fresh, m
<1>4. \A k \in 1 .. m : Make(nextFreshIdx + k - 1, 1) \in Id /\ Make(nextFreshIdx + k - 1, 1).index = nextFreshIdx + k - 1
  BY <1>1, <1>2, MaxGenAssumption, PoolAssumption DEF Make, Id, Index, Gen
<1>5. Fresh \in Seq(Id) /\ Len(Fresh) = m
  BY <1>2, <1>3, <1>4
<1>6. \A k \in 1 .. m : Fresh[k].index = nextFreshIdx + k - 1
  BY <1>3, <1>4, Zenon
<1> QED
  BY <1>2, <1>5, <1>6, Zenon

\* The end of refill() keeps the invariant, whether it has queued ids, has
\* fresh ids, or has none.
LEMMA RefillReturnKeeps == IInv /\ RefillReturn => IInv'
<1> SUFFICES ASSUME IInv, RefillReturn PROVE IInv'
  BY Zenon
<1>1. TypeOK /\ IssuedOnce /\ NoIdLost /\ CallInv
  BY Zenon DEF IInv
<1>2. UNCHANGED <<h, t, tail, sharedQueue, rpc, releasing>>
  BY Zenon DEF RefillReturn, releaser
<1>3. apc = "copy" /\ apc' = "idle" /\ head' = h /\ Front' = Front
  BY Zenon DEF RefillReturn, StoreHead, Front
<1>4. nextFreshIdx' = nextFreshIdx + Len(Fresh) /\ PopFrom(localStack \o Fresh)
  BY Zenon DEF RefillReturn
<1>5. localStack \in Seq(Id) /\ Len(localStack) <= LOCAL_CACHE_SIZE /\ nextFreshIdx \in 1 .. CAPACITY
  BY <1>1, Zenon DEF TypeOK
<1> DEFINE Kept ==
      /\ localStack' \in Seq(Id) /\ Len(localStack') <= LOCAL_CACHE_SIZE /\ held' \subseteq Id
      /\ \A s \in Slot : InRing(s)' <=> InRing(s)
      /\ IssuedOnce' /\ NoIdLost' /\ nextFreshIdx' \in 1 .. CAPACITY
<1>6. ASSUME localStack # <<>> PROVE Kept
  <2>1. Fresh = <<>> /\ localStack \o <<>> = localStack
    BY <1>5, <1>6 DEF Fresh
  <2>2. PopFrom(localStack) /\ nextFreshIdx' = nextFreshIdx
    BY <1>4, <1>5, <2>1
  <2>3. nextFreshIdx <= nextFreshIdx' /\ nextFreshIdx .. nextFreshIdx' - 1 = {}
    BY <1>5, <2>2, PoolAssumption
  <2>4. /\ \A j, k \in 1 .. Len(localStack) : localStack[j].index = localStack[k].index => j = k
        /\ \A i : (\E k \in 1 .. Len(localStack) : localStack[k].index = i) <=> OnStack(i)
    BY <1>1, Zenon DEF IssuedOnce, OnStack
  <2> QED
    BY <1>1, <1>2, <1>3, <1>5, <1>6, <2>2, <2>3, <2>4, PopKeeps, Zenon
<1>7. ASSUME localStack = <<>>, Fresh # <<>> PROVE Kept
  <2>1. /\ Fresh \in Seq(Id) /\ Len(Fresh) <= LOCAL_CACHE_SIZE
        /\ nextFreshIdx' \in 1 .. CAPACITY /\ nextFreshIdx <= nextFreshIdx'
        /\ \A k \in 1 .. Len(Fresh) : Fresh[k].index = nextFreshIdx + k - 1
    BY <1>1, <1>4, <1>7, FreshIds, Zenon
  <2>2. PopFrom(Fresh)
    <3>1. <<>> \o Fresh = Fresh
      BY <2>1
    <3> QED
      BY <1>4, <1>7, <3>1, Zenon
  <2>3. \A j, k \in 1 .. Len(Fresh) : Fresh[j].index = Fresh[k].index => j = k
    BY <1>5, <2>1, PoolAssumption
  <2>4. \A i : ~OnStack(i)
    BY <1>7 DEF OnStack
  <2>5. \A i \in Index : (\E k \in 1 .. Len(Fresh) : Fresh[k].index = i) <=> i \in nextFreshIdx .. nextFreshIdx' - 1
    <3> SUFFICES ASSUME NEW i \in Index
                 PROVE  (\E k \in 1 .. Len(Fresh) : Fresh[k].index = i) <=> i \in nextFreshIdx .. nextFreshIdx' - 1
      BY Zenon
    <3>1. i \in Nat /\ nextFreshIdx \in Nat /\ Len(Fresh) \in Nat
      BY <1>5, <2>1, PoolAssumption DEF Index
    <3>2. ASSUME i \in nextFreshIdx .. nextFreshIdx' - 1 PROVE i - nextFreshIdx + 1 \in 1 .. Len(Fresh)
      BY <1>4, <3>1, <3>2
    <3>3. ASSUME i \in nextFreshIdx .. nextFreshIdx' - 1 PROVE Fresh[i - nextFreshIdx + 1].index = i
      BY <2>1, <3>1, <3>2, <3>3
    <3>4. ASSUME NEW k \in 1 .. Len(Fresh), Fresh[k].index = i PROVE i \in nextFreshIdx .. nextFreshIdx' - 1
      BY <1>4, <2>1, <3>1, <3>4
    <3> QED
      BY <3>2, <3>3, <3>4, Zenon
  <2> QED
    BY <1>1, <1>2, <1>3, <1>7, <2>1, <2>2, <2>3, <2>4, <2>5, PopKeeps, Zenon
<1>8. ASSUME localStack = <<>>, Fresh = <<>> PROVE Kept
  <2>1. localStack \o Fresh = <<>> /\ Len(Fresh) = 0
    BY <1>8
  <2>2. nextFreshIdx' = nextFreshIdx /\ localStack' = localStack /\ held' = held
    BY <1>4, <1>5, <1>8, <2>1 DEF PopFrom
  <2>3. \A s : InRing(s)' <=> InRing(s)
    BY <1>2, <1>3, Zenon DEF InRing
  <2>4. \A i : /\ OnStack(i)' <=> OnStack(i)
               /\ Queued(i)' <=> Queued(i)
               /\ InRelease(i)' <=> InRelease(i)
               /\ Held(i)' <=> Held(i)
    BY <1>2, <2>2, <2>3, Zenon DEF OnStack, Queued, InRelease, Held
  <2>5. IssuedOnce' /\ NoIdLost'
    BY <1>1, <1>2, <2>2, <2>3, <2>4, Zenon DEF IssuedOnce, NoIdLost
  <2> QED
    BY <1>1, <1>5, <2>2, <2>3, <2>5, Zenon DEF TypeOK
<1>9. Kept
  BY <1>6, <1>7, <1>8, Zenon
<1>10. TypeOK'
  BY <1>1, <1>2, <1>3, <1>9, Zenon DEF TypeOK
<1>11. CallInv'
  BY <1>1, <1>2, <1>3, <1>9, Zenon DEF CallInv
<1> QED
  BY <1>9, <1>10, <1>11, Zenon DEF IInv

\* Writing the slot of a release moves its id from held to the releaser.
LEMMA ReleaseWriteKeeps ==
  ASSUME IInv, NEW id \in held, ReleaseWrite(id)
  PROVE  IInv'
<1>1. TypeOK /\ IssuedOnce /\ NoIdLost /\ CallInv
  BY Zenon DEF IInv
<1>2. UNCHANGED <<localStack, nextFreshIdx, apc, h, t, head, tail>> /\ rpc = "idle" /\ rpc' = "publish"
  BY Zenon DEF ReleaseWrite, acquirer
<1>3. id \in Id /\ tail \in Slot /\ held \subseteq Id /\ sharedQueue \in [Slot -> Id \cup {InvalidId}]
  BY <1>1, Zenon DEF TypeOK
<1> DEFINE new == NextGen(id)
<1>4. new \in Id /\ new.index = id.index
  BY <1>3, NextGenType, Zenon
<1>5. /\ held' = held \ {id} /\ releasing' = new
      /\ sharedQueue' = [sharedQueue EXCEPT ![tail] = new]
  BY Zenon DEF ReleaseWrite
<1> HIDE DEF new
<1>6. \A s \in Slot : InRing(s) => s # tail
  BY <1>1, <1>3, PoolAssumption DEF InRing, Between, Front, TypeOK, Slot
<1>7. \A s : InRing(s)' <=> InRing(s)
  BY <1>2, Zenon DEF InRing, Front
<1>8. \A s \in Slot : sharedQueue'[s] = IF s = tail THEN new ELSE sharedQueue[s]
  BY <1>3, <1>5, Zenon
<1>9. \A i : Queued(i)' <=> Queued(i)
  BY <1>6, <1>7, <1>8, Zenon DEF Queued
<1>10. \A i : (OnStack(i)' <=> OnStack(i)) /\ (InRelease(i)' <=> i = id.index) /\ ~InRelease(i)
  BY <1>2, <1>4, <1>5, Zenon DEF OnStack, InRelease
<1>11. \A i : Held(i)' <=> Held(i) /\ i # id.index
  BY <1>1, <1>5, Zenon DEF Held, IssuedOnce
<1>12. id.index \in Index /\ Held(id.index)
  BY <1>3, Zenon DEF Id, Held
<1>13. TypeOK'
  BY <1>1, <1>2, <1>3, <1>4, <1>5, Zenon DEF TypeOK
<1>14. \A r, s \in Slot : InRing(r)' /\ InRing(s)' /\ sharedQueue'[r].index = sharedQueue'[s].index => r = s
  BY <1>1, <1>6, <1>7, <1>8, Zenon DEF IssuedOnce
<1>15. \A a, b \in held' : a.index = b.index => a = b
  BY <1>1, <1>5, Zenon DEF IssuedOnce
<1>16. \A j, k \in 1 .. Len(localStack') : localStack'[j].index = localStack'[k].index => j = k
  BY <1>1, <1>2, Zenon DEF IssuedOnce
<1>17. IssuedOnce'
  BY <1>1, <1>2, <1>9, <1>10, <1>11, <1>12, <1>14, <1>15, <1>16 DEF IssuedOnce
<1>18. NoIdLost'
  BY <1>1, <1>2, <1>9, <1>10, <1>11, Zenon DEF NoIdLost
<1>19. CallInv'
  BY <1>1, <1>2, <1>3, <1>4, <1>5, <1>6, <1>7, <1>8, Zenon DEF CallInv
<1> QED
  BY <1>13, <1>17, <1>18, <1>19, Zenon DEF IInv

\* Publishing the tail moves the id from the releaser into the ring; by
\* RingHasRoom the ring does not become full, which would look empty.
LEMMA ReleasePublishKeeps == IInv /\ ReleasePublish => IInv'
<1> SUFFICES ASSUME IInv, ReleasePublish PROVE IInv'
  BY Zenon
<1>1. TypeOK /\ IssuedOnce /\ NoIdLost /\ CallInv
  BY Zenon DEF IInv
<1>2. /\ UNCHANGED <<localStack, nextFreshIdx, apc, h, t, head, sharedQueue, releasing, held>>
      /\ rpc = "publish" /\ rpc' = "idle" /\ tail' = Succ(tail)
  BY Zenon DEF ReleasePublish, acquirer
<1>3. Succ(tail) # Front
  BY <1>2, RingHasRoom, Zenon
<1>4. tail \in Slot /\ Front \in Slot /\ Front' = Front /\ h \in Slot /\ t \in Slot
  BY <1>1, <1>2, Zenon DEF TypeOK, Front
<1>5. releasing \in Id /\ sharedQueue[tail] = releasing
  BY <1>1, <1>2, Zenon DEF CallInv
<1>6. tail' \in Slot /\ \A s \in Slot : InRing(s)' <=> InRing(s) \/ s = tail
  BY <1>2, <1>3, <1>4, PoolAssumption DEF InRing, Between, Succ, Slot
<1>7. \A i : Queued(i)' <=> Queued(i) \/ i = releasing.index
  BY <1>2, <1>4, <1>5, <1>6, Zenon DEF Queued
<1>8. \A i : /\ OnStack(i)' <=> OnStack(i)
             /\ InRelease(i) <=> i = releasing.index
             /\ ~InRelease(i)'
             /\ Held(i)' <=> Held(i)
  BY <1>2, Zenon DEF OnStack, InRelease, Held
<1>9. releasing.index \in Index
  BY <1>5, Zenon DEF Id
<1>10. TypeOK'
  BY <1>1, <1>2, <1>6, Zenon DEF TypeOK
<1>11. ~Queued(releasing.index)
  BY <1>1, <1>8, <1>9, Zenon DEF IssuedOnce
<1>12. \A r, s \in Slot : InRing(r)' /\ InRing(s)' /\ sharedQueue'[r].index = sharedQueue'[s].index => r = s
  <2>1. \A s \in Slot : InRing(s) => sharedQueue[s].index # sharedQueue[tail].index
    BY <1>5, <1>11, Zenon DEF Queued
  <2> QED
    BY <1>1, <1>2, <1>6, <2>1, Zenon DEF IssuedOnce
<1>13. IssuedOnce'
  BY <1>1, <1>2, <1>7, <1>8, <1>9, <1>12, Zenon DEF IssuedOnce
<1>14. NoIdLost'
  BY <1>1, <1>2, <1>7, <1>8, Zenon DEF NoIdLost
<1>15. apc' = "copy" => t' = tail' \/ Between(h', tail', t')
  <2> SUFFICES ASSUME apc = "copy" PROVE t = tail' \/ Between(h, tail', t)
    BY <1>2, Zenon
  <2>1. Succ(tail) # h /\ (t = tail \/ Between(h, tail, t))
    BY <1>1, <1>3, Zenon DEF Front, CallInv
  <2> QED
    BY <1>2, <1>4, <2>1, PoolAssumption DEF Between, Succ, Slot
<1>16. CallInv'
  <2>1. \A s \in Slot : InRing(s)' => sharedQueue'[s] \in Id
    BY <1>1, <1>2, <1>5, <1>6, Zenon DEF CallInv
  <2> QED
    BY <1>2, <1>15, <2>1, Zenon DEF CallInv
<1> QED
  BY <1>10, <1>13, <1>14, <1>16, Zenon DEF IInv

\* IInv is an invariant of the pool, for every interleaving of the two threads.
THEOREM Invariance == Spec => []IInv
<1>1. Init => IInv
  BY InitEstablishes, Zenon
<1>2. IInv /\ [Next]_vars => IInv'
  <2> SUFFICES ASSUME IInv, [Next]_vars PROVE IInv'
    BY Zenon
  <2>1. CASE acquire
    BY <2>1, AcquireKeeps, Zenon
  <2>2. CASE RefillLoad
    BY <2>2, RefillLoadKeeps, Zenon
  <2>3. CASE RefillCopy
    BY <2>3, RefillCopyKeeps, Zenon
  <2>4. CASE RefillReturn
    BY <2>4, RefillReturnKeeps, Zenon
  <2>5. CASE \E id \in held : ReleaseWrite(id)
    BY <2>5, ReleaseWriteKeeps, Zenon
  <2>6. CASE ReleasePublish
    BY <2>6, ReleasePublishKeeps, Zenon
  <2>7. CASE UNCHANGED vars
    BY <2>7 DEF vars, acquirer, releaser, IInv, TypeOK, IssuedOnce, NoIdLost, CallInv,
                OnStack, Queued, InRelease, Held, InRing, Front
  <2> QED
    BY <2>1, <2>2, <2>3, <2>4, <2>5, <2>6, <2>7, Zenon DEF Next
<1> QED
  BY <1>1, <1>2, PTL DEF Spec

\* acquire() never returns an index that is in use, queued or on the stack.
THEOREM NeverIssuedTwice == Spec => []IssuedOnce
  BY Invariance, PTL DEF IInv

\* No index is lost: the ring without a full check never overflows.
THEOREM NeverLost == Spec => []NoIdLost
  BY Invariance, PTL DEF IInv

\* acquire() fails only when every index is in use or was released after
\* refill() had loaded the tail.
THEOREM FailsOnlyWhenExhausted == Spec => ExhaustedOnlyWhenAllInUse
<1>1. ASSUME IInv, [Next]_vars, apc = "copy", apc' = "idle", held' = held
      PROVE  /\ nextFreshIdx = CAPACITY
             /\ \A i \in Index :
                 \/ Held(i) \/ InRelease(i)
                 \/ \E s \in Slot : Between(t, tail, s) /\ sharedQueue[s].index = i
  <2>1. RefillReturn
    BY <1>1, Zenon DEF Next, vars, acquirer, acquire, RefillLoad, RefillCopy, ReleaseWrite, ReleasePublish
  <2>2. TypeOK /\ IssuedOnce /\ NoIdLost /\ CallInv
    BY <1>1, Zenon DEF IInv
  <2>3. localStack \in Seq(Id) /\ nextFreshIdx \in 1 .. CAPACITY /\ h \in Slot /\ t \in Slot /\ tail \in Slot
    BY <2>2, Zenon DEF TypeOK
  <2>4. localStack = <<>>
    <3>1. SUFFICES ASSUME localStack # <<>> PROVE FALSE
      BY Zenon
    <3>2. Fresh = <<>> /\ localStack \o <<>> = localStack
      BY <2>3, <3>1 DEF Fresh
    <3>3. PopFrom(localStack)
      BY <2>1, <3>2, Zenon DEF RefillReturn
    <3>4. localStack[Len(localStack)] \in held /\ Len(localStack) \in 1 .. Len(localStack)
      BY <1>1, <2>3, <3>1, <3>3 DEF PopFrom
    <3>5. localStack[Len(localStack)] \in Id
      BY <2>3, <3>4
    <3>6. OnStack(localStack[Len(localStack)].index) /\ Held(localStack[Len(localStack)].index)
      BY <3>4, Zenon DEF OnStack, Held
    <3> QED
      BY <2>2, <3>5, <3>6, Zenon DEF IssuedOnce, Id
  <2>5. Fresh \in Seq(Id) /\ \A k \in 1 .. Len(Fresh) : Fresh[k].index = nextFreshIdx + k - 1
    BY <2>2, <2>4, FreshIds, Zenon
  <2>6. Fresh = <<>>
    <3>1. SUFFICES ASSUME Fresh # <<>> PROVE FALSE
      BY Zenon
    <3>2. <<>> \o Fresh = Fresh
      BY <2>5
    <3>3. PopFrom(Fresh)
      BY <2>1, <2>4, <3>2, Zenon DEF RefillReturn
    <3>4. Fresh[Len(Fresh)] \in held /\ Len(Fresh) \in 1 .. Len(Fresh)
      BY <1>1, <2>5, <3>1, <3>3 DEF PopFrom
    <3>5. Fresh[Len(Fresh)] \in Id /\ Fresh[Len(Fresh)].index = nextFreshIdx + Len(Fresh) - 1
      BY <2>5, <3>4
    <3>6. ~(Fresh[Len(Fresh)].index < nextFreshIdx)
      BY <2>3, <3>4, <3>5, PoolAssumption
    <3>7. Held(Fresh[Len(Fresh)].index) /\ Fresh[Len(Fresh)].index \in Index
      BY <3>4, <3>5, Zenon DEF Held, Id
    <3> QED
      BY <2>2, <3>6, <3>7, Zenon DEF IssuedOnce
  <2>7. nextFreshIdx = CAPACITY
    <3>1. Lesser(FreshLimit - nextFreshIdx, LOCAL_CACHE_SIZE) \in Nat
      BY <2>3, PoolAssumption DEF Lesser, FreshLimit
    <3>2. Len(Fresh) = Lesser(FreshLimit - nextFreshIdx, LOCAL_CACHE_SIZE)
      BY <2>4, <3>1 DEF Fresh
    <3>3. Lesser(FreshLimit - nextFreshIdx, LOCAL_CACHE_SIZE) = 0
      BY <2>6, <3>2, Zenon
    <3> QED
      BY <2>3, <3>3, PoolAssumption DEF Lesser, FreshLimit
  <2>8. h = t
    <3>1. Len(localStack) = 0 /\ ~MoreToCopy
      BY <2>1, <2>4, Zenon DEF RefillReturn
    <3> QED
      BY <3>1, PoolAssumption DEF MoreToCopy
  <2>9. \A s \in Slot : InRing(s) <=> Between(t, tail, s)
    BY <1>1, <2>8, Zenon DEF InRing, Front
  <2>10. ASSUME NEW i \in Index
         PROVE  Held(i) \/ InRelease(i) \/ \E s \in Slot : Between(t, tail, s) /\ sharedQueue[s].index = i
    <3>1. i \in 1 .. nextFreshIdx - 1
      BY <2>7, Zenon DEF Index
    <3>2. ~OnStack(i)
      BY <2>4 DEF OnStack
    <3> QED
      BY <2>2, <2>9, <3>1, <3>2, Zenon DEF NoIdLost, Queued
  <2> QED
    BY <2>7, <2>10, Zenon
<1> QED
  BY <1>1, Invariance, PTL DEF Spec, ExhaustedOnlyWhenAllInUse

\* Indices, generations and the places of acquire() and release() keep their types.
THEOREM TypesKept == Spec => []TypeOK
  BY Invariance, PTL DEF IInv
=============================================================================
