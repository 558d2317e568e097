--------------------- MODULE PriceLevelOrderBookProofs ----------------------
(***************************************************************************)
(* Machine-checked proofs about PriceLevelOrderBook, for every size of the *)
(* price grid, of the node pool and of a mask word, and for any number of  *)
(* orders.                                                                 *)
(*                                                                         *)
(* The argument is one inductive invariant, IInv.  Its conjuncts need each *)
(* other: the volume decides when a mask bit is cleared, so it must be the *)
(* exact sum of a list that is itself well formed; the best prices are     *)
(* only exact if the masks are; and that the book is not crossed follows   *)
(* from the scan of those masks having found nothing to trade.  With the   *)
(* posted handles beside it, the book implements LimitOrderBook.           *)
(***************************************************************************)
EXTENDS BookLevelProofs, FiniteSetTheorems

\* The time, in seconds, that a prover may take over a leaf.
USE SMTT(30), ZenonT(30)

\* The inductive invariant.
IInv ==
    /\ TypeOK /\ NodesAccountedFor /\ LevelsAreFifo /\ OccupancyExact /\ BestPricesExact
    /\ NotCrossed /\ CallInv /\ VolumeLabelled(Nat)

\* The steps of the book that cancel no stale handle.
LawfulNext == AddNext \/ \E c \in issued : ~IsStale(c) /\ CancelNext(c)

\* Until a stale handle is cancelled, every step is lawful.
LEMMA LawfulUntilStale == [Next]_vars /\ ~stale' => ~stale /\ [LawfulNext]_vars
<1> SUFFICES ASSUME [Next]_vars, ~stale' PROVE ~stale /\ [LawfulNext]_vars
  BY Zenon
<1>1. CASE AddNext /\ UNCHANGED stale
  BY <1>1, Zenon DEF LawfulNext
<1>2. ASSUME NEW c \in issued, CancelNext(c)
      PROVE  ~stale /\ [LawfulNext]_vars
  <2>1. ~stale /\ ~IsStale(c)
    BY <1>2, Zenon DEF CancelNext
  <2>. QED
    BY <1>2, <2>1, Zenon DEF LawfulNext
<1>3. CASE UNCHANGED vars
  BY <1>3, Zenon DEF vars
<1>. QED
  BY <1>1, <1>2, <1>3, Zenon DEF Next


\* The constructed book satisfies the inductive invariant.
LEMMA InitEstablishes == Init => IInv
<1> SUFFICES ASSUME Init PROVE IInv
  BY Zenon
<1>1. Resting = {}
  BY DEF Init, Resting
<1>2. TypeOK
  <2>1. /\ next \in [Idx -> Link] /\ prev \in [Idx -> Link]
        /\ price \in [Idx -> 0 .. MAX_TICKS - 1] /\ qty \in [Idx -> Nat]
        /\ side \in [Idx -> Side] /\ gen \in [Idx -> 0 .. MaxGen] /\ sys \in [Idx -> Nat]
    BY BookAssumption, MaxGenAssumption DEF Init, Link, Side
  <2>2. /\ head \in [Side -> [Tick -> Link]] /\ tail \in [Side -> [Tick -> Link]]
        /\ volume \in [Side -> [Tick -> Int]] /\ mask \in [Side -> SUBSET Tick]
    BY DEF Init, Link
  <2>3. /\ minAsk \in 1 .. MAX_TICKS /\ maxBid \in 0 .. MAX_TICKS - 1
        /\ freeStack \in Seq(Handle) /\ nextAvailableIdx \in 1 .. MAX_BOOK_ORDERS
    BY BookAssumption DEF Init
  <2>. QED
    BY <2>1, <2>2, <2>3 DEF Init, TypeOK, NoOrder, NoStatus, Side
<1>3. NodesAccountedFor /\ CallInv
  BY <1>1 DEF Init, NodesAccountedFor, CallInv
<1>4. LevelsAreFifo
  BY <1>1, Zenon DEF Init, LevelsAreFifo, NodesLinked, LevelEnds, ArrivalOrder
<1>5. OccupancyExact /\ BestPricesExact
  BY DEF Init, OccupancyExact, BestPricesExact, Side
<1>6. NotCrossed
  BY <1>1, Zenon DEF NotCrossed
<1>7. VolumeLabelled(Nat)
  <2>1. [k \in Idx |-> 0] \in [Idx -> Nat]
    BY Zenon
  <2>2. \A pre : IsPrefixSum(pre)
    BY <1>1, Zenon DEF IsPrefixSum
  <2>. QED
    BY <2>1, <2>2, Zenon DEF VolumeLabelled
<1>. QED
  BY <1>2, <1>3, <1>4, <1>5, <1>6, <1>7 DEF IInv

\* A step that changes neither nodes, levels nor ids keeps what is said of them.
LEMMA BookUnchanged ==
  ASSUME IInv, UNCHANGED <<nodes, levels, ids>>, nextOrder' \in Nat, nextOrder <= nextOrder'
  PROVE  /\ Resting' = Resting
         /\ NodesAccountedFor' /\ LevelsAreFifo' /\ OccupancyExact' /\ BestPricesExact' /\ NotCrossed'
         /\ VolumeLabelled(Nat)'
<1> USE DEF IInv, nodes, levels, ids
<1>1. Resting' = Resting
  BY Zenon DEF Resting, Free
<1>2. NodesLinked' /\ LevelEnds'
  BY <1>1 DEF LevelsAreFifo, NodesLinked, LevelEnds, SameLevel, AtLevel
<1>3. ArrivalOrder'
  <2>1. nextOrder \in Nat /\ \A k \in Resting : sys[k] \in Nat
    BY RestingInIdx, Zenon DEF TypeOK
  <2>. QED
    BY <1>1, <2>1 DEF LevelsAreFifo, ArrivalOrder, SameLevel
<1>4. NodesAccountedFor'
  BY DEF NodesAccountedFor
<1>5. OccupancyExact' /\ BestPricesExact'
  BY Zenon DEF OccupancyExact, BestPricesExact
<1>6. NotCrossed'
  BY <1>1, Zenon DEF NotCrossed
<1>7. VolumeLabelled(Nat)'
  <2>1. PICK pre \in [Idx -> Nat] : IsPrefixSum(pre)
    BY Zenon DEF VolumeLabelled
  <2>2. IsPrefixSum(pre)'
    BY <1>1, <2>1, Zenon DEF IsPrefixSum, SameLevel
  <2>. QED
    BY <2>2, Zenon DEF VolumeLabelled
<1>. QED
  BY <1>1, <1>2, <1>3, <1>4, <1>5, <1>6, <1>7 DEF LevelsAreFifo

\* What LesserOf returns for two positive quantities.
LEMMA LesserOfIs ==
  ASSUME NEW a \in Nat, NEW b \in Nat, a > 0, b > 0
  PROVE  /\ LesserOf(a, b) \in Nat /\ LesserOf(a, b) > 0 /\ LesserOf(a, b) <= a /\ LesserOf(a, b) <= b
         /\ (LesserOf(a, b) = a \/ LesserOf(a, b) = b)
  BY DEF LesserOf

\* An iteration of the inner loop of match() keeps the invariant.
LEMMA FillKeepsIInv == IInv /\ Fill => IInv'
<1> SUFFICES ASSUME IInv, Fill PROVE IInv'
  BY Zenon
<1> USE DEF IInv
<1> DEFINE s == Opposite(order.side)
           n == head[s][best]
           f == LesserOf(order.remaining, qty[n])
<1>1. NodesLinked /\ ArrivalOrder /\ LevelEnds
  BY Zenon DEF LevelsAreFifo
<1>2. /\ pc = "fill" /\ best \in Tick /\ s \in Side /\ order.remaining \in Nat /\ order.remaining > 0
      /\ order.id < nextOrder /\ order.price \in Tick
      /\ \A k \in Resting : sys[k] < order.id
  BY Zenon DEF Fill, CallInv, TypeOK, Opposite, Side
<1>3. n \in Resting /\ n # 0 /\ side[n] = s /\ price[n] = best /\ prev[n] = 0
  BY <1>1, <1>2 DEF LevelEnds, CallInv, AtLevel
<1>4. n \in Idx /\ qty[n] \in Nat /\ qty[n] > 0 /\ gen[n] # 0 /\ next[n] \in Link
  BY <1>1, <1>3, RestingInIdx, Zenon DEF NodesLinked, TypeOK
<1>5. f \in Nat /\ f > 0 /\ f <= order.remaining /\ f <= qty[n] /\ (f = order.remaining \/ f = qty[n])
  <2> HIDE DEF n, s
  <2>. QED
    BY <1>2, <1>4, LesserOfIs, Zenon
<1>6. /\ order' = [order EXCEPT !.remaining = @ - f]
      /\ qty' = [qty EXCEPT ![n] = @ - f]
      /\ volume' = [volume EXCEPT ![s][best] = @ - f]
      /\ next' = next /\ price' = price /\ side' = side /\ gen' = gen /\ sys' = sys
      /\ nextOrder' = nextOrder /\ issued' = issued /\ status' = status
  BY Zenon DEF Fill
<1>7. IF head'[s][best] # 0 /\ order'.remaining > 0
      THEN pc' = pc /\ best' = best
      ELSE pc' = "match" /\ best' = 0
  BY Zenon DEF Fill
<1> HIDE DEF s, n, f
<1>8. /\ order' \in [id : Nat, side : Side, price : Nat, quantity : Nat, remaining : Nat]
      /\ order'.remaining = order.remaining - f /\ order'.side = order.side /\ order'.id = order.id
      /\ order'.price = order.price /\ order'.quantity = order.quantity
  <2>1. order \in [id : Nat, side : Side, price : Nat, quantity : Nat, remaining : Nat]
    BY Zenon DEF TypeOK
  <2>2. order.remaining - f \in Nat
    BY <1>2, <1>5
  <2>. QED
    BY <1>6, <2>1, <2>2, Zenon
<1>9. order'.remaining <= order'.quantity
  <2>1. order.remaining \in Nat /\ order.quantity \in Nat
    BY Zenon DEF TypeOK
  <2>2. order.remaining <= order.quantity
    BY <1>2, Zenon DEF CallInv
  <2>. QED
    BY <1>2, <1>5, <1>8, <2>1, <2>2
<1>10. qty' \in [Idx -> Nat] /\ volume' \in [Side -> [Tick -> Int]]
  <2>1. qty[n] - f \in Nat
    BY <1>4, <1>5
  <2>a. qty \in [Idx -> Nat] /\ volume \in [Side -> [Tick -> Int]]
    BY Zenon DEF TypeOK
  <2>2. volume[s][best] - f \in Int
    BY <1>2, <1>5, <2>a
  <2>3. qty' \in [Idx -> Nat]
    BY <1>6, <2>1, <2>a, Zenon
  <2>4. volume' \in [Side -> [Tick -> Int]]
    BY <1>6, <2>2, <2>a, Zenon
  <2>. QED
    BY <2>3, <2>4, Zenon
<1>11. CASE f = qty[n]
  <2>1. /\ head' = [head EXCEPT ![s][best] = next[n]]
        /\ releaseId(n)
        /\ IF next[n] # 0
           THEN prev' = [prev EXCEPT ![next[n]] = 0] /\ tail' = tail /\ KeepOccupancy
           ELSE tail' = [tail EXCEPT ![s][best] = 0] /\ Vacate(side[n], best) /\ prev' = prev
    BY <1>11, Zenon DEF Fill, s, n, f
  <2>2. /\ Resting' = Resting \ {n} /\ NodesAccountedFor' /\ freeStack' \in Seq(Handle)
        /\ nextAvailableIdx' = nextAvailableIdx
    BY <1>3, <1>4, <2>1, ReleaseId, Zenon
  <2>3. volume'[s][best] = volume[s][best] - qty[n] /\ volume[s][best] \in Int
    <3>1. volume \in [Side -> [Tick -> Int]]
      BY Zenon DEF TypeOK
    <3>2. volume[s][best] \in Int /\ volume'[s][best] = volume[s][best] - f
      BY <1>2, <1>6, <3>1, Zenon
    <3>. QED
      BY <1>11, <3>2, Zenon
  <2>4. next[n] = 0 <=> volume'[s][best] = 0
    <3>1. PICK pre \in [Idx -> Nat] : IsPrefixSum(pre)
      BY Zenon DEF VolumeLabelled
    <3>2. CASE next[n] = 0
      <4>1. volume[s][best] = 0 + qty[n]
        BY <1>3, <3>1, <3>2, Zenon DEF IsPrefixSum
      <4>. QED
        BY <1>4, <2>3, <3>2, <4>1
    <3>3. CASE next[n] # 0
      <4>1. PICK t : t = tail[s][best]
        BY Zenon
      <4>2. t \in Resting /\ side[t] = s /\ price[t] = best /\ next[t] = 0
        BY <1>1, <1>2, <1>3, <4>1 DEF LevelEnds, AtLevel, n
      <4>3. sys[n] < sys[t]
        <5>1. ~(sys[t] < sys[n])
          BY <1>1, <1>3, <4>2 DEF ArrivalOrder, SameLevel
        <5>2. sys[t] # sys[n] /\ sys[t] \in Nat /\ sys[n] \in Nat
          BY <1>1, <1>3, <3>3, <4>2, RestingInIdx, Zenon DEF ArrivalOrder, TypeOK
        <5>. QED
          BY <5>1, <5>2
      <4>4. pre[n] + qty[n] <= pre[t] /\ volume[s][best] = pre[t] + qty[t]
        BY <1>3, <3>1, <4>2, <4>3 DEF IsPrefixSum, SameLevel
      <4>5. qty[t] \in Nat /\ qty[t] > 0 /\ pre[t] \in Nat /\ pre[n] \in Nat
        BY <1>1, <1>4, <4>2, RestingInIdx, Zenon DEF NodesLinked, TypeOK
      <4>. QED
        BY <1>4, <2>3, <3>3, <4>4, <4>5
    <3>. QED
      BY <3>2, <3>3, Zenon
  <2>5. Unlinked(n)
    <3>1. \A k \in Resting \ {n} : qty'[k] = qty[k]
      BY <1>4, <1>6, RestingInIdx DEF TypeOK
    <3>2. IF volume'[side[n]][price[n]] = 0 THEN Vacate(side[n], price[n]) ELSE KeepOccupancy
      BY <1>3, <2>1, <2>4, Zenon
    <3>. QED
      BY <1>3, <1>6, <1>11, <2>1, <2>2, <3>1, <3>2 DEF Unlinked
  <2>6. /\ LevelsAreFifo' /\ VolumeLabelled(Nat)' /\ OccupancyExact' /\ BestPricesExact'
        /\ mask' \in [Side -> SUBSET Tick] /\ minAsk' \in 1 .. MAX_TICKS /\ maxBid' \in 0 .. MAX_TICKS - 1
    BY <1>3, <2>5, UnlinkKeepsFifo, UnlinkKeepsVolumes, UnlinkKeepsOccupancy
  <2>7. NotCrossed'
    BY <1>6, <2>2, Zenon DEF NotCrossed
  <2>8. /\ head' \in [Side -> [Tick -> Link]] /\ tail' \in [Side -> [Tick -> Link]]
        /\ prev' \in [Idx -> Link]
    <3>1. head \in [Side -> [Tick -> Link]] /\ tail \in [Side -> [Tick -> Link]] /\ prev \in [Idx -> Link] /\ 0 \in Link
      BY Zenon DEF TypeOK, Link
    <3>2. head' \in [Side -> [Tick -> Link]]
      BY <1>2, <1>4, <2>1, <3>1, Zenon
    <3>3. tail' \in [Side -> [Tick -> Link]]
      <4>1. CASE next[n] = 0
        <5>1. tail' = [tail EXCEPT ![s][best] = 0]
          BY <2>1, <4>1, Zenon
        <5>. QED
          BY <1>2, <3>1, <5>1, Zenon
      <4>2. CASE next[n] # 0
        BY <2>1, <3>1, <4>2, Zenon
      <4>. QED
        BY <4>1, <4>2, Zenon
    <3>4. prev' \in [Idx -> Link]
      BY <2>1, <3>1, Zenon
    <3>. QED
      BY <3>2, <3>3, <3>4
  <2>9. TypeOK'
    <3>1. pc' \in {"idle", "match", "fill"} /\ best' \in Nat
      BY <1>7 DEF TypeOK
    <3>. QED
      BY <1>6, <1>8, <1>10, <2>2, <2>6, <2>8, <3>1, Zenon DEF TypeOK
  <2>10. CallInv'
    <3>1. /\ pc' # "idle" /\ order'.price \in Tick /\ 0 < order'.id /\ order'.id < nextOrder'
          /\ \A k \in Resting' : sys'[k] < order'.id
      BY <1>2, <1>6, <1>7, <1>8, <2>2, Zenon DEF CallInv
    <3>2. ASSUME pc' = "fill"
          PROVE  /\ order'.remaining > 0 /\ best' \in Tick /\ head'[Opposite(order'.side)][best'] # 0
                 /\ IF order'.side = "Buy" THEN best' = minAsk' /\ best' <= order'.price
                                           ELSE best' = maxBid' /\ best' >= order'.price
      <4>1. head'[s][best] # 0 /\ order'.remaining > 0 /\ best' = best
        BY <1>7, <3>2, Zenon
      <4>2. next[n] # 0
        BY <1>2, <2>1, <4>1 DEF TypeOK
      <4>3. minAsk' = minAsk /\ maxBid' = maxBid
        BY <2>1, <4>2, Zenon DEF KeepOccupancy
      <4>. QED
        BY <1>2, <1>8, <4>1, <4>3 DEF CallInv, s
    <3>. QED
      BY <1>9, <3>1, <3>2, Zenon DEF CallInv
  <2>. QED
    BY <2>2, <2>6, <2>7, <2>9, <2>10
<1>12. CASE f # qty[n]
  <2>1. head' = head /\ tail' = tail /\ prev' = prev /\ mask' = mask /\ minAsk' = minAsk /\ maxBid' = maxBid
        /\ freeStack' = freeStack /\ nextAvailableIdx' = nextAvailableIdx
    BY <1>12, Zenon DEF Fill, ids, s, n, f
  <2>2. Resting' = Resting /\ NodesAccountedFor'
    BY <2>1 DEF Resting, Free, NodesAccountedFor
  <2>3. Reduced(n, f)
    BY <1>3, <1>4, <1>5, <1>6, <1>12, <2>1, <2>2 DEF Reduced
  <2>4. LevelsAreFifo' /\ OccupancyExact' /\ VolumeLabelled(Nat)'
    BY <2>3, ReduceKeepsBook, Zenon
  <2>5. BestPricesExact' /\ NotCrossed'
    BY <1>6, <2>1, <2>2, Zenon DEF BestPricesExact, NotCrossed
  <2>6. order'.remaining = 0 /\ pc' = "match" /\ best' = 0
    BY <1>2, <1>4, <1>5, <1>7, <1>8, <1>12
  <2>7. TypeOK'
    BY <1>6, <1>8, <1>10, <2>1, <2>6, Zenon DEF TypeOK
  <2>8. CallInv'
    BY <1>2, <1>6, <1>8, <1>9, <2>2, <2>6 DEF CallInv
  <2>. QED
    BY <2>2, <2>4, <2>5, <2>7, <2>8
<1>. QED
  BY <1>11, <1>12, Zenon

\* cancelOrder of a resting order keeps the invariant.
LEMMA CancelKeepsIInv ==
  ASSUME IInv, NEW c \in issued, ~IsStale(c), cancelOrder(c.id, c.handle)
  PROVE  IInv'
<1> USE DEF IInv
<1> DEFINE i == c.handle.index
<1>1. NodesLinked /\ c.id \in Nat /\ c.handle \in Handle
  BY Zenon DEF LevelsAreFifo, TypeOK
<1>2. /\ pc = "idle" /\ gen[i] = c.handle.gen /\ releaseId(i)
      /\ status' = Status(c.id, c.handle, 0, "Cancelled")
      /\ price' = price /\ qty' = qty /\ side' = side /\ gen' = gen /\ sys' = sys
      /\ pc' = pc /\ order' = order /\ best' = best /\ nextOrder' = nextOrder /\ issued' = issued
      /\ volume' = [volume EXCEPT ![side[i]][price[i]] = @ - qty[i]]
      /\ IF volume'[side[i]][price[i]] = 0 THEN Vacate(side[i], price[i]) ELSE KeepOccupancy
  BY Zenon DEF cancelOrder, call
<1>3. i \in Resting /\ i \in Idx
  BY <1>2, RestingInIdx, Zenon DEF IsStale
<1>4. /\ side[i] \in Side /\ price[i] \in Tick /\ qty[i] \in Nat /\ gen[i] # 0
      /\ next[i] \in Link /\ prev[i] \in Link
  BY <1>1, <1>3 DEF TypeOK, NodesLinked
<1>5. /\ Resting' = Resting \ {i} /\ NodesAccountedFor' /\ freeStack' \in Seq(Handle)
      /\ nextAvailableIdx' = nextAvailableIdx
  BY <1>2, <1>3, <1>4, ReleaseId, Zenon
<1>6. /\ next' = IF prev[i] # 0 THEN [next EXCEPT ![prev[i]] = next[i]] ELSE next
      /\ head' = IF prev[i] = 0 THEN [head EXCEPT ![side[i]][price[i]] = next[i]] ELSE head
      /\ prev' = IF next[i] # 0 THEN [prev EXCEPT ![next[i]] = prev[i]] ELSE prev
      /\ tail' = IF next[i] = 0 THEN [tail EXCEPT ![side[i]][price[i]] = prev[i]] ELSE tail
  BY Zenon DEF cancelOrder, UnlinkFromPrev, UnlinkFromNext
<1> HIDE DEF i
<1>7. Unlinked(i)
  BY <1>2, <1>5, <1>6, Zenon DEF Unlinked
<1>8. /\ LevelsAreFifo' /\ VolumeLabelled(Nat)' /\ OccupancyExact' /\ BestPricesExact'
      /\ mask' \in [Side -> SUBSET Tick] /\ minAsk' \in 1 .. MAX_TICKS /\ maxBid' \in 0 .. MAX_TICKS - 1
  BY <1>3, <1>7, UnlinkKeepsFifo, UnlinkKeepsVolumes, UnlinkKeepsOccupancy
<1>9. NotCrossed'
  BY <1>2, <1>5, Zenon DEF NotCrossed
<1>10. CallInv'
  BY <1>2, Zenon DEF CallInv
<1>11. /\ head' \in [Side -> [Tick -> Link]] /\ tail' \in [Side -> [Tick -> Link]]
       /\ next' \in [Idx -> Link] /\ prev' \in [Idx -> Link]
  <2>1. /\ head \in [Side -> [Tick -> Link]] /\ tail \in [Side -> [Tick -> Link]]
        /\ next \in [Idx -> Link] /\ prev \in [Idx -> Link]
    BY Zenon DEF TypeOK
  <2>2. head' \in [Side -> [Tick -> Link]]
    BY <1>4, <1>6, <2>1, Zenon
  <2>3. tail' \in [Side -> [Tick -> Link]]
    BY <1>4, <1>6, <2>1, Zenon
  <2>4. next' \in [Idx -> Link] /\ prev' \in [Idx -> Link]
    BY <1>4, <1>6, <2>1, Zenon
  <2>. QED
    BY <2>2, <2>3, <2>4, Zenon
<1>12. volume' \in [Side -> [Tick -> Int]]
  <2>1. volume \in [Side -> [Tick -> Int]]
    BY Zenon DEF TypeOK
  <2>. QED
    BY <1>2, <1>4, <2>1
<1>13. status' \in [id : Nat, handle : Handle \cup {InvalidId}, fill : Nat,
                    state : {"None", "Full", "Accepted", "Partial", "InternalError", "Rejected", "Cancelled"}]
  BY <1>1, <1>2, Zenon DEF Status
<1>14. TypeOK'
  BY <1>2, <1>5, <1>8, <1>11, <1>12, <1>13, Zenon DEF TypeOK
<1>. QED
  BY <1>5, <1>8, <1>9, <1>10, <1>14, Zenon

\* restOrder keeps the invariant.
LEMMA RestKeepsIInv == IInv /\ restOrder => IInv'
<1> SUFFICES ASSUME IInv, restOrder PROVE IInv'
  BY Zenon
<1> USE DEF IInv
<1> DEFINE id == AcquiredId
           i == id.index
           s == order.side
           p == order.price
<1>1. /\ NodesAccountedFor' /\ LevelsAreFifo' /\ OccupancyExact' /\ BestPricesExact' /\ NotCrossed'
      /\ VolumeLabelled(Nat)'
      /\ mask' \in [Side -> SUBSET Tick] /\ minAsk' \in 1 .. MAX_TICKS /\ maxBid' \in 0 .. MAX_TICKS - 1
      /\ freeStack' \in Seq(Handle) /\ nextAvailableIdx' \in 1 .. MAX_BOOK_ORDERS
      /\ id \in Handle
  BY RestKeepsBook, Zenon
<1>2. i \in Idx /\ id.gen \in 0 .. MaxGen /\ i \in Link
  BY <1>1, MaxGenAssumption DEF Handle, Gen, Link
<1>3. /\ s \in Side /\ p \in Tick /\ order.remaining \in Nat /\ order.id \in Nat /\ order.quantity \in Nat
      /\ order.remaining <= order.quantity /\ pc = "match"
  BY Zenon DEF restOrder, MatchDone, CallInv, TypeOK
<1>4. p \in 0 .. MAX_TICKS - 1
  BY <1>3, BookAssumption DEF Tick
<1>5. tail[s][p] \in Link
  BY <1>3 DEF TypeOK
<1>6. /\ gen' = [gen EXCEPT ![i] = id.gen]
      /\ sys' = [sys EXCEPT ![i] = order.id]
      /\ price' = [price EXCEPT ![i] = p]
      /\ qty' = [qty EXCEPT ![i] = order.remaining]
      /\ side' = [side EXCEPT ![i] = s]
      /\ prev' = [prev EXCEPT ![i] = tail[s][p]]
      /\ next' = [k \in Idx |-> IF k = i THEN 0 ELSE IF k = tail[s][p] THEN i ELSE next[k]]
      /\ head' = IF tail[s][p] # 0 THEN head ELSE [head EXCEPT ![s][p] = i]
      /\ tail' = [tail EXCEPT ![s][p] = i]
      /\ volume' = [volume EXCEPT ![s][p] = @ + order.remaining]
      /\ issued' = issued \cup {[id |-> order.id, handle |-> id]}
      /\ pc' = "idle" /\ order' = NoOrder /\ best' = best /\ nextOrder' = nextOrder
  BY Zenon DEF restOrder, RestVolume, Return
<1>7. \E st \in {"Accepted", "Partial"} : status' = Status(order.id, id, order.quantity - order.remaining, st)
  BY Zenon DEF restOrder
<1> HIDE DEF id, i, s, p
<1>8. gen' \in [Idx -> 0 .. MaxGen] /\ sys' \in [Idx -> Nat] /\ price' \in [Idx -> 0 .. MAX_TICKS - 1]
      /\ qty' \in [Idx -> Nat] /\ side' \in [Idx -> Side]
  <2>1. gen \in [Idx -> 0 .. MaxGen] /\ sys \in [Idx -> Nat] /\ price \in [Idx -> 0 .. MAX_TICKS - 1]
        /\ qty \in [Idx -> Nat] /\ side \in [Idx -> Side]
    BY Zenon DEF TypeOK
  <2>. QED
    BY <1>2, <1>3, <1>4, <1>6, <2>1, Zenon
<1>9. prev' \in [Idx -> Link] /\ next' \in [Idx -> Link]
  <2>1. prev \in [Idx -> Link] /\ next \in [Idx -> Link] /\ 0 \in Link
    BY Zenon DEF TypeOK, Link
  <2>2. prev' \in [Idx -> Link]
    BY <1>2, <1>5, <1>6, <2>1, Zenon
  <2>3. next' \in [Idx -> Link]
    BY <1>2, <1>6, <2>1, Zenon
  <2>. QED
    BY <2>2, <2>3, Zenon
<1>10. head' \in [Side -> [Tick -> Link]] /\ tail' \in [Side -> [Tick -> Link]]
  <2>1. head \in [Side -> [Tick -> Link]] /\ tail \in [Side -> [Tick -> Link]]
    BY Zenon DEF TypeOK
  <2>2. tail' \in [Side -> [Tick -> Link]]
    BY <1>2, <1>3, <1>6, <2>1, Zenon
  <2>3. [head EXCEPT ![s][p] = i] \in [Side -> [Tick -> Link]]
    BY <1>2, <1>3, <2>1, Zenon
  <2>. QED
    BY <1>6, <2>1, <2>2, <2>3, Zenon
<1>11. volume' \in [Side -> [Tick -> Int]]
  <2>1. volume \in [Side -> [Tick -> Int]]
    BY Zenon DEF TypeOK
  <2>. QED
    BY <1>3, <1>6, <2>1
<1>12. issued' \subseteq [id : Nat, handle : Handle]
  <2>1. issued \subseteq [id : Nat, handle : Handle]
    BY Zenon DEF TypeOK
  <2>. QED
    BY <1>1, <1>3, <1>6, <2>1
<1>13. status' \in [id : Nat, handle : Handle \cup {InvalidId}, fill : Nat,
                    state : {"None", "Full", "Accepted", "Partial", "InternalError", "Rejected", "Cancelled"}]
  <2>1. order.quantity - order.remaining \in Nat
    BY <1>3
  <2>. QED
    BY <1>1, <1>3, <1>7, <2>1 DEF Status
<1>14. order' \in [id : Nat, side : Side, price : Nat, quantity : Nat, remaining : Nat]
  BY <1>6, Zenon DEF NoOrder, Side
<1>15. best' \in Nat /\ nextOrder' \in Nat \ {0} /\ pc' \in {"idle", "match", "fill"}
  BY <1>6, Zenon DEF TypeOK
<1>16. TypeOK'
  BY <1>1, <1>8, <1>9, <1>10, <1>11, <1>12, <1>13, <1>14, <1>15, Zenon DEF TypeOK
<1>17. CallInv'
  BY <1>6, Zenon DEF CallInv
<1>. QED
  BY <1>1, <1>16, <1>17, Zenon

\* Every step of the book keeps the invariant, if it cancels no stale handle.
LEMMA NextKeepsIInv == IInv /\ [LawfulNext]_vars => IInv'
<1> SUFFICES ASSUME IInv, [LawfulNext]_vars PROVE IInv'
  BY Zenon
<1> USE DEF IInv
<1>0. nextOrder \in Nat /\ best \in Nat
  BY Zenon DEF TypeOK
<1>1. CASE AddOutOfBounds
  <2>1. /\ UNCHANGED <<nodes, levels, ids, pc, order, best, issued>>
        /\ nextOrder' = nextOrder + 1 /\ status' = NoStatus /\ pc = "idle"
    BY <1>1, Zenon DEF AddOutOfBounds
  <2>2. /\ NodesAccountedFor' /\ LevelsAreFifo' /\ OccupancyExact' /\ BestPricesExact' /\ NotCrossed'
        /\ VolumeLabelled(Nat)'
    BY <1>0, <2>1, BookUnchanged
  <2>3. TypeOK'
    <3>1. nextOrder' \in Nat \ {0}
      BY <1>0, <2>1
    <3>2. status' \in [id : Nat, handle : Handle \cup {InvalidId}, fill : Nat,
                      state : {"None", "Full", "Accepted", "Partial", "InternalError", "Rejected", "Cancelled"}]
      BY <2>1, Zenon DEF NoStatus
    <3>. QED
      BY <2>1, <3>1, <3>2, Zenon DEF TypeOK, nodes, levels, ids
  <2>4. CallInv'
    BY <2>1, Zenon DEF CallInv
  <2>. QED
    BY <2>2, <2>3, <2>4, Zenon
<1>2. ASSUME NEW s \in Side, NEW p \in Tick, NEW q \in 0 .. MAX_QTY, Add(s, p, q)
      PROVE  IInv'
  <2>1. /\ UNCHANGED <<nodes, levels, ids, best, issued>>
        /\ nextOrder' = nextOrder + 1 /\ status' = NoStatus /\ pc = "idle" /\ pc' = "match"
        /\ order' = [id |-> nextOrder, side |-> s, price |-> p, quantity |-> q, remaining |-> q]
    BY <1>2, Zenon DEF Add
  <2>2. /\ NodesAccountedFor' /\ LevelsAreFifo' /\ OccupancyExact' /\ BestPricesExact' /\ NotCrossed'
        /\ VolumeLabelled(Nat)' /\ Resting' = Resting
    BY <1>0, <2>1, BookUnchanged
  <2>3. order' \in [id : Nat, side : Side, price : Nat, quantity : Nat, remaining : Nat]
    BY <1>0, <2>1, BookAssumption DEF Tick
  <2>4. TypeOK'
    <3>1. pc' \in {"idle", "match", "fill"} /\ nextOrder' \in Nat \ {0}
      BY <1>0, <2>1
    <3>2. status' \in [id : Nat, handle : Handle \cup {InvalidId}, fill : Nat,
                      state : {"None", "Full", "Accepted", "Partial", "InternalError", "Rejected", "Cancelled"}]
      BY <2>1, Zenon DEF NoStatus
    <3>. QED
      BY <2>1, <2>3, <3>1, <3>2, Zenon DEF TypeOK, nodes, levels, ids
  <2>5. CallInv'
    <3>1. nextOrder > 0 /\ \A k \in Resting : sys[k] < nextOrder
      BY <1>0 DEF TypeOK, LevelsAreFifo, ArrivalOrder
    <3>2. order'.id = nextOrder /\ order'.price = p /\ order'.remaining = q /\ order'.quantity = q /\ q \in Nat
      BY <2>1, BookAssumption
    <3>. QED
      BY <1>0, <2>1, <2>2, <3>1, <3>2 DEF CallInv, nodes
  <2>. QED
    BY <2>2, <2>4, <2>5, Zenon
<1>3. CASE MatchBest
  <2>1. /\ UNCHANGED <<nodes, levels, ids, order, nextOrder, issued, status>>
        /\ pc = "match" /\ pc' = "fill" /\ best' = CrossingPrice /\ CrossingPrice # 0 /\ order.remaining > 0
    BY <1>3, Zenon DEF MatchBest, MatchGoesOn
  <2>2. /\ NodesAccountedFor' /\ LevelsAreFifo' /\ OccupancyExact' /\ BestPricesExact' /\ NotCrossed'
        /\ VolumeLabelled(Nat)' /\ Resting' = Resting
    BY <1>0, <2>1, BookUnchanged
  <2>3. order.price \in Tick
    BY <2>1, Zenon DEF CallInv
  <2>4. /\ order.side = "Buy" => best' = minAsk /\ minAsk <= order.price
        /\ order.side # "Buy" => best' = maxBid /\ maxBid >= order.price
    BY <2>1, <2>3, CrossingPriceIsBest, Zenon
  <2>5. /\ order.side = "Buy" => best' \in mask["Sell"]
        /\ order.side # "Buy" => best' \in mask["Buy"]
    <3>1. order.price < MAX_TICKS /\ order.price \in Nat /\ minAsk \in Nat
      BY <2>3, BookAssumption DEF TypeOK, Tick
    <3>. QED
      BY <2>1, <2>4, <3>1, BookAssumption DEF BestPricesExact
  <2>6. best' \in mask[Opposite(order.side)] /\ Opposite(order.side) \in Side
    BY <2>5, Zenon DEF Opposite, Side
  <2>7. best' \in Tick /\ head[Opposite(order.side)][best'] # 0
    BY <2>6, Zenon DEF TypeOK, OccupancyExact
  <2>8. best' \in Nat
    BY <2>7, BookAssumption DEF Tick
  <2>9. TypeOK'
    BY <2>1, <2>8, Zenon DEF TypeOK, nodes, levels, ids
  <2>10. CallInv'
    BY <2>1, <2>2, <2>4, <2>7, Zenon DEF CallInv, nodes, levels
  <2>. QED
    BY <2>2, <2>9, <2>10, Zenon
<1>4. CASE Fill
  BY <1>4, FillKeepsIInv
<1>5. CASE PostFull \/ BookFull
  <2>1. /\ UNCHANGED <<nodes, levels, ids, issued>>
        /\ pc' = "idle" /\ order' = NoOrder /\ best' = best /\ nextOrder' = nextOrder
        /\ \E st \in {"Full", "InternalError"}, q \in {0, order.quantity} :
              status' = Status(order.id, InvalidId, q, st)
    BY <1>5, Zenon DEF PostFull, BookFull, Return
  <2>2. /\ NodesAccountedFor' /\ LevelsAreFifo' /\ OccupancyExact' /\ BestPricesExact' /\ NotCrossed'
        /\ VolumeLabelled(Nat)' /\ Resting' = Resting
    BY <1>0, <2>1, BookUnchanged
  <2>3. status' \in [id : Nat, handle : Handle \cup {InvalidId}, fill : Nat,
                    state : {"None", "Full", "Accepted", "Partial", "InternalError", "Rejected", "Cancelled"}]
    <3>1. order.id \in Nat /\ order.quantity \in Nat
      BY Zenon DEF TypeOK
    <3>. QED
      BY <2>1, <3>1 DEF Status
  <2>4. TypeOK'
    BY <1>0, <2>1, <2>3 DEF TypeOK, nodes, levels, ids, NoOrder, Side
  <2>5. CallInv'
    BY <2>1, Zenon DEF CallInv
  <2>. QED
    BY <2>2, <2>4, <2>5, Zenon
<1>6. CASE restOrder
  BY <1>6, RestKeepsIInv, Zenon
<1>7. ASSUME NEW c \in issued, ~IsStale(c), RejectCancel(c.id, c.handle)
      PROVE  IInv'
  <2>1. UNCHANGED <<nodes, levels, ids, call, issued>> /\ status' = Status(c.id, c.handle, 0, "Rejected")
    BY <1>7, Zenon DEF RejectCancel
  <2>2. /\ NodesAccountedFor' /\ LevelsAreFifo' /\ OccupancyExact' /\ BestPricesExact' /\ NotCrossed'
        /\ VolumeLabelled(Nat)' /\ Resting' = Resting
    BY <1>0, <2>1, BookUnchanged DEF call
  <2>3. status' \in [id : Nat, handle : Handle \cup {InvalidId}, fill : Nat,
                    state : {"None", "Full", "Accepted", "Partial", "InternalError", "Rejected", "Cancelled"}]
    <3>1. c.id \in Nat /\ c.handle \in Handle
      BY Zenon DEF TypeOK
    <3>. QED
      BY <2>1, <3>1, Zenon DEF Status
  <2>4. TypeOK'
    BY <2>1, <2>3, Zenon DEF TypeOK, nodes, levels, ids, call
  <2>5. CallInv'
    BY <2>1, <2>2, Zenon DEF CallInv, nodes, levels, call
  <2>. QED
    BY <2>2, <2>4, <2>5, Zenon
<1>8. ASSUME NEW c \in issued, ~IsStale(c), cancelOrder(c.id, c.handle)
      PROVE  IInv'
  BY <1>8, CancelKeepsIInv, Zenon
<1>9. CASE UNCHANGED vars
  <2>1. UNCHANGED <<nodes, levels, ids, call, issued, status>>
    BY <1>9, Zenon DEF vars
  <2>2. /\ NodesAccountedFor' /\ LevelsAreFifo' /\ OccupancyExact' /\ BestPricesExact' /\ NotCrossed'
        /\ VolumeLabelled(Nat)' /\ Resting' = Resting
    BY <1>0, <2>1, BookUnchanged DEF call
  <2>3. TypeOK' /\ CallInv'
    BY <2>1, <2>2 DEF TypeOK, CallInv, nodes, levels, ids, call
  <2>. QED
    BY <2>2, <2>3, Zenon
<1>. QED
  BY <1>1, <1>2, <1>3, <1>4, <1>5, <1>6, <1>7, <1>8, <1>9 DEF LawfulNext, AddNext, CancelNext

\* The inductive invariant holds until a stale handle is cancelled.
THEOREM Invariance == Spec => [](stale \/ IInv)
<1>1. Init => stale \/ IInv
  BY InitEstablishes, Zenon
<1>2. (stale \/ IInv) /\ [Next]_vars => (stale \/ IInv)'
  BY LawfulUntilStale, NextKeepsIInv, Zenon
<1>. QED
  BY <1>1, <1>2, PTL DEF Spec

\* Until a stale handle is cancelled, no node is free twice, or free and in a
\* list, so none is given to two orders.
THEOREM NodesNotShared == Spec => [](stale \/ NodesAccountedFor)
<1>1. stale \/ IInv => stale \/ NodesAccountedFor
  BY Zenon DEF IInv
<1>. QED
  BY <1>1, Invariance, PTL

\* Until a stale handle is cancelled, the book is never crossed: match() only
\* stops when nothing can trade.
THEOREM NeverCrossed == Spec => [](stale \/ NotCrossed)
<1>1. stale \/ IInv => stale \/ NotCrossed
  BY Zenon DEF IInv
<1>. QED
  BY <1>1, Invariance, PTL

\* A fill only reduces the order that has price-time priority.
LEMMA FillHasPriority ==
  ASSUME IInv, Fill, NEW i \in Resting, qty'[i] < qty[i]
  PROVE  /\ side[i] = Opposite(order.side)
         /\ IF order.side = "Buy" THEN price[i] <= order.price ELSE price[i] >= order.price
         /\ \A k \in Resting : side[k] = side[i] /\ k # i =>
              \/ price[k] = price[i] /\ sys[i] < sys[k]
              \/ IF side[i] = "Sell" THEN price[i] < price[k] ELSE price[k] < price[i]
<1> USE DEF IInv
<1> DEFINE s == Opposite(order.side)
           n == head[s][best]
<1>1. NodesLinked /\ ArrivalOrder /\ LevelEnds
  BY Zenon DEF LevelsAreFifo
<1>2. i \in Idx /\ qty[i] \in Nat /\ qty \in [Idx -> Nat]
  BY RestingInIdx, NodeTypes, Zenon
<1>3. pc = "fill"
  BY Zenon DEF Fill
<1>4. i = n
  <2>1. qty' = [qty EXCEPT ![n] = @ - LesserOf(order.remaining, qty[n])]
    BY <1>3, Zenon DEF Fill
  <2> HIDE DEF n
  <2>. QED
    BY <1>2, <2>1
<1>5. best \in Tick /\ s \in Side /\ n # 0
  BY <1>3, Zenon DEF CallInv, Opposite, Side
<1>6. side[i] = s /\ price[i] = best /\ prev[i] = 0
  BY <1>1, <1>4, <1>5 DEF LevelEnds, AtLevel
<1>7. /\ order.side = "Buy" => best = minAsk /\ best <= order.price
      /\ order.side # "Buy" => best = maxBid /\ best >= order.price
  BY <1>3, Zenon DEF CallInv
<1> HIDE DEF n
<1>8. ASSUME NEW k \in Resting, side[k] = side[i], k # i
      PROVE  \/ price[k] = price[i] /\ sys[i] < sys[k]
             \/ IF side[i] = "Sell" THEN price[i] < price[k] ELSE price[k] < price[i]
  <2>1. k \in Idx /\ price[k] \in Tick /\ side[k] \in Side /\ price[k] \in mask[side[k]]
    BY <1>1, RestingInIdx, Zenon DEF NodesLinked, OccupancyExact, TypeOK
  <2>2. sys[k] \in Nat /\ sys[i] \in Nat /\ sys[i] # sys[k]
    BY <1>1, <1>2, <1>8, <2>1 DEF ArrivalOrder, TypeOK
  <2>3. CASE price[k] = price[i]
    <3>1. ~(sys[k] < sys[i])
      BY <1>1, <1>6, <1>8, <2>3 DEF ArrivalOrder, SameLevel
    <3>. QED
      BY <2>2, <2>3, <3>1
  <2>4. CASE price[k] # price[i]
    <3>1. price[k] \in Nat /\ best \in Nat
      BY <1>5, <2>1, TickIsNat, Zenon
    <3>2. CASE order.side = "Buy"
      BY <1>6, <1>7, <1>8, <2>1, <2>4, <3>1, <3>2 DEF Opposite, BestPricesExact
    <3>3. CASE order.side # "Buy"
      BY <1>6, <1>7, <1>8, <2>1, <2>4, <3>1, <3>3 DEF Opposite, BestPricesExact
    <3>. QED
      BY <3>2, <3>3, Zenon
  <2>. QED
    BY <2>3, <2>4, Zenon
<1>. QED
  BY <1>6, <1>7, <1>8, Zenon

\* Until a stale handle is cancelled, match() respects price-time priority,
\* whatever was added and cancelled before.
THEOREM Priority == Spec => PriceTimePriority
<1>1. ASSUME IInv, [Next]_vars, NEW i \in Resting, pc = "fill", qty'[i] < qty[i]
      PROVE  Fill
  <2>1. i \in Idx /\ qty[i] \in Nat
    BY <1>1, RestingInIdx, NodeTypes, Zenon DEF IInv
  <2>2. ~ UNCHANGED vars
    BY <1>1, <2>1 DEF vars, nodes
  <2>. QED
    BY <1>1, <2>2, Zenon DEF Next, AddNext, AddOutOfBounds, Add, MatchBest, MatchGoesOn, PostFull, BookFull, restOrder,
                MatchDone, CancelNext, RejectCancel, cancelOrder
<1>2. (stale \/ IInv) /\ [Next]_vars =>
        \A i \in Resting :
          ~stale /\ pc = "fill" /\ qty'[i] < qty[i] =>
            /\ side[i] = Opposite(order.side)
            /\ IF order.side = "Buy" THEN price[i] <= order.price ELSE price[i] >= order.price
            /\ \A k \in Resting : side[k] = side[i] /\ k # i =>
                  \/ price[k] = price[i] /\ sys[i] < sys[k]
                  \/ IF side[i] = "Sell" THEN price[i] < price[k] ELSE price[k] < price[i]
  BY <1>1, FillHasPriority, Zenon
<1>. QED
  BY <1>2, Invariance, PTL DEF Spec, PriceTimePriority
-----------------------------------------------------------------------------
(* The posted handles, and the whole invariant of the book *)

\* A step that adds no order and changes no node's owner keeps the handles right.
LEMMA HandlesStay ==
  ASSUME HandlesNameTheirOrder, TypeOK, issued' = issued, sys' = sys, gen' = gen,
         Resting' \subseteq Resting, nextOrder' \in {nextOrder, nextOrder + 1},
         pc' # "idle" => \A c \in issued : c.id < order'.id
  PROVE  HandlesNameTheirOrder'
<1>1. nextOrder \in Nat /\ \A c \in issued : c.id \in Nat
  BY Zenon DEF TypeOK
<1>. QED
  BY <1>1 DEF HandlesNameTheirOrder, Make

\* restOrder posts the handle under which the node now rests.
LEMMA RestNamesItsHandle ==
  ASSUME IInv, HandlesNameTheirOrder, restOrder
  PROVE  HandlesNameTheirOrder'
<1> USE DEF IInv
<1> DEFINE i == AcquiredId.index
<1>1. /\ AcquiredId \in Handle /\ i \notin Resting /\ Resting' = Resting \cup {i}
  BY AcquireId, Zenon DEF restOrder
<1>2. /\ gen' = [gen EXCEPT ![i] = AcquiredId.gen] /\ sys' = [sys EXCEPT ![i] = order.id]
      /\ issued' = issued \cup {[id |-> order.id, handle |-> AcquiredId]}
      /\ pc' = "idle" /\ nextOrder' = nextOrder /\ pc = "match"
  BY Zenon DEF restOrder, Return, MatchDone
<1>3. i \in Idx /\ Resting \subseteq Idx /\ AcquiredId = Make(i, AcquiredId.gen)
  BY <1>1, RestingInIdx, Zenon DEF Handle, Make
<1>4. /\ gen'[i] = AcquiredId.gen /\ sys'[i] = order.id
      /\ \A k \in Resting : gen'[k] = gen[k] /\ sys'[k] = sys[k]
  BY <1>1, <1>2, <1>3, Zenon DEF TypeOK
<1>5. /\ order.id \in Nat /\ 0 < order.id /\ order.id < nextOrder /\ nextOrder \in Nat
      /\ \A k \in Resting : sys[k] < order.id /\ sys[k] \in Nat
      /\ \A c \in issued : c.id < order.id /\ c.id \in Nat
  BY <1>2, <1>3, Zenon DEF CallInv, TypeOK, HandlesNameTheirOrder
<1> HIDE DEF i
<1>6. ASSUME NEW c \in issued'
      PROVE  /\ 0 < c.id /\ c.id < nextOrder'
             /\ \A k \in Resting' : sys'[k] = c.id => c.handle = Make(k, gen'[k])
  <2>1. CASE c = [id |-> order.id, handle |-> AcquiredId]
    BY <1>1, <1>2, <1>3, <1>4, <1>5, <2>1
  <2>2. CASE c \in issued
    <3>1. ASSUME NEW k \in Resting', sys'[k] = c.id
          PROVE  c.handle = Make(k, gen'[k])
      <4>1. k \in Resting
        BY <1>1, <1>4, <1>5, <2>2, <3>1
      <4>. QED
        BY <1>4, <2>2, <3>1, <4>1, Zenon DEF HandlesNameTheirOrder
    <3>. QED
      BY <1>2, <2>2, <3>1, Zenon DEF HandlesNameTheirOrder
  <2>. QED
    BY <1>2, <2>1, <2>2, Zenon
<1>. QED
  BY <1>2, <1>6, Zenon DEF HandlesNameTheirOrder

\* A fill trades with the head of the best level, which crosses; it frees that
\* node when it fills it, and otherwise leaves it resting.
LEMMA FillReleases ==
  ASSUME IInv, Fill
  PROVE  LET n == head[Opposite(order.side)][best]
             f == LesserOf(order.remaining, qty[n])
         IN  /\ n \in Resting /\ side[n] = Opposite(order.side) /\ price[n] = best /\ prev[n] = 0
             /\ f \in Nat /\ f > 0 /\ f <= order.remaining /\ f <= qty[n]
             /\ Resting' = IF f = qty[n] THEN Resting \ {n} ELSE Resting
<1> USE DEF IInv
<1> DEFINE s == Opposite(order.side)
           n == head[s][best]
           f == LesserOf(order.remaining, qty[n])
<1>1. NodesLinked /\ LevelEnds
  BY Zenon DEF LevelsAreFifo
<1>2. pc = "fill" /\ best \in Tick /\ s \in Side /\ order.remaining \in Nat /\ order.remaining > 0 /\ n # 0
  BY Zenon DEF Fill, CallInv, TypeOK, Opposite, Side
<1>3. n \in Resting /\ side[n] = s /\ price[n] = best /\ prev[n] = 0
  BY <1>1, <1>2 DEF LevelEnds, AtLevel
<1>4. qty[n] \in Nat /\ qty[n] > 0 /\ gen[n] # 0
  BY <1>1, <1>3, RestingInIdx, Zenon DEF NodesLinked, TypeOK
<1>5. f \in Nat /\ f > 0 /\ f <= order.remaining /\ f <= qty[n]
  BY <1>2, <1>4 DEF LesserOf
<1>6. CASE f = qty[n]
  <2>1. releaseId(n)
    BY <1>6, Zenon DEF Fill
  <2>2. Resting' = Resting \ {n}
    BY <1>3, <1>4, <2>1, ReleaseId
  <2>. QED
    BY <1>3, <1>5, <1>6, <2>2, Zenon
<1>7. CASE f # qty[n]
  <2>1. freeStack' = freeStack /\ nextAvailableIdx' = nextAvailableIdx
    BY <1>7, Zenon DEF Fill, ids
  <2>2. Resting' = Resting
    BY <2>1, Zenon DEF Resting, Free
  <2>. QED
    BY <1>3, <1>5, <1>7, <2>2, Zenon
<1>. QED
  BY <1>6, <1>7, Zenon

\* Every step of the book keeps the posted handles right, if it cancels no stale
\* one.
LEMMA NextKeepsHandles == IInv /\ HandlesNameTheirOrder /\ [LawfulNext]_vars => HandlesNameTheirOrder'
<1> SUFFICES ASSUME IInv, HandlesNameTheirOrder, [LawfulNext]_vars PROVE HandlesNameTheirOrder'
  BY Zenon
<1> USE DEF IInv
<1>0. TypeOK /\ NodesAccountedFor /\ NodesLinked
  BY Zenon DEF LevelsAreFifo
<1>1. CASE AddOutOfBounds
  <2>1. /\ issued' = issued /\ sys' = sys /\ gen' = gen /\ Resting' = Resting
        /\ nextOrder' = nextOrder + 1 /\ pc' = "idle"
    BY <1>1, Zenon DEF AddOutOfBounds, nodes, ids, Resting, Free
  <2>. QED
    BY <2>1, HandlesStay, Zenon
<1>2. ASSUME NEW s \in Side, NEW p \in Tick, NEW q \in 0 .. MAX_QTY, Add(s, p, q)
      PROVE  HandlesNameTheirOrder'
  <2>1. /\ issued' = issued /\ sys' = sys /\ gen' = gen /\ Resting' = Resting
        /\ nextOrder' = nextOrder + 1 /\ order'.id = nextOrder
    BY <1>2, Zenon DEF Add, nodes, ids, Resting, Free
  <2>2. \A c \in issued : c.id < order'.id
    BY <2>1, Zenon DEF HandlesNameTheirOrder
  <2>. QED
    BY <2>1, <2>2, HandlesStay
<1>3. CASE MatchBest
  <2>1. /\ issued' = issued /\ sys' = sys /\ gen' = gen /\ Resting' = Resting
        /\ nextOrder' = nextOrder /\ order' = order /\ pc = "match"
    BY <1>3, Zenon DEF MatchBest, MatchGoesOn, nodes, ids, Resting, Free
  <2>. QED
    BY <2>1, HandlesStay, Zenon DEF HandlesNameTheirOrder
<1>4. CASE Fill
  <2>1. /\ issued' = issued /\ sys' = sys /\ gen' = gen /\ nextOrder' = nextOrder
        /\ order'.id = order.id /\ pc = "fill"
    BY <1>4, Zenon DEF Fill, TypeOK
  <2>2. Resting' \subseteq Resting
    BY <1>4, FillReleases, Zenon
  <2>. QED
    BY <2>1, <2>2, HandlesStay, Zenon DEF HandlesNameTheirOrder
<1>5. CASE PostFull \/ BookFull
  <2>1. /\ issued' = issued /\ sys' = sys /\ gen' = gen /\ Resting' = Resting
        /\ nextOrder' = nextOrder /\ pc' = "idle"
    BY <1>5, Zenon DEF PostFull, BookFull, Return, nodes, ids, Resting, Free
  <2>. QED
    BY <2>1, HandlesStay, Zenon
<1>6. CASE restOrder
  BY <1>6, RestNamesItsHandle, Zenon
<1>7. ASSUME NEW c \in issued, ~IsStale(c), RejectCancel(c.id, c.handle)
      PROVE  HandlesNameTheirOrder'
  <2>1. /\ issued' = issued /\ sys' = sys /\ gen' = gen /\ Resting' = Resting
        /\ nextOrder' = nextOrder /\ pc' = "idle"
    BY <1>7, Zenon DEF RejectCancel, call, nodes, ids, Resting, Free
  <2>. QED
    BY <2>1, HandlesStay, Zenon
<1>8. ASSUME NEW c \in issued, ~IsStale(c), cancelOrder(c.id, c.handle)
      PROVE  HandlesNameTheirOrder'
  <2>1. /\ issued' = issued /\ sys' = sys /\ gen' = gen /\ nextOrder' = nextOrder /\ pc' = "idle"
        /\ c.handle.index \in Resting /\ releaseId(c.handle.index)
    BY <1>8, Zenon DEF cancelOrder, call, IsStale
  <2>2. Resting' \subseteq Resting
    BY <1>0, <2>1, ReleaseId, Zenon DEF NodesLinked
  <2>. QED
    BY <2>1, <2>2, HandlesStay, Zenon
<1>9. CASE UNCHANGED vars
  <2>1. /\ issued' = issued /\ sys' = sys /\ gen' = gen /\ Resting' = Resting
        /\ nextOrder' = nextOrder /\ pc' = pc /\ order' = order
    BY <1>9, Zenon DEF vars, call, nodes, ids, Resting, Free
  <2>. QED
    BY <2>1, HandlesStay, Zenon DEF HandlesNameTheirOrder
<1>. QED
  BY <1>1, <1>2, <1>3, <1>4, <1>5, <1>6, <1>7, <1>8, <1>9 DEF LawfulNext, AddNext, CancelNext
\* No label of a resting node is larger than the volume of its level.
LEMMA LabelsWithinVolumes ==
  ASSUME IInv
  PROVE  VolumeLabelled(Volumes)
<1> USE DEF IInv
<1>1. NodesLinked /\ ArrivalOrder /\ LevelEnds
  BY Zenon DEF LevelsAreFifo
<1>2. PICK pre \in [Idx -> Nat] : IsPrefixSum(pre)
  BY Zenon DEF VolumeLabelled
<1> DEFINE lab == [i \in Idx |-> IF i \in Resting THEN pre[i] ELSE 0]
<1>3. Resting \subseteq Idx
  BY RestingInIdx, Zenon
<1>4. ASSUME NEW i \in Resting
      PROVE  pre[i] \in Volumes
  <2>1. /\ side[i] \in Side /\ price[i] \in Tick /\ qty[i] \in Nat /\ pre[i] \in Nat
        /\ volume[side[i]][price[i]] \in Int
    <3>1. side[i] \in Side /\ price[i] \in Tick /\ qty[i] \in Nat /\ pre[i] \in Nat
      BY <1>1, <1>3, NodeTypes, Zenon DEF NodesLinked
    <3>2. volume \in [Side -> [Tick -> Int]]
      BY Zenon DEF TypeOK
    <3>. QED
      BY <3>1, <3>2, Zenon
  <2>2. PICK t : t = tail[side[i]][price[i]]
    BY Zenon
  <2>3. t \in Resting /\ side[t] = side[i] /\ price[t] = price[i] /\ next[t] = 0
    <3>1. head[side[i]][price[i]] # 0
      BY <1>1, Zenon DEF NodesLinked
    <3>. QED
      BY <1>1, <2>1, <2>2, <3>1, Zenon DEF LevelEnds, AtLevel
  <2>4. qty[t] \in Nat /\ pre[t] \in Nat /\ sys[t] \in Nat /\ sys[i] \in Nat
    BY <1>3, <2>3, Zenon DEF TypeOK
  <2>5. volume[side[i]][price[i]] = pre[t] + qty[t]
    BY <1>2, <2>3, Zenon DEF IsPrefixSum
  <2>6. ~(sys[t] < sys[i])
    BY <1>1, <2>3, Zenon DEF ArrivalOrder, SameLevel
  <2>7. sys[i] < sys[t] => pre[i] + qty[i] <= pre[t]
    BY <1>2, <2>3, Zenon DEF IsPrefixSum, SameLevel
  <2>8. sys[i] = sys[t] => i = t
    BY <1>1, <2>3, Zenon DEF ArrivalOrder
  <2>9. pre[i] <= pre[t]
    BY <2>1, <2>4, <2>6, <2>7, <2>8
  <2>10. pre[i] \in 0 .. volume[side[i]][price[i]]
    BY <2>1, <2>4, <2>5, <2>9
  <2>11. pre[i] \in UNION {0 .. volume[side[i]][p] : p \in Tick}
    BY <2>1, <2>10, Zenon
  <2>. QED
    BY <2>1, <2>11 DEF Volumes
<1>5. lab \in [Idx -> Volumes]
  BY <1>4, Zenon DEF Volumes
<1>6. \A i \in Resting : lab[i] = pre[i]
  BY <1>3, Zenon
<1>7. \A i \in Resting : prev[i] # 0 => prev[i] \in Resting
  BY <1>1, Zenon DEF NodesLinked
<1> HIDE DEF lab
<1>8. IsPrefixSum(lab)
  BY <1>2, <1>6, <1>7, Zenon DEF IsPrefixSum
<1>. QED
  BY <1>5, <1>8, Zenon DEF VolumeLabelled

\* The inductive invariant and the handles hold together until a stale handle is
\* cancelled.
LEMMA UntilStale == Spec => [](stale \/ (IInv /\ HandlesNameTheirOrder))
<1>1. Init => stale \/ (IInv /\ HandlesNameTheirOrder)
  <2>1. Init => HandlesNameTheirOrder
    BY Zenon DEF Init, HandlesNameTheirOrder
  <2>. QED
    BY <2>1, InitEstablishes, Zenon
<1>2. (stale \/ (IInv /\ HandlesNameTheirOrder)) /\ [Next]_vars => (stale \/ (IInv /\ HandlesNameTheirOrder))'
  BY LawfulUntilStale, NextKeepsIInv, NextKeepsHandles, Zenon
<1>. QED
  BY <1>1, <1>2, PTL DEF Spec

\* BookInv holds in every reachable state: the lists, volumes, masks, best
\* prices, ids and posted handles of the book agree with each other, until a
\* stale handle is cancelled.
THEOREM BookIsConsistent == Spec => []BookInv
<1>1. stale \/ (IInv /\ HandlesNameTheirOrder) => BookInv
  BY LabelsWithinVolumes, Zenon DEF IInv, BookInv, Consistent
<1>. QED
  BY <1>1, UntilStale, PTL

-----------------------------------------------------------------------------
(* The book implements LimitOrderBook *)

\* Two resting nodes never stand for the same order.
LEMMA OrdersDiffer ==
  ASSUME IInv, NEW i \in Resting, NEW k \in Resting, OrderOf(i) = OrderOf(k)
  PROVE  i = k
  BY Zenon DEF IInv, LevelsAreFifo, ArrivalOrder, OrderOf

\* The abstract book holds as many orders as nodes rest.
LEMMA AsManyOrders ==
  ASSUME IInv
  PROVE  /\ IsFiniteSet(Resting) /\ Cardinality(RestingOrders) = Cardinality(Resting)
         /\ IsFiniteSet(Idx) /\ Cardinality(Idx) = MAX_BOOK_ORDERS - 1
<1>1. IsFiniteSet(Idx) /\ Cardinality(Idx) = MAX_BOOK_ORDERS - 1
  <2>1. 1 \in Int /\ MAX_BOOK_ORDERS - 1 \in Int /\ MAX_BOOK_ORDERS - 1 >= 0
    BY BookAssumption
  <2>. QED
    BY <2>1, FS_Interval DEF Idx
<1>2. IsFiniteSet(Resting)
  BY <1>1, RestingInIdx, FS_Subset, Zenon DEF IInv
<1> DEFINE f == [i \in Resting |-> OrderOf(i)]
<1>3. f \in Bijection(Resting, RestingOrders)
  <2>1. f \in [Resting -> RestingOrders]
    BY Zenon DEF RestingOrders
  <2>2. \A a, b \in Resting : f[a] = f[b] => a = b
    BY OrdersDiffer, Zenon
  <2>3. \A r \in RestingOrders : \E i \in Resting : f[i] = r
    BY Zenon DEF RestingOrders
  <2> HIDE DEF f
  <2>. QED
    BY <2>1, <2>2, <2>3, Zenon DEF Bijection, Injection, Surjection, IsInjective
<1>4. ExistsBijection(Resting, RestingOrders)
  BY <1>3, Zenon DEF ExistsBijection
<1>. QED
  BY <1>1, <1>2, <1>4, FS_Bijection, Zenon

\* acquireId fails exactly when the abstract book is at its capacity.
LEMMA FullAtCapacity ==
  ASSUME IInv
  PROVE  /\ CanAcquire => Cardinality(RestingOrders) < MAX_BOOK_ORDERS - 1
         /\ ~CanAcquire => Cardinality(RestingOrders) = MAX_BOOK_ORDERS - 1
<1> USE DEF IInv
<1>1. Resting \subseteq Idx /\ Cardinality(Resting) \in Nat
  BY RestingInIdx, AsManyOrders, FS_CardinalityType, Zenon
<1>2. CASE CanAcquire
  <2>1. AcquiredId.index \in Idx /\ AcquiredId.index \notin Resting
    <3>1. CASE freeStack # <<>>
      <4>1. Len(freeStack) \in 1 .. Len(freeStack) /\ AcquiredId = freeStack[Len(freeStack)] /\ AcquiredId \in Handle
        BY <3>1 DEF TypeOK, AcquiredId
      <4>2. AcquiredId.index \in Free
        BY <4>1, Zenon DEF Free
      <4>. QED
        BY <4>1, <4>2, Zenon DEF Resting, Handle
    <3>2. CASE freeStack = <<>>
      <4>1. AcquiredId.index = nextAvailableIdx /\ nextAvailableIdx < MAX_BOOK_ORDERS
        BY <1>2, <3>2, Zenon DEF CanAcquire, AcquiredId, Make
      <4>2. nextAvailableIdx \in 1 .. MAX_BOOK_ORDERS
        BY Zenon DEF TypeOK
      <4>. QED
        BY <4>1, <4>2, BookAssumption DEF Resting, Idx
    <3>. QED
      BY <3>1, <3>2, Zenon
  <2>2. Cardinality(Resting) < Cardinality(Idx)
    <3>1. Resting # Idx
      BY <2>1, Zenon
    <3>2. Cardinality(Resting) <= Cardinality(Idx) /\ (Cardinality(Resting) = Cardinality(Idx) => Resting = Idx)
      BY <1>1, AsManyOrders, FS_Subset, Zenon
    <3>3. Cardinality(Idx) \in Nat
      BY AsManyOrders, FS_CardinalityType, Zenon
    <3>. QED
      BY <1>1, <3>1, <3>2, <3>3
  <2>. QED
    BY <1>2, <2>2, AsManyOrders, Zenon
<1>3. CASE ~CanAcquire
  <2>1. freeStack = <<>> /\ nextAvailableIdx = MAX_BOOK_ORDERS
    BY <1>3, BookAssumption DEF CanAcquire, TypeOK
  <2>2. Resting = Idx
    BY <2>1 DEF Resting, Free, Idx
  <2>. QED
    BY <1>3, <2>2, AsManyOrders, Zenon
<1>. QED
  BY <1>2, <1>3, Zenon
\* When the match is done and something remains, nothing that rests crosses.
LEMMA NothingCrosses ==
  ASSUME IInv, MatchDone, order.remaining > 0
  PROVE  \A r \in RestingOrders : ~LOB!Crosses(order, r)
<1> USE DEF IInv
<1>1. pc = "match" /\ CrossingPrice = 0 /\ order.price \in Tick /\ order.side \in Side
  BY DEF MatchDone, CallInv, TypeOK
<1>2. /\ order.side = "Buy" => ~(minAsk <= order.price)
      /\ order.side = "Sell" => ~(maxBid >= order.price)
  <2>1. minAsk # 0
    BY BookAssumption DEF TypeOK
  <2>2. maxBid >= order.price => maxBid # 0
    BY <1>1, BookAssumption DEF Tick
  <2>. QED
    BY <1>1, <2>1, <2>2, CrossingPriceIsBest, Zenon
<1> SUFFICES ASSUME NEW i \in Resting, LOB!Crosses(order, OrderOf(i)) PROVE FALSE
  BY Zenon DEF RestingOrders
<1>3. /\ side[i] \in Side /\ price[i] \in Tick /\ price[i] \in mask[side[i]] /\ side[i] # order.side
      /\ IF order.side = "Buy" THEN price[i] <= order.price ELSE price[i] >= order.price
  <2>1. i \in Idx /\ side[i] \in Side /\ price[i] \in Tick /\ head[side[i]][price[i]] # 0
    BY RestingInIdx, Zenon DEF LevelsAreFifo, NodesLinked, TypeOK
  <2>2. /\ side[i] # order.side
        /\ IF order.side = "Buy" THEN price[i] <= order.price ELSE price[i] >= order.price
    BY Zenon DEF LOB!Crosses, OrderOf
  <2>. QED
    BY <2>1, <2>2, Zenon DEF OccupancyExact
<1>4. price[i] \in Nat /\ order.price \in Nat /\ minAsk \in Nat /\ maxBid \in Nat
  <2>1. minAsk \in 1 .. MAX_TICKS /\ maxBid \in 0 .. MAX_TICKS - 1
    BY Zenon DEF TypeOK
  <2>2. minAsk \in Nat /\ maxBid \in Nat
    BY <2>1, BookAssumption
  <2>. QED
    BY <1>1, <1>3, <2>2, TickIsNat, Zenon
<1>5. CASE order.side = "Buy"
  <2>1. minAsk <= price[i]
    BY <1>3, <1>5, Zenon DEF BestPricesExact, Side
  <2>. QED
    BY <1>2, <1>3, <1>4, <1>5, <2>1
<1>6. CASE order.side = "Sell"
  <2>1. price[i] <= maxBid
    BY <1>3, <1>6, Zenon DEF BestPricesExact, Side
  <2>. QED
    BY <1>2, <1>3, <1>4, <1>6, <2>1
<1>. QED
  BY <1>1, <1>5, <1>6, Zenon DEF Side

\* The orders that rest are the same after a step that leaves the nodes alone.
LEMMA OrdersStay ==
  ASSUME UNCHANGED <<nodes, ids>>
  PROVE  RestingOrders' = RestingOrders
<1>1. Resting' = Resting
  BY Zenon DEF ids, Resting, Free
<1>. QED
  BY <1>1, Zenon DEF RestingOrders, OrderOf, nodes

\* The node a fill works on is the best order of the abstract book.
LEMMA HeadIsBest ==
  ASSUME IInv, Fill
  PROVE  LET n == head[Opposite(order.side)][best] IN
           /\ LOB!Crosses(order, OrderOf(n))
           /\ LOB!IsBest(OrderOf(n))
<1> USE DEF IInv
<1> DEFINE n == head[Opposite(order.side)][best]
           f == LesserOf(order.remaining, qty[n])
<1>1. n \in Resting /\ side[n] = Opposite(order.side) /\ price[n] = best /\ f \in Nat /\ f > 0 /\ f <= qty[n]
  BY FillReleases, Zenon
<1>2. n \in Idx /\ qty[n] \in Nat /\ qty' = [qty EXCEPT ![n] = @ - f] /\ pc = "fill"
  BY <1>1, RestingInIdx, Zenon DEF Fill, TypeOK
<1> HIDE DEF n, f
<1>3. qty'[n] < qty[n]
  BY <1>1, <1>2, NodeTypes
<1>5. /\ IF order.side = "Buy" THEN price[n] <= order.price ELSE price[n] >= order.price
      /\ \A k \in Resting : side[k] = side[n] /\ k # n =>
           \/ price[k] = price[n] /\ sys[n] < sys[k]
           \/ IF side[n] = "Sell" THEN price[n] < price[k] ELSE price[k] < price[n]
  BY <1>1, <1>2, <1>3, FillHasPriority, Zenon
<1>6. order.side \in Side /\ side[n] \in Side /\ side[n] # order.side
  BY <1>1, Zenon DEF TypeOK, Opposite, Side
<1>7. LOB!Crosses(order, OrderOf(n))
  BY <1>5, <1>6, Zenon DEF LOB!Crosses, OrderOf
<1>8. ASSUME NEW k \in Resting, side[k] = side[n]
      PROVE  LOB!Before(OrderOf(n), OrderOf(k))
  <2>1. /\ k \in Idx /\ price[k] \in Int /\ price[n] \in Int /\ sys[k] \in Nat /\ sys[n] \in Nat
    <3>1. k \in Idx /\ price \in [Idx -> 0 .. MAX_TICKS - 1] /\ sys \in [Idx -> Nat]
      BY RestingInIdx, Zenon DEF TypeOK
    <3>. QED
      BY <1>2, <3>1
  <2>2. CASE k = n
    BY <2>1, <2>2 DEF LOB!Before, OrderOf
  <2>3. CASE k # n
    <3>1. \/ price[k] = price[n] /\ sys[n] < sys[k]
          \/ IF side[n] = "Sell" THEN price[n] < price[k] ELSE price[k] < price[n]
      BY <1>5, <1>8, <2>3, Zenon
    <3>. QED
      BY <1>6, <2>1, <3>1 DEF LOB!Before, OrderOf, Side
  <2>. QED
    BY <2>2, <2>3, Zenon
<1>9. LOB!IsBest(OrderOf(n))
  BY <1>8 DEF LOB!IsBest, RestingOrders, OrderOf
<1>. QED
  BY <1>7, <1>9, Zenon DEF n

\* An iteration of the inner loop of match() is a trade of the abstract book.
LEMMA FillIsTrade ==
  ASSUME IInv, Fill
  PROVE  \E r \in RestingOrders : LOB!Trade(r)
<1> USE DEF IInv
<1>n. PICK n : n = head[Opposite(order.side)][best]
  BY Zenon
<1>f. PICK f : f = LesserOf(order.remaining, qty[n])
  BY Zenon
<1>r. PICK r : r = OrderOf(n)
  BY Zenon
<1>1. /\ n \in Resting /\ f \in Nat /\ f > 0 /\ f <= order.remaining /\ f <= qty[n]
      /\ Resting' = IF f = qty[n] THEN Resting \ {n} ELSE Resting
  BY <1>n, <1>f, FillReleases, Zenon
<1>2. LOB!Crosses(order, r) /\ LOB!IsBest(r)
  BY <1>n, <1>r, HeadIsBest
<1>3. /\ order' = [order EXCEPT !.remaining = @ - f]
      /\ qty' = [qty EXCEPT ![n] = @ - f]
      /\ price' = price /\ side' = side /\ sys' = sys
      /\ nextOrder' = nextOrder /\ status' = status /\ pc = "fill"
  BY <1>n, <1>f, Zenon DEF Fill
<1>4. Resting \subseteq Idx /\ qty \in [Idx -> Nat]
  BY RestingInIdx, Zenon DEF TypeOK
<1>5. f = IF order.remaining < r.qty THEN order.remaining ELSE r.qty
  BY <1>f, <1>r, Zenon DEF LesserOf, OrderOf
<1>6. /\ order.remaining > 0 /\ order # LOB!None
  BY <1>3 DEF CallInv, LOB!None
<1>7. r.qty = qty[n] /\ r \in RestingOrders
  BY <1>1, <1>r, Zenon DEF OrderOf, RestingOrders
<1>8. \A k \in Resting \ {n} : OrderOf(k)' = OrderOf(k) /\ OrderOf(k) # r
  <2>1. \A k \in Resting \ {n} : qty'[k] = qty[k]
    BY <1>1, <1>3, <1>4, Zenon
  <2>. QED
    BY <1>1, <1>3, <1>r, <2>1, OrdersDiffer DEF OrderOf
<1>9. OrderOf(n)' = [r EXCEPT !.qty = @ - f]
  <2>1. qty'[n] = qty[n] - f
    BY <1>1, <1>3, <1>4, Zenon
  <2>. QED
    BY <1>3, <1>r, <2>1 DEF OrderOf
<1>10. RestingOrders' = (RestingOrders \ {r}) \cup (IF r.qty = f THEN {} ELSE {[r EXCEPT !.qty = @ - f]})
  <2>0. RestingOrders \ {r} = {OrderOf(k) : k \in Resting \ {n}}
    BY <1>1, <1>8, <1>r, Zenon DEF RestingOrders
  <2>1. CASE f = qty[n]
    <3>1. RestingOrders' = {OrderOf(k) : k \in Resting \ {n}}
      BY <1>1, <1>8, <2>1 DEF RestingOrders
    <3>. QED
      BY <1>7, <2>0, <2>1, <3>1
  <2>2. CASE f # qty[n]
    <3>1. RestingOrders' = {OrderOf(k)' : k \in Resting}
      BY <1>1, <2>2, Zenon DEF RestingOrders
    <3>2. RestingOrders' = {OrderOf(k) : k \in Resting \ {n}} \cup {OrderOf(n)'}
      BY <1>1, <1>8, <3>1, Zenon
    <3>. QED
      BY <1>7, <1>9, <2>0, <2>2, <3>2
  <2>. QED
    BY <2>1, <2>2, Zenon
<1>11. LOB!Trade(r)
  BY <1>2, <1>3, <1>5, <1>6, <1>10 DEF LOB!Trade
<1>. QED
  BY <1>7, <1>11, Zenon
\* The abstract book counts as this module does.
LEMMA SameCardinality ==
  ASSUME NEW S
  PROVE  LOB!Cardinality(S) = Cardinality(S)
  BY Zenon DEF LOB!Cardinality, Cardinality

\* restOrder adds what remains of the order to the abstract book.
LEMMA RestIsFinish ==
  ASSUME IInv, restOrder
  PROVE  LOB!Finish
<1> USE DEF IInv
<1>i. PICK i : i = AcquiredId.index
  BY Zenon
<1>1. AcquiredId \in Handle /\ i \notin Resting /\ Resting' = Resting \cup {i}
  BY <1>i, AcquireId, Zenon DEF restOrder
<1>2. i \in Idx /\ Resting \subseteq Idx
  BY <1>1, <1>i, RestingInIdx, Zenon DEF Handle
<1>3. /\ MatchDone /\ order.remaining > 0 /\ CanAcquire
      /\ sys' = [sys EXCEPT ![i] = order.id]
      /\ price' = [price EXCEPT ![i] = order.price]
      /\ qty' = [qty EXCEPT ![i] = order.remaining]
      /\ side' = [side EXCEPT ![i] = order.side]
      /\ order' = NoOrder /\ nextOrder' = nextOrder /\ pc = "match"
      /\ status' = Status(order.id, AcquiredId, order.quantity - order.remaining,
                          IF order.quantity - order.remaining = 0 THEN "Accepted" ELSE "Partial")
  BY <1>i, Zenon DEF restOrder, Return, MatchDone
<1>4. \A r \in RestingOrders : ~LOB!Crosses(order, r)
  BY <1>3, NothingCrosses, Zenon
<1>5. Cardinality(RestingOrders) < MAX_BOOK_ORDERS - 1
  BY <1>3, FullAtCapacity, Zenon
<1>6. \A k \in Resting : OrderOf(k)' = OrderOf(k)
  <2>1. \A k \in Resting : sys'[k] = sys[k] /\ price'[k] = price[k] /\ qty'[k] = qty[k] /\ side'[k] = side[k]
    BY <1>1, <1>2, <1>3, Zenon DEF TypeOK
  <2>. QED
    BY <2>1, Zenon DEF OrderOf
<1>7. OrderOf(i)' = [id |-> order.id, side |-> order.side, price |-> order.price, qty |-> order.remaining]
  <2>1. sys'[i] = order.id /\ price'[i] = order.price /\ qty'[i] = order.remaining /\ side'[i] = order.side
    BY <1>2, <1>3, Zenon DEF TypeOK
  <2>. QED
    BY <2>1, Zenon DEF OrderOf
<1>8. RestingOrders' = RestingOrders \cup
        {[id |-> order.id, side |-> order.side, price |-> order.price, qty |-> order.remaining]}
  <2>1. RestingOrders' = {OrderOf(k)' : k \in Resting \cup {i}}
    BY <1>1, Zenon DEF RestingOrders
  <2>2. RestingOrders' = {OrderOf(k) : k \in Resting} \cup {OrderOf(i)'}
    BY <1>6, <2>1, Zenon
  <2>. QED
    BY <1>7, <2>2, Zenon DEF RestingOrders
<1>9. order # LOB!None /\ order' = LOB!None
  BY <1>3 DEF CallInv, LOB!None, NoOrder
<1>10. [id |-> status'.id, fill |-> status'.fill, state |-> status'.state]
         = LOB!Report(order.id, order.quantity - order.remaining,
                      IF order.quantity - order.remaining = 0 THEN "Accepted" ELSE "Partial")
  BY <1>3, Zenon DEF LOB!Report, Status
<1>. QED
  BY <1>3, <1>4, <1>5, <1>8, <1>9, <1>10, SameCardinality, Zenon DEF LOB!Finish

\* The other two ways out of add(): filled, or turned away by a full book.
LEMMA ReturnIsFinish ==
  ASSUME IInv, PostFull \/ BookFull
  PROVE  LOB!Finish
<1> USE DEF IInv
<1>1. RestingOrders' = RestingOrders
  BY OrdersStay, Zenon DEF PostFull, BookFull
<1>2. order # LOB!None /\ order' = LOB!None /\ nextOrder' = nextOrder
  BY DEF PostFull, BookFull, Return, MatchDone, CallInv, LOB!None, NoOrder
<1>3. CASE PostFull
  BY <1>1, <1>2, <1>3, Zenon DEF PostFull, Status, LOB!Finish, LOB!Report
<1>4. CASE BookFull
  <2>1. order.remaining > 0 /\ ~CanAcquire /\ MatchDone
    BY <1>4, Zenon DEF BookFull
  <2>2. \A r \in RestingOrders : ~LOB!Crosses(order, r)
    BY <2>1, NothingCrosses, Zenon
  <2>3. Cardinality(RestingOrders) = MAX_BOOK_ORDERS - 1
    BY <2>1, FullAtCapacity, Zenon
  <2>4. [id |-> status'.id, fill |-> status'.fill, state |-> status'.state]
          = LOB!Report(order.id, 0, "InternalError")
    BY <1>4, Zenon DEF BookFull, Status, LOB!Report
  <2>. QED
    BY <1>1, <1>2, <2>1, <2>2, <2>3, <2>4, SameCardinality, Zenon DEF LOB!Finish
<1>. QED
  BY <1>3, <1>4, Zenon

\* A cancel of a handle that is not stale is one of the abstract book: it removes
\* the order it names, and is rejected only if that order rests no more.
LEMMA CancelIsCancel ==
  ASSUME IInv, HandlesNameTheirOrder, NEW c \in issued, ~IsStale(c), CancelNext(c)
  PROVE  c.id \in 1 .. nextOrder - 1 /\ LOB!Cancel(c.id)
<1> USE DEF IInv
<1>1. c.id \in 1 .. nextOrder - 1
  <2>1. c.id \in Nat /\ nextOrder \in Nat
    BY Zenon DEF TypeOK
  <2>. QED
    BY <2>1 DEF HandlesNameTheirOrder
<1>2. order = LOB!None /\ order' = order /\ nextOrder' = nextOrder
  BY Zenon DEF CancelNext, RejectCancel, cancelOrder, CallInv, NoOrder, LOB!None, call
<1>3. CASE RejectCancel(c.id, c.handle)
  <2>1. gen[c.handle.index] # c.handle.gen /\ status' = Status(c.id, c.handle, 0, "Rejected")
    BY <1>3, Zenon DEF RejectCancel
  <2>2. RestingOrders' = RestingOrders
    BY <1>3, OrdersStay, Zenon DEF RejectCancel
  <2>3. \A r \in RestingOrders : r.id # c.id
    <3>1. ASSUME NEW i \in Resting, sys[i] = c.id
          PROVE  FALSE
      <4>1. c.handle = Make(i, gen[i])
        BY <3>1, Zenon DEF HandlesNameTheirOrder
      <4>2. c.handle.index = i /\ c.handle.gen = gen[i]
        BY <4>1 DEF Make
      <4>. QED
        BY <2>1, <4>2, Zenon
    <3>2. \A i \in Resting : OrderOf(i).id = sys[i]
      BY Zenon DEF OrderOf
    <3>. QED
      BY <3>1, <3>2, Zenon DEF RestingOrders
  <2>. QED
    BY <1>1, <1>2, <2>1, <2>2, <2>3, Zenon DEF LOB!Cancel, LOB!Report, Status
<1>4. CASE cancelOrder(c.id, c.handle)
  <2>i. PICK i : i = c.handle.index
    BY Zenon
  <2>1. /\ i \in Resting /\ sys[i] = c.id /\ releaseId(i) /\ status' = Status(c.id, c.handle, 0, "Cancelled")
        /\ price' = price /\ qty' = qty /\ side' = side /\ sys' = sys
    BY <1>4, <2>i, Zenon DEF cancelOrder, IsStale
  <2>2. Resting' = Resting \ {i}
    BY <2>1, ReleaseId, Zenon DEF LevelsAreFifo, NodesLinked
  <2>3. \A k \in Resting : OrderOf(k)' = OrderOf(k)
    BY <2>1, Zenon DEF OrderOf
  <2>4. RestingOrders' = {OrderOf(k) : k \in Resting \ {i}}
    BY <2>2, <2>3, Zenon DEF RestingOrders
  <2>5. \A k \in Resting \ {i} : OrderOf(k) # OrderOf(i)
    BY <2>1, OrdersDiffer, Zenon
  <2>6. RestingOrders' = RestingOrders \ {OrderOf(i)}
    BY <2>1, <2>4, <2>5 DEF RestingOrders
  <2>7. OrderOf(i) \in RestingOrders /\ OrderOf(i).id = c.id
    BY <2>1, Zenon DEF RestingOrders, OrderOf
  <2>. QED
    BY <1>1, <1>2, <2>1, <2>6, <2>7, Zenon DEF LOB!Cancel, LOB!Report, Status
<1>. QED
  BY <1>3, <1>4, Zenon DEF CancelNext

\* A cancel of a stale handle names an order that does not rest, and is answered
\* Cancelled.
LEMMA StaleMisleads ==
  ASSUME IInv, HandlesNameTheirOrder, ~stale, NEW c \in issued, IsStale(c), CancelNext(c)
  PROVE  c.id \in 1 .. nextOrder - 1 /\ LOB!Misled(c.id)
<1>1. c.id \in 1 .. nextOrder - 1
  <2>1. c.id \in Nat /\ nextOrder \in Nat
    BY Zenon DEF IInv, TypeOK
  <2>. QED
    BY <2>1 DEF HandlesNameTheirOrder
<1>2. order = LOB!None
  BY Zenon DEF CancelNext, RejectCancel, cancelOrder, IInv, CallInv, NoOrder, LOB!None
<1>3. status' = Status(c.id, c.handle, 0, "Cancelled")
  BY Zenon DEF CancelNext, RejectCancel, cancelOrder, IsStale
<1>4. \A r \in RestingOrders : r.id # c.id
  <2>1. ASSUME NEW i \in Resting, sys[i] = c.id
        PROVE  FALSE
    <3>1. c.handle = Make(i, gen[i])
      BY <2>1, Zenon DEF HandlesNameTheirOrder
    <3>2. c.handle.index = i
      BY <3>1 DEF Make
    <3>. QED
      BY <2>1, <3>2, Zenon DEF IsStale
  <2>2. \A i \in Resting : OrderOf(i).id = sys[i]
    BY Zenon DEF OrderOf
  <2>. QED
    BY <2>1, <2>2, Zenon DEF RestingOrders
<1>5. stale' = TRUE
  BY DEF CancelNext
<1>. QED
  BY <1>1, <1>2, <1>3, <1>4, <1>5, Zenon DEF LOB!Misled, LOB!Report, Status

\* Every step of add() is a step of the abstract book or one it does not see.
LEMMA AddIsRequest ==
  ASSUME IInv, AddNext
  PROVE  \/ LOB!Request
         \/ RestingOrders' = RestingOrders /\ order' = order /\ nextOrder' = nextOrder /\ status' = status
<1> USE DEF IInv
<1>1. CASE AddOutOfBounds
  <2>1. RestingOrders' = RestingOrders
    BY <1>1, OrdersStay, Zenon DEF AddOutOfBounds
  <2>2. /\ nextOrder' = nextOrder + 1 /\ order' = order /\ order = NoOrder /\ status' = NoStatus
    BY <1>1, Zenon DEF AddOutOfBounds, CallInv
  <2>3. LOB!Refuse
    BY <2>1, <2>2, Zenon DEF LOB!Refuse, LOB!None, LOB!NoReport, NoOrder, NoStatus
  <2>. QED
    BY <2>3, Zenon DEF LOB!Request
<1>2. ASSUME NEW s \in Side, NEW p \in Tick, NEW q \in 0 .. MAX_QTY, Add(s, p, q)
      PROVE  LOB!Request
  <2>1. RestingOrders' = RestingOrders
    BY <1>2, OrdersStay, Zenon DEF Add
  <2>2. /\ nextOrder' = nextOrder + 1 /\ order = NoOrder /\ status' = NoStatus
        /\ order' = [id |-> nextOrder, side |-> s, price |-> p, quantity |-> q, remaining |-> q]
    BY <1>2, Zenon DEF Add, CallInv
  <2>3. LOB!Submit(s, p, q)
    BY <2>1, <2>2, Zenon DEF LOB!Submit, LOB!None, LOB!NoReport, NoOrder, NoStatus
  <2>. QED
    BY <2>3, Zenon DEF LOB!Request, Side
<1>3. CASE MatchBest
  <2>1. RestingOrders' = RestingOrders
    BY <1>3, OrdersStay, Zenon DEF MatchBest
  <2>2. order' = order /\ nextOrder' = nextOrder /\ status' = status
    BY <1>3, Zenon DEF MatchBest
  <2>. QED
    BY <2>1, <2>2, Zenon
<1>4. CASE Fill
  BY <1>4, FillIsTrade, Zenon DEF LOB!Request
<1>5. CASE PostFull \/ BookFull
  BY <1>5, ReturnIsFinish, Zenon DEF LOB!Request
<1>6. CASE restOrder
  BY <1>6, RestIsFinish, Zenon DEF LOB!Request
<1>. QED
  BY <1>1, <1>2, <1>3, <1>4, <1>5, <1>6 DEF AddNext

\* Every step of the book is a step of the abstract book or a stutter.
LEMMA StepRefines ==
  ASSUME stale \/ (IInv /\ HandlesNameTheirOrder), [Next]_vars
  PROVE  [LOB!LobNext]_(LOB!lobVars)
<1>1. CASE stale
  <2>1. stale'
    BY <1>1, Zenon DEF Next, CancelNext, vars
  <2>. QED
    BY <1>1, <2>1, Zenon DEF LOB!LobNext
<1>2. CASE ~stale
  <2>1. IInv /\ HandlesNameTheirOrder
    BY <1>2, Zenon
  <2>2. CASE AddNext /\ UNCHANGED stale
    <3>1. CASE LOB!Request
      BY <1>2, <2>2, <3>1, Zenon DEF LOB!LobNext
    <3>2. CASE RestingOrders' = RestingOrders /\ order' = order /\ nextOrder' = nextOrder /\ status' = status
      BY <2>2, <3>2, Zenon DEF LOB!lobVars
    <3>. QED
      BY <2>1, <2>2, <3>1, <3>2, AddIsRequest, Zenon
  <2>3. ASSUME NEW c \in issued, CancelNext(c), ~IsStale(c)
        PROVE  LOB!LobNext
    <3>1. LOB!Request
      BY <2>1, <2>3, CancelIsCancel, Zenon DEF LOB!Request
    <3>2. stale' = stale
      BY <1>2, <2>3 DEF CancelNext
    <3>. QED
      BY <1>2, <3>1, <3>2, Zenon DEF LOB!LobNext
  <2>4. ASSUME NEW c \in issued, CancelNext(c), IsStale(c)
        PROVE  LOB!LobNext
    BY <1>2, <2>1, <2>4, StaleMisleads, Zenon DEF LOB!LobNext
  <2>5. CASE UNCHANGED vars
    <3>1. RestingOrders' = RestingOrders
      BY <2>1, <2>5, OrdersStay, Zenon DEF vars
    <3>2. order' = order /\ nextOrder' = nextOrder /\ status' = status /\ stale' = stale
      BY <2>5, Zenon DEF vars, call
    <3>. QED
      BY <3>1, <3>2, Zenon DEF LOB!lobVars
  <2>. QED
    BY <2>2, <2>3, <2>4, <2>5, Zenon DEF Next
<1>. QED
  BY <1>1, <1>2, Zenon

\* The book of linked levels, masks, caches and recycled ids implements the set
\* of orders under price-time priority, for every size and any history, and only
\* the cancel of a handle whose order does not rest ends that.
THEOREM Refinement == Spec => ImplementsLimitOrderBook
<1>1. Init => LOB!LobInit
  <2>1. Init => RestingOrders = {}
    BY DEF Init, RestingOrders, Resting
  <2>. QED
    BY <2>1 DEF Init, LOB!LobInit, LOB!None, LOB!NoReport, NoOrder, NoStatus
<1>2. Spec => [](stale \/ (IInv /\ HandlesNameTheirOrder))
  BY UntilStale
<1>3. (stale \/ (IInv /\ HandlesNameTheirOrder)) /\ [Next]_vars => [LOB!LobNext]_(LOB!lobVars)
  BY StepRefines, Zenon
<1>. QED
  BY <1>1, <1>2, <1>3, PTL DEF Spec, ImplementsLimitOrderBook, LOB!LobSpec
=============================================================================
