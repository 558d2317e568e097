--------------------------- MODULE BookLevelProofs --------------------------
(***************************************************************************)
(* Lemmas about PriceLevelOrderBook: what the scans of the masks find and  *)
(* which nodes acquireId and releaseId hand out and take back; what        *)
(* removing a node (a cancel, a complete fill) and reducing one (a partial *)
(* fill) do to the lists, the volumes, the masks and the best prices; and  *)
(* what appending one in restOrder does to them.                           *)
(***************************************************************************)
EXTENDS PriceLevelOrderBook, TLAPS, WellFoundedInduction

\* The time, in seconds, that a prover may take over a leaf.
USE SMTT(30), ZenonT(30)

\* Prices are natural numbers.
LEMMA TickIsNat == Tick \subseteq Nat
  BY BookAssumption DEF Tick

\* A non-empty set of naturals has a least element, and Least finds it, as
\* countr_zero does on the first non-zero word of a mask.
LEMMA LeastIsLeast ==
  ASSUME NEW S \in SUBSET Nat, S # {}
  PROVE  Least(S) \in S /\ \A y \in S : Least(S) <= y
<1>1. \E x \in S : \A y \in S : ~ (<<y, x>> \in OpToRel(<, Nat))
  BY NatLessThanWellFounded, WFMin, Zenon
<1>2. \E x \in S : \A y \in S : x <= y
  <2>1. PICK x \in S : \A y \in S : ~ (<<y, x>> \in OpToRel(<, Nat))
    BY <1>1, Zenon
  <2>2. \A y \in S : ~(y < x)
    BY <2>1, Zenon DEF OpToRel
  <2>. QED
    BY <2>2
<1>. QED
  BY <1>2, Zenon DEF Least

\* The same for Greatest on a bounded set, as countl_zero does.
LEMMA GreatestIsGreatest ==
  ASSUME NEW N \in Nat, NEW S \in SUBSET (0 .. N), S # {}
  PROVE  Greatest(S) \in S /\ \A y \in S : y <= Greatest(S)
<1> DEFINE R == {N - x : x \in S}
<1>1. R \in SUBSET Nat /\ R # {}
  <2>1. \A x \in S : x \in 0 .. N
    BY Zenon
  <2>2. \A x \in S : N - x \in Nat
    BY <2>1
  <2>. QED
    BY <2>2, Zenon
<1> HIDE DEF R
<1>2. Least(R) \in R /\ \A y \in R : Least(R) <= y
  BY <1>1, LeastIsLeast, Zenon
<1>3. PICK x \in S : Least(R) = N - x
  BY <1>2, Zenon DEF R
<1>4. \A y \in S : N - y \in R
  BY Zenon DEF R
<1>5. \A y \in S : y <= x
  BY <1>2, <1>3, <1>4
<1>. QED
  BY <1>5, Zenon DEF Greatest

\* A word of a mask with a smaller index only holds smaller prices.
LEMMA WordMonotone ==
  ASSUME NEW a \in Nat, NEW b \in Nat, a <= b
  PROVE  Word(a) \in Nat /\ Word(a) <= Word(b)
  BY BookAssumption DEF Word

\* findNewMinAsk returns the least tick left in the ask mask, or the sentinel.
LEMMA FindNewMinAsk ==
  ASSUME NEW A \in SUBSET Tick, NEW p \in Tick, \A q \in A : p <= q
  PROVE  LET r == findNewMinAsk(A, p)
         IN  /\ r \in 1 .. MAX_TICKS
             /\ \A q \in A : r <= q
             /\ r # MAX_TICKS => r \in A
<1>1. A \in SUBSET Nat /\ p \in Nat
  BY DEF Tick
<1>2. {q \in A : Word(p) <= Word(q)} = A
  <2>1. \A q \in A : Word(p) <= Word(q)
    BY <1>1, WordMonotone, Zenon
  <2>. QED
    BY <2>1, Zenon
<1>3. CASE A = {}
  BY <1>2, <1>3, BookAssumption DEF findNewMinAsk
<1>4. CASE A # {}
  <2>1. findNewMinAsk(A, p) = Least(A)
    BY <1>2, <1>4, Zenon DEF findNewMinAsk
  <2>2. Least(A) \in A /\ \A q \in A : Least(A) <= q
    BY <1>1, <1>4, LeastIsLeast, Zenon
  <2>3. Least(A) \in Nat /\ 1 <= Least(A) /\ Least(A) < MAX_TICKS /\ MAX_TICKS \in Nat
    <3>1. Least(A) \in Tick
      BY <2>2, Zenon
    <3>. QED
      BY <3>1, BookAssumption DEF Tick
  <2>. QED
    BY <2>1, <2>2, <2>3
<1>. QED
  BY <1>3, <1>4, Zenon

\* findNewMaxBid returns the greatest tick left in the bid mask, or the sentinel.
LEMMA FindNewMaxBid ==
  ASSUME NEW A \in SUBSET Tick, NEW p \in Tick, \A q \in A : q <= p
  PROVE  LET r == findNewMaxBid(A, p)
         IN  /\ r \in 0 .. MAX_TICKS - 1
             /\ \A q \in A : q <= r
             /\ r # 0 => r \in A
<1>1. A \in SUBSET (0 .. MAX_TICKS) /\ MAX_TICKS \in Nat /\ A \subseteq Nat /\ p \in Nat
  BY BookAssumption DEF Tick
<1>2. {q \in A : Word(q) <= Word(p)} = A
  <2>1. \A q \in A : Word(q) <= Word(p)
    BY <1>1, WordMonotone, Zenon
  <2>. QED
    BY <2>1, Zenon
<1>3. CASE A = {}
  BY <1>2, <1>3, BookAssumption DEF findNewMaxBid
<1>4. CASE A # {}
  <2>1. findNewMaxBid(A, p) = Greatest(A)
    BY <1>2, <1>4, Zenon DEF findNewMaxBid
  <2>2. Greatest(A) \in A /\ \A q \in A : q <= Greatest(A)
    BY <1>1, <1>4, GreatestIsGreatest, Zenon
  <2>3. Greatest(A) \in Nat /\ 1 <= Greatest(A) /\ Greatest(A) < MAX_TICKS /\ MAX_TICKS \in Nat
    <3>1. Greatest(A) \in Tick
      BY <2>2, Zenon
    <3>. QED
      BY <3>1, BookAssumption DEF Tick
  <2>. QED
    BY <2>1, <2>2, <2>3
<1>. QED
  BY <1>3, <1>4, Zenon

\* SlotId::nextGen keeps the index and never yields generation 0.
LEMMA NextGenType ==
  ASSUME NEW i \in Idx, NEW g \in Gen
  PROVE  NextGen(Make(i, g)) \in Handle /\ NextGen(Make(i, g)).index = i
  BY MaxGenAssumption DEF NextGen, Make, Handle, Gen

\* Resting nodes are nodes of the pool, and none is the null link.
LEMMA RestingInIdx == TypeOK => Resting \subseteq Idx
  BY BookAssumption DEF TypeOK, Resting, Idx

\* The part of TypeOK about the fields of the nodes.
LEMMA NodeTypes ==
  ASSUME TypeOK
  PROVE  /\ next \in [Idx -> Link] /\ prev \in [Idx -> Link] /\ price \in [Idx -> 0 .. MAX_TICKS - 1]
         /\ qty \in [Idx -> Nat] /\ side \in [Idx -> Side] /\ gen \in [Idx -> 0 .. MaxGen] /\ sys \in [Idx -> Nat]
  BY Zenon DEF TypeOK

\* releaseId of a resting node frees that node and no other.
LEMMA ReleaseId ==
  ASSUME TypeOK, NodesAccountedFor, NEW n \in Resting, gen[n] # 0, releaseId(n)
  PROVE  /\ Resting' = Resting \ {n}
         /\ NodesAccountedFor'
         /\ freeStack' \in Seq(Handle)
         /\ nextAvailableIdx' = nextAvailableIdx
<1> DEFINE e == NextGen(Make(n, gen[n]))
<1>0. n \in Idx
  BY RestingInIdx, Zenon
<1>a. gen[n] \in Gen
  BY <1>0, MaxGenAssumption, NodeTypes DEF Gen
<1>1. e \in Handle /\ e.index = n
  BY <1>0, <1>a, NextGenType, Zenon
<1>2. freeStack \in Seq(Handle) /\ freeStack' = Append(freeStack, e) /\ nextAvailableIdx' = nextAvailableIdx
  BY Zenon DEF TypeOK, releaseId
<1> HIDE DEF e
<1>3. /\ freeStack' \in Seq(Handle)
      /\ Len(freeStack') = Len(freeStack) + 1
      /\ Len(freeStack) \in Nat
      /\ \A k \in 1 .. Len(freeStack) : freeStack'[k] = freeStack[k]
      /\ freeStack'[Len(freeStack) + 1] = e
  BY <1>1, <1>2
<1>4. Free' = Free \cup {n}
  BY <1>1, <1>3 DEF Free
<1>5. n \notin Free /\ n < nextAvailableIdx
  BY DEF Resting, TypeOK
<1>6. NodesAccountedFor'
  BY <1>1, <1>2, <1>3, <1>5 DEF NodesAccountedFor, Free
<1>. QED
  BY <1>2, <1>3, <1>4, <1>6, Zenon DEF Resting

\* acquireId hands out a node that is not resting, and no other starts to rest.
LEMMA AcquireId ==
  ASSUME TypeOK, NodesAccountedFor, CanAcquire, acquireId
  PROVE  /\ AcquiredId \in Handle
         /\ AcquiredId.index \notin Resting
         /\ Resting' = Resting \cup {AcquiredId.index}
         /\ NodesAccountedFor'
         /\ freeStack' \in Seq(Handle)
         /\ nextAvailableIdx' \in 1 .. MAX_BOOK_ORDERS
<1>1. CASE freeStack # <<>>
  <2> DEFINE m == Len(freeStack)
             i == freeStack[m].index
  <2>1. m \in Nat /\ m > 0 /\ freeStack[m] \in Handle
    BY <1>1 DEF TypeOK
  <2>2. AcquiredId = freeStack[m]
    BY <1>1, Zenon DEF AcquiredId
  <2>3. freeStack' = SubSeq(freeStack, 1, m - 1) /\ nextAvailableIdx' = nextAvailableIdx
    BY <1>1, Zenon DEF acquireId
  <2> HIDE DEF m
  <2>4. /\ freeStack' \in Seq(Handle)
        /\ Len(freeStack') = m - 1
        /\ \A k \in 1 .. m - 1 : freeStack'[k] = freeStack[k]
    <3>1. freeStack \in Seq(Handle) /\ m - 1 \in 0 .. Len(freeStack) /\ 1 \in 1 .. Len(freeStack) + 1
      BY <2>1 DEF TypeOK, m
    <3>. QED
      BY <3>1, <2>3, <2>1
  <2>5. Free = Free' \cup {i}
    BY <2>1, <2>4 DEF Free, m
  <2>6. i \notin Free'
    BY <2>1, <2>4 DEF Free, NodesAccountedFor, m
  <2>7. i \in 1 .. nextAvailableIdx - 1
    <3>0. i \in Idx
      BY <2>1, Zenon DEF Handle
    <3>a. nextAvailableIdx \in Nat
      BY BookAssumption DEF TypeOK
    <3>b. i \in Nat \ {0}
      BY <3>0, BookAssumption DEF Idx
    <3>1. i \in Nat \ {0} /\ nextAvailableIdx \in Nat
      BY <3>a, <3>b, Zenon
    <3>2. i < nextAvailableIdx
      BY <2>1 DEF NodesAccountedFor, m
    <3>. QED
      BY <3>1, <3>2
  <2>8. NodesAccountedFor'
    BY <2>1, <2>3, <2>4 DEF NodesAccountedFor, m
  <2>9. i \notin Resting /\ Resting' = Resting \cup {i}
    <3> HIDE DEF i
    <3>. QED
      BY <2>3, <2>5, <2>6, <2>7, Zenon DEF Resting
  <2>10. nextAvailableIdx' \in 1 .. MAX_BOOK_ORDERS
    BY <2>3, Zenon DEF TypeOK
  <2>. QED
    BY <2>1, <2>2, <2>4, <2>8, <2>9, <2>10, Zenon
<1>2. CASE freeStack = <<>>
  <2>1. /\ AcquiredId = Make(nextAvailableIdx, 1)
        /\ freeStack' = freeStack /\ nextAvailableIdx' = nextAvailableIdx + 1
        /\ nextAvailableIdx < MAX_BOOK_ORDERS
    BY <1>2, Zenon DEF AcquiredId, acquireId, CanAcquire
  <2>2. AcquiredId \in Handle /\ AcquiredId.index = nextAvailableIdx
    BY <2>1, BookAssumption, MaxGenAssumption DEF Make, Handle, Idx, Gen, TypeOK
  <2>3. Free = {} /\ Free' = {}
    BY <1>2, <2>1 DEF Free
  <2>4. NodesAccountedFor'
    BY <1>2, <2>1 DEF NodesAccountedFor
  <2>. QED
    <3>1. nextAvailableIdx \in Nat \ {0} /\ MAX_BOOK_ORDERS \in Nat
      BY BookAssumption DEF TypeOK
    <3>2. freeStack' \in Seq(Handle)
      BY <2>1, Zenon DEF TypeOK
    <3>3. Resting = 1 .. nextAvailableIdx - 1 /\ Resting' = 1 .. nextAvailableIdx
      BY <2>1, <2>3, <3>1 DEF Resting
    <3>. QED
      BY <2>1, <2>2, <2>4, <3>1, <3>2, <3>3
<1>. QED
  BY <1>1, <1>2, Zenon

\* getBestAsk and getBestBid find the cached best price whenever it crosses.
LEMMA CrossingPriceIsBest ==
  ASSUME TypeOK, OccupancyExact, BestPricesExact, order.price \in Tick
  PROVE  /\ order.side = "Buy" => CrossingPrice = IF minAsk <= order.price THEN minAsk ELSE 0
         /\ order.side # "Buy" => CrossingPrice = IF maxBid >= order.price THEN maxBid ELSE 0
<1> DEFINE limit == order.price
<1>1. limit \in Nat /\ 1 <= limit /\ limit < MAX_TICKS /\ MAX_TICKS \in Nat
  BY BookAssumption DEF Tick
<1>2. minAsk \in Nat /\ maxBid \in Nat
  BY BookAssumption DEF TypeOK
<1>3. mask["Sell"] \subseteq Tick /\ mask["Buy"] \subseteq Tick
  BY Zenon DEF TypeOK, Side
<1>3a. mask["Sell"] \subseteq Nat /\ mask["Buy"] \subseteq 0 .. MAX_TICKS /\ mask["Buy"] \subseteq Nat
  BY <1>3, BookAssumption DEF Tick
<1>4. ASSUME minAsk <= limit
      PROVE  getBestAsk(limit) = minAsk
  <2> DEFINE scanned == {q \in mask["Sell"] : Word(minAsk) <= Word(q) /\ Word(q) <= Word(limit)}
  <2>1. minAsk \in mask["Sell"]
    BY <1>1, <1>2, <1>4 DEF BestPricesExact
  <2>2. head["Sell"][minAsk] # 0
    BY <1>3, <2>1, Zenon DEF OccupancyExact, Side
  <2>3. Word(minAsk) \in Nat /\ Word(minAsk) <= Word(limit) /\ Word(minAsk) <= Word(minAsk)
    BY <1>1, <1>2, <1>4, WordMonotone
  <2>4. minAsk \in scanned
    BY <2>1, <2>3, Zenon
  <2>5. scanned \in SUBSET Nat /\ \A q \in scanned : q \in mask["Sell"]
    BY <1>3a, Zenon
  <2> HIDE DEF scanned
  <2>6. Least(scanned) \in scanned /\ \A q \in scanned : Least(scanned) <= q
    BY <2>4, <2>5, LeastIsLeast, Zenon
  <2>7. Least(scanned) = minAsk
    <3>1. minAsk <= Least(scanned) /\ Least(scanned) <= minAsk /\ Least(scanned) \in Nat
      BY <2>4, <2>5, <2>6, Zenon DEF BestPricesExact
    <3>. QED
      BY <3>1, <1>2
  <2>. QED
    BY <1>4, <2>2, <2>4, <2>7, Zenon DEF getBestAsk, scanned
<1>5. ASSUME maxBid >= limit
      PROVE  getBestBid(limit) = maxBid
  <2> DEFINE scanned == {q \in mask["Buy"] : Word(q) <= Word(maxBid) /\ Word(limit) <= Word(q)}
  <2>1. maxBid \in mask["Buy"]
    BY <1>1, <1>2, <1>5 DEF BestPricesExact
  <2>2. head["Buy"][maxBid] # 0
    BY <1>3, <2>1, Zenon DEF OccupancyExact, Side
  <2>3. Word(maxBid) \in Nat /\ Word(limit) <= Word(maxBid) /\ Word(maxBid) <= Word(maxBid)
    BY <1>1, <1>2, <1>5, WordMonotone
  <2>4. maxBid \in scanned
    BY <2>1, <2>3, Zenon
  <2>5. scanned \in SUBSET (0 .. MAX_TICKS) /\ \A q \in scanned : q \in mask["Buy"] /\ q \in Nat
    BY <1>3a, Zenon
  <2> HIDE DEF scanned
  <2>6. Greatest(scanned) \in scanned /\ \A q \in scanned : q <= Greatest(scanned)
    BY <2>4, <2>5, GreatestIsGreatest, <1>1, Zenon
  <2>7. Greatest(scanned) = maxBid
    <3>1. maxBid <= Greatest(scanned) /\ Greatest(scanned) <= maxBid /\ Greatest(scanned) \in Nat
      BY <2>4, <2>5, <2>6, Zenon DEF BestPricesExact
    <3>. QED
      BY <3>1, <1>2
  <2>. QED
    BY <1>5, <2>2, <2>4, <2>7, Zenon DEF getBestBid, scanned
<1>. QED
  BY <1>1, <1>2, <1>4, <1>5 DEF CrossingPrice

-----------------------------------------------------------------------------
(* Removing and reducing a node *)

\* The effect on the lists shared by cancelOrder and by a fill that empties
\* the head of a level: node i is unlinked and its quantity leaves the level.
Unlinked(i) ==
    LET s == side[i]
        p == price[i]
    IN  /\ Resting' = Resting \ {i}
        /\ next' = IF prev[i] # 0 THEN [next EXCEPT ![prev[i]] = next[i]] ELSE next
        /\ head' = IF prev[i] = 0 THEN [head EXCEPT ![s][p] = next[i]] ELSE head
        /\ prev' = IF next[i] # 0 THEN [prev EXCEPT ![next[i]] = prev[i]] ELSE prev
        /\ tail' = IF next[i] = 0 THEN [tail EXCEPT ![s][p] = prev[i]] ELSE tail
        /\ volume' = [volume EXCEPT ![s][p] = @ - qty[i]]
        /\ IF volume'[s][p] = 0 THEN Vacate(s, p) ELSE KeepOccupancy
        /\ \A k \in Resting \ {i} : qty'[k] = qty[k]
        /\ UNCHANGED <<price, side, gen, sys, nextOrder>>

\* What unlinking a node writes, member by member.
LEMMA UnlinkPointwise ==
  ASSUME TypeOK, NodesLinked, NEW i \in Resting, Unlinked(i)
  PROVE  /\ i \in Idx /\ side[i] \in Side /\ price[i] \in Tick
         /\ \A k \in Idx : next'[k] = IF prev[i] # 0 /\ k = prev[i] THEN next[i] ELSE next[k]
         /\ \A k \in Idx : prev'[k] = IF next[i] # 0 /\ k = next[i] THEN prev[i] ELSE prev[k]
         /\ \A t \in Side, q \in Tick : head'[t][q] =
              IF prev[i] = 0 /\ t = side[i] /\ q = price[i] THEN next[i] ELSE head[t][q]
         /\ \A t \in Side, q \in Tick : tail'[t][q] =
              IF next[i] = 0 /\ t = side[i] /\ q = price[i] THEN prev[i] ELSE tail[t][q]
         /\ \A t \in Side, q \in Tick : volume'[t][q] =
              IF t = side[i] /\ q = price[i] THEN volume[t][q] - qty[i] ELSE volume[t][q]
         /\ \A k \in Resting : side[k] \in Side /\ price[k] \in Tick /\ sys[k] \in Nat
         /\ \A k \in Resting : k \in Idx /\ next[k] \in Link /\ prev[k] \in Link
         /\ 0 \notin Resting
<1>1. Resting \subseteq Idx /\ i \in Idx
  BY RestingInIdx, Zenon
<1>2. side[i] \in Side /\ price[i] \in Tick
  BY <1>1, Zenon DEF TypeOK, NodesLinked
<1>3. \A k \in Idx : next'[k] = IF prev[i] # 0 /\ k = prev[i] THEN next[i] ELSE next[k]
  BY <1>1, Zenon DEF TypeOK, Unlinked
<1>4. \A k \in Idx : prev'[k] = IF next[i] # 0 /\ k = next[i] THEN prev[i] ELSE prev[k]
  BY <1>1, Zenon DEF TypeOK, Unlinked
<1>5. \A t \in Side, q \in Tick : head'[t][q] =
         IF prev[i] = 0 /\ t = side[i] /\ q = price[i] THEN next[i] ELSE head[t][q]
  BY <1>1, <1>2, Zenon DEF TypeOK, Unlinked
<1>6. \A t \in Side, q \in Tick : tail'[t][q] =
         IF next[i] = 0 /\ t = side[i] /\ q = price[i] THEN prev[i] ELSE tail[t][q]
  BY <1>1, <1>2, Zenon DEF TypeOK, Unlinked
<1>7. \A t \in Side, q \in Tick : volume'[t][q] =
         IF t = side[i] /\ q = price[i] THEN volume[t][q] - qty[i] ELSE volume[t][q]
  BY <1>1, <1>2, Zenon DEF TypeOK, Unlinked
<1>8. \A k \in Resting : side[k] \in Side /\ price[k] \in Tick /\ sys[k] \in Nat
  BY <1>1, Zenon DEF TypeOK, NodesLinked
<1>9. \A k \in Resting : k \in Idx /\ next[k] \in Link /\ prev[k] \in Link
  BY <1>1, Zenon DEF TypeOK
<1>10. 0 \notin Resting
  BY <1>1 DEF Idx
<1>. QED
  BY <1>1, <1>2, <1>3, <1>4, <1>5, <1>6, <1>7, <1>8, <1>9, <1>10, Zenon

\* What the lists say of one resting node and the nodes beside it.
LEMMA Neighbours ==
  ASSUME TypeOK, NodesLinked, ArrivalOrder, NEW k \in Resting
  PROVE  /\ k \in Idx /\ k # 0 /\ side[k] \in Side /\ price[k] \in Tick /\ sys[k] \in Nat
         /\ next[k] # 0 => /\ next[k] \in Resting /\ SameLevel(k, next[k]) /\ prev[next[k]] = k
                           /\ next[k] # k /\ sys[k] < sys[next[k]]
         /\ prev[k] # 0 => /\ prev[k] \in Resting /\ SameLevel(k, prev[k]) /\ next[prev[k]] = k
                           /\ prev[k] # k /\ sys[prev[k]] < sys[k]
         /\ next[k] = 0 => tail[side[k]][price[k]] = k
         /\ prev[k] = 0 => head[side[k]][price[k]] = k
         /\ head[side[k]][price[k]] # 0
<1>1. k \in Idx /\ k # 0 /\ side[k] \in Side /\ price[k] \in Tick /\ sys[k] \in Nat
  BY RestingInIdx, NodeTypes DEF Idx, NodesLinked
<1>2. /\ next[k] # 0 => next[k] \in Resting /\ SameLevel(k, next[k]) /\ prev[next[k]] = k
      /\ prev[k] # 0 => prev[k] \in Resting /\ SameLevel(k, prev[k]) /\ next[prev[k]] = k
      /\ next[k] = 0 => tail[side[k]][price[k]] = k
      /\ prev[k] = 0 => head[side[k]][price[k]] = k
      /\ head[side[k]][price[k]] # 0
  BY Zenon DEF NodesLinked
<1>3. /\ next[k] # 0 => sys[k] < sys[next[k]]
      /\ prev[k] # 0 => sys[prev[k]] < sys[k]
  BY <1>1, <1>2, Zenon DEF ArrivalOrder
<1>. QED
  BY <1>1, <1>2, <1>3

\* Unlinking a node leaves every level a list in order of arrival.
LEMMA UnlinkKeepsFifo ==
  ASSUME TypeOK, LevelsAreFifo, NEW i \in Resting, Unlinked(i)
  PROVE  LevelsAreFifo'
<1> USE DEF Link
<1>1. NodesLinked /\ LevelEnds /\ ArrivalOrder
  BY Zenon DEF LevelsAreFifo
<1>l. /\ \A k \in Idx : next'[k] = IF prev[i] # 0 /\ k = prev[i] THEN next[i] ELSE next[k]
      /\ \A k \in Idx : prev'[k] = IF next[i] # 0 /\ k = next[i] THEN prev[i] ELSE prev[k]
  BY <1>1, UnlinkPointwise, Zenon
<1>e. /\ \A t \in Side, q \in Tick : head'[t][q] =
            IF prev[i] = 0 /\ t = side[i] /\ q = price[i] THEN next[i] ELSE head[t][q]
      /\ \A t \in Side, q \in Tick : tail'[t][q] =
            IF next[i] = 0 /\ t = side[i] /\ q = price[i] THEN prev[i] ELSE tail[t][q]
  BY <1>1, UnlinkPointwise, Zenon
<1>t. /\ \A k \in Resting : side[k] \in Side /\ price[k] \in Tick /\ sys[k] \in Nat
      /\ \A k \in Resting : k \in Idx /\ next[k] \in Link /\ prev[k] \in Link
      /\ 0 \notin Resting
  BY <1>1, UnlinkPointwise, Zenon
<1>i. /\ i \in Idx /\ i # 0 /\ side[i] \in Side /\ price[i] \in Tick
      /\ next[i] # 0 => /\ next[i] \in Resting /\ SameLevel(i, next[i]) /\ prev[next[i]] = i
                        /\ next[i] # i /\ next[i] \in Idx
      /\ prev[i] # 0 => /\ prev[i] \in Resting /\ SameLevel(i, prev[i]) /\ next[prev[i]] = i
                        /\ prev[i] # i /\ prev[i] \in Idx
      /\ next[i] = 0 => tail[side[i]][price[i]] = i
      /\ prev[i] = 0 => head[side[i]][price[i]] = i
  BY <1>1, <1>t, Neighbours, Zenon
<1>2. /\ Resting' = Resting \ {i} /\ \A k \in Resting \ {i} : qty'[k] = qty[k]
      /\ price' = price /\ side' = side /\ gen' = gen /\ sys' = sys /\ nextOrder' = nextOrder
  BY Zenon DEF Unlinked
<1>3. NodesLinked'
  <2> SUFFICES ASSUME NEW k \in Resting, k # i
               PROVE  /\ price[k] \in Tick /\ qty[k] > 0 /\ gen[k] # 0
                      /\ head'[side[k]][price[k]] # 0
                      /\ IF next'[k] = 0 THEN tail'[side[k]][price[k]] = k
                         ELSE next'[k] \in Resting /\ next'[k] # i /\ SameLevel(k, next'[k]) /\ prev'[next'[k]] = k
                      /\ IF prev'[k] = 0 THEN head'[side[k]][price[k]] = k
                         ELSE prev'[k] \in Resting /\ prev'[k] # i /\ SameLevel(k, prev'[k]) /\ next'[prev'[k]] = k
    BY <1>2 DEF NodesLinked, SameLevel
  <2>1. price[k] \in Tick /\ qty[k] > 0 /\ gen[k] # 0
    BY <1>1, Zenon DEF NodesLinked
  <2>k. /\ k \in Idx /\ k # 0 /\ side[k] \in Side /\ price[k] \in Tick
        /\ next[k] # 0 => next[k] \in Resting /\ SameLevel(k, next[k]) /\ prev[next[k]] = k /\ next[k] \in Idx
        /\ prev[k] # 0 => prev[k] \in Resting /\ SameLevel(k, prev[k]) /\ next[prev[k]] = k /\ prev[k] \in Idx
        /\ next[k] = 0 => tail[side[k]][price[k]] = k
        /\ prev[k] = 0 => head[side[k]][price[k]] = k
        /\ head[side[k]][price[k]] # 0
    BY <1>1, <1>t, Neighbours, Zenon
  <2>n. /\ next'[k] = IF prev[i] # 0 /\ k = prev[i] THEN next[i] ELSE next[k]
        /\ prev'[k] = IF next[i] # 0 /\ k = next[i] THEN prev[i] ELSE prev[k]
    BY <1>l, <2>k, Zenon
  <2>h. head'[side[k]][price[k]] = IF prev[i] = 0 /\ SameLevel(k, i) THEN next[i] ELSE head[side[k]][price[k]]
    BY <1>e, <2>k DEF SameLevel
  <2>e. tail'[side[k]][price[k]] = IF next[i] = 0 /\ SameLevel(k, i) THEN prev[i] ELSE tail[side[k]][price[k]]
    BY <1>e, <2>k DEF SameLevel
  <2>o. SameLevel(k, i) => next[i] # 0 \/ prev[i] # 0
    BY <1>1, <1>t DEF ArrivalOrder, SameLevel
  <2>2. head'[side[k]][price[k]] # 0
    BY <2>k, <2>h, <2>o, Zenon
  <2>3. IF next'[k] = 0 THEN tail'[side[k]][price[k]] = k
        ELSE next'[k] \in Resting /\ next'[k] # i /\ SameLevel(k, next'[k]) /\ prev'[next'[k]] = k
    <3>1. CASE prev[i] = k
      <4>1. next[i] # 0 => prev'[next[i]] = k
        BY <1>i, <1>l, <3>1, Zenon
      <4>. QED
        BY <1>i, <2>k, <2>n, <2>e, <3>1, <4>1 DEF SameLevel
    <3>2. CASE prev[i] # k
      <4>1. next[k] # i /\ (next[k] # 0 => prev'[next[k]] = k)
        BY <1>i, <1>l, <2>k, <3>2, Zenon
      <4>. QED
        BY <1>i, <2>k, <2>n, <2>e, <3>2, <4>1 DEF SameLevel
    <3>. QED
      BY <3>1, <3>2, Zenon
  <2>4. IF prev'[k] = 0 THEN head'[side[k]][price[k]] = k
        ELSE prev'[k] \in Resting /\ prev'[k] # i /\ SameLevel(k, prev'[k]) /\ next'[prev'[k]] = k
    <3>1. CASE next[i] = k
      <4>1. prev[i] # 0 => next'[prev[i]] = k
        BY <1>i, <1>l, <3>1, Zenon
      <4>. QED
        BY <1>i, <2>k, <2>n, <2>h, <3>1, <4>1 DEF SameLevel
    <3>2. CASE next[i] # k
      <4>1. prev[k] # i /\ (prev[k] # 0 => next'[prev[k]] = k)
        BY <1>i, <1>l, <2>k, <3>2, Zenon
      <4>. QED
        BY <1>i, <2>k, <2>n, <2>h, <3>2, <4>1 DEF SameLevel
    <3>. QED
      BY <3>1, <3>2, Zenon
  <2>. QED
    BY <2>1, <2>2, <2>3, <2>4, Zenon
<1>4. LevelEnds'
  <2> SUFFICES ASSUME NEW t \in Side, NEW q \in Tick
               PROVE  /\ head'[t][q] = 0 <=> tail'[t][q] = 0
                      /\ head'[t][q] # 0 => /\ head'[t][q] \in Resting \ {i} /\ AtLevel(head'[t][q], t, q)
                                            /\ prev'[head'[t][q]] = 0
                      /\ tail'[t][q] # 0 => /\ tail'[t][q] \in Resting \ {i} /\ AtLevel(tail'[t][q], t, q)
                                            /\ next'[tail'[t][q]] = 0
    BY <1>2 DEF LevelEnds, AtLevel
  <2>l. /\ head[t][q] = 0 <=> tail[t][q] = 0
        /\ head[t][q] # 0 => head[t][q] \in Resting /\ AtLevel(head[t][q], t, q) /\ prev[head[t][q]] = 0
        /\ tail[t][q] # 0 => tail[t][q] \in Resting /\ AtLevel(tail[t][q], t, q) /\ next[tail[t][q]] = 0
    BY <1>1, Zenon DEF LevelEnds
  <2>h. /\ head'[t][q] = IF prev[i] = 0 /\ AtLevel(i, t, q) THEN next[i] ELSE head[t][q]
        /\ tail'[t][q] = IF next[i] = 0 /\ AtLevel(i, t, q) THEN prev[i] ELSE tail[t][q]
    BY <1>e DEF AtLevel
  <2>1. head'[t][q] = 0 <=> tail'[t][q] = 0
    <3>1. AtLevel(i, t, q) => head[t][q] # 0
      BY <1>1, <2>l DEF NodesLinked, AtLevel
    <3>. QED
      BY <1>i, <2>l, <2>h, <3>1, Zenon DEF AtLevel
  <2>2. head'[t][q] # 0 => /\ head'[t][q] \in Resting \ {i} /\ AtLevel(head'[t][q], t, q)
                           /\ prev'[head'[t][q]] = 0
    <3>1. next[i] # 0 => prev'[next[i]] = prev[i]
      BY <1>i, <1>l, Zenon
    <3>2. head[t][q] # 0 /\ head[t][q] # next[i] => prev'[head[t][q]] = 0
      BY <1>l, <1>t, <2>l, Zenon
    <3>3. head[t][q] # 0 => head[t][q] # next[i]
      BY <1>i, <2>l, Zenon
    <3>. QED
      BY <1>i, <2>l, <2>h, <3>1, <3>2, <3>3, Zenon DEF AtLevel, SameLevel
  <2>3. tail'[t][q] # 0 => /\ tail'[t][q] \in Resting \ {i} /\ AtLevel(tail'[t][q], t, q)
                           /\ next'[tail'[t][q]] = 0
    <3>1. prev[i] # 0 => next'[prev[i]] = next[i]
      BY <1>i, <1>l, Zenon
    <3>2. tail[t][q] # 0 /\ tail[t][q] # prev[i] => next'[tail[t][q]] = 0
      BY <1>l, <1>t, <2>l, Zenon
    <3>3. tail[t][q] # 0 => tail[t][q] # prev[i]
      BY <1>i, <2>l, Zenon
    <3>. QED
      BY <1>i, <2>l, <2>h, <3>1, <3>2, <3>3, Zenon DEF AtLevel, SameLevel
  <2>. QED
    BY <2>1, <2>2, <2>3, Zenon
<1>5. ArrivalOrder'
  <2>1. \A k \in Resting \ {i} : next'[k] # 0 => sys[k] < sys[next'[k]]
    BY <1>1, <1>l, <1>t DEF NodesLinked, ArrivalOrder
  <2>2. \A j, k \in Resting \ {i} :
          SameLevel(j, k) /\ sys[j] < sys[k] =>
            /\ next'[j] # 0 /\ sys[next'[j]] <= sys[k]
            /\ prev'[k] # 0 /\ sys[j] <= sys[prev'[k]]
    <3> SUFFICES ASSUME NEW j \in Resting \ {i}, NEW k \in Resting \ {i}, SameLevel(j, k), sys[j] < sys[k]
                 PROVE  /\ next'[j] # 0 /\ sys[next'[j]] <= sys[k]
                        /\ prev'[k] # 0 /\ sys[j] <= sys[prev'[k]]
      BY Zenon
    <3>1. /\ next[j] \in Resting /\ SameLevel(j, next[j]) /\ prev[next[j]] = j /\ sys[next[j]] <= sys[k]
          /\ prev[k] \in Resting /\ SameLevel(k, prev[k]) /\ next[prev[k]] = k /\ sys[j] <= sys[prev[k]]
      BY <1>1 DEF NodesLinked, ArrivalOrder
    <3>2. next'[j] # 0 /\ sys[next'[j]] <= sys[k]
      <4>1. CASE next[j] = i
        <5>1. sys[i] < sys[k] /\ SameLevel(i, k)
          BY <1>1, <3>1, <4>1, <1>l, <1>t DEF ArrivalOrder, SameLevel
        <5>2. next[i] # 0 /\ sys[next[i]] <= sys[k]
          BY <1>1, <5>1, Zenon DEF ArrivalOrder
        <5>3. prev[i] = j /\ j # 0 /\ j \in Idx
          BY <3>1, <4>1, <1>l, <1>t, Zenon
        <5>4. next'[j] = next[i]
          BY <5>3, <1>l, <1>t, Zenon
        <5>. QED
          BY <5>2, <5>4, Zenon
      <4>2. CASE next[j] # i
        BY <1>1, <3>1, <4>2, <1>l, <1>t DEF NodesLinked
      <4>. QED
        BY <4>1, <4>2, Zenon
    <3>3. prev'[k] # 0 /\ sys[j] <= sys[prev'[k]]
      <4>1. CASE prev[k] = i
        <5>0. sys[j] # sys[i] /\ sys[j] \in Nat /\ sys[i] \in Nat
          BY <1>1, <1>l, <1>t, Zenon DEF ArrivalOrder
        <5>1. sys[j] < sys[i] /\ SameLevel(j, i)
          <6>1. sys[j] <= sys[i] /\ SameLevel(k, i)
            BY <3>1, <4>1, Zenon
          <6>2. sys[j] < sys[i]
            BY <5>0, <6>1
          <6>3. SameLevel(j, i)
            BY <6>1, Zenon DEF SameLevel
          <6>. QED
            BY <6>2, <6>3, Zenon
        <5>2. prev[i] # 0 /\ sys[j] <= sys[prev[i]]
          BY <1>1, <5>1, Zenon DEF ArrivalOrder
        <5>3. next[i] = k /\ k # 0 /\ k \in Idx
          BY <3>1, <4>1, <1>l, <1>t, Zenon
        <5>4. prev'[k] = prev[i]
          BY <5>3, <1>l, <1>t, Zenon
        <5>. QED
          BY <5>2, <5>4, Zenon
      <4>2. CASE prev[k] # i
        BY <1>1, <3>1, <4>2, <1>l, <1>t DEF NodesLinked
      <4>. QED
        BY <4>1, <4>2, Zenon
    <3>. QED
      BY <3>2, <3>3, Zenon
  <2>. QED
    BY <1>1, <1>2, <2>1, <2>2 DEF ArrivalOrder, SameLevel
<1>. QED
  BY <1>3, <1>4, <1>5, Zenon DEF LevelsAreFifo

\* Unlinking a node leaves every volume the sum of its level: the nodes behind
\* it have that much less before them.
LEMMA UnlinkKeepsVolumes ==
  ASSUME TypeOK, LevelsAreFifo, VolumeLabelled(Nat), NEW i \in Resting, Unlinked(i)
  PROVE  VolumeLabelled(Nat)'
<1> USE DEF Link
<1>1. NodesLinked /\ ArrivalOrder /\ LevelEnds
  BY Zenon DEF LevelsAreFifo
<1>l. /\ \A k \in Idx : next'[k] = IF prev[i] # 0 /\ k = prev[i] THEN next[i] ELSE next[k]
      /\ \A k \in Idx : prev'[k] = IF next[i] # 0 /\ k = next[i] THEN prev[i] ELSE prev[k]
  BY <1>1, UnlinkPointwise, Zenon
<1>v. \A t \in Side, q \in Tick : volume'[t][q] =
            IF t = side[i] /\ q = price[i] THEN volume[t][q] - qty[i] ELSE volume[t][q]
  BY <1>1, UnlinkPointwise, Zenon
<1>t. /\ \A k \in Resting : side[k] \in Side /\ price[k] \in Tick /\ sys[k] \in Nat
      /\ \A k \in Resting : k \in Idx /\ next[k] \in Link /\ prev[k] \in Link
      /\ 0 \notin Resting
  BY <1>1, UnlinkPointwise, Zenon
<1>2. /\ Resting' = Resting \ {i} /\ \A k \in Resting \ {i} : qty'[k] = qty[k]
      /\ price' = price /\ side' = side /\ sys' = sys
  BY Zenon DEF Unlinked
<1>3. \A k \in Resting : qty[k] \in Nat /\ k \in Idx
  BY RestingInIdx, NodeTypes, Zenon
<1>4. PICK pre \in [Idx -> Nat] : IsPrefixSum(pre)
  BY Zenon DEF VolumeLabelled
<1> DEFINE Later(k) == k \in Resting /\ SameLevel(i, k) /\ sys[i] < sys[k]
           new == [k \in Idx |-> IF Later(k) THEN pre[k] - qty[i] ELSE pre[k]]
<1>5. new \in [Idx -> Nat]
  <2>1. \A k \in Idx : Later(k) => pre[i] + qty[i] <= pre[k]
    BY <1>4, Zenon DEF IsPrefixSum
  <2>. QED
    BY <2>1, <1>3
<1>6. \A k \in Resting \ {i} : new[k] = IF SameLevel(i, k) /\ sys[i] < sys[k] THEN pre[k] - qty[i] ELSE pre[k]
  BY <1>3, Zenon
<1> HIDE DEF new
<1>7. \A k \in Resting \ {i} : new[k] = IF prev'[k] = 0 THEN 0 ELSE new[prev'[k]] + qty[prev'[k]]
  <2> SUFFICES ASSUME NEW k \in Resting \ {i}
               PROVE  new[k] = IF prev'[k] = 0 THEN 0 ELSE new[prev'[k]] + qty[prev'[k]]
    BY Zenon
  <2>0. pre[k] \in Nat /\ qty[k] \in Nat /\ pre[i] \in Nat /\ qty[i] \in Nat
    BY <1>3, Zenon
  <2>1. CASE prev[k] = i
    <3>1. next[i] = k /\ SameLevel(i, k) /\ sys[i] < sys[k] /\ k # 0 /\ k \in Idx
      BY <1>1, <2>1, <1>l, <1>t DEF NodesLinked, ArrivalOrder, SameLevel
    <3>2. prev'[k] = prev[i]
      BY <3>1, <1>l, <1>t, Zenon
    <3>3. new[k] = pre[i]
      BY <1>4, <1>6, <2>0, <2>1, <3>1 DEF IsPrefixSum
    <3>4. prev[i] # 0 => prev[i] \in Resting \ {i} /\ new[prev[i]] = pre[prev[i]]
      BY <1>1, <1>6, <1>l, <1>t DEF NodesLinked, ArrivalOrder
    <3>. QED
      BY <1>4, <3>2, <3>3, <3>4 DEF IsPrefixSum
  <2>2. CASE prev[k] # i
    <3>1. prev'[k] = prev[k]
      BY <1>1, <2>2, <1>l, <1>t DEF NodesLinked
    <3>2. CASE prev[k] = 0
      <4>1. ~(SameLevel(i, k) /\ sys[i] < sys[k])
        BY <1>1, <3>2, Zenon DEF ArrivalOrder
      <4>. QED
        BY <1>4, <1>6, <3>1, <3>2, <4>1, Zenon DEF IsPrefixSum
    <3>3. CASE prev[k] # 0
      <4> DEFINE j == prev[k]
      <4>0. j \in Resting \ {i} /\ SameLevel(k, j) /\ next[j] = k
        BY <1>1, <2>2, <3>3, Zenon DEF NodesLinked
      <4>1. j \in Resting \ {i} /\ SameLevel(k, j) /\ next[j] = k /\ sys[j] < sys[k]
        BY <1>1, <1>t, <4>0, Zenon DEF ArrivalOrder
      <4>2. sys[i] \in Nat /\ sys[j] \in Nat /\ sys[k] \in Nat /\ sys[i] # sys[j] /\ sys[i] # sys[k]
        BY <1>1, <4>1, <1>l, <1>t, Zenon DEF ArrivalOrder
      <4>3. SameLevel(i, k) /\ sys[i] < sys[k] <=> SameLevel(i, j) /\ sys[i] < sys[j]
        BY <1>1, <4>1, <4>2, <2>2 DEF ArrivalOrder, SameLevel
      <4>4. pre[k] = pre[j] + qty[j] /\ pre[j] \in Nat /\ qty[j] \in Nat
        BY <1>3, <1>4, <3>3, <4>1, Zenon DEF IsPrefixSum
      <4>. QED
        BY <1>6, <2>0, <3>1, <3>3, <4>1, <4>3, <4>4
    <3>. QED
      BY <3>2, <3>3, Zenon
  <2>. QED
    BY <2>1, <2>2, Zenon
<1>8. \A k \in Resting \ {i} : next'[k] = 0 => volume'[side[k]][price[k]] = new[k] + qty[k]
  <2> SUFFICES ASSUME NEW k \in Resting \ {i}, next'[k] = 0
               PROVE  volume'[side[k]][price[k]] = new[k] + qty[k]
    BY Zenon
  <2>0. pre[k] \in Nat /\ qty[k] \in Nat /\ pre[i] \in Nat /\ qty[i] \in Nat
    BY <1>3, Zenon
  <2>v. /\ side[k] \in Side /\ price[k] \in Tick
        /\ volume'[side[k]][price[k]] = IF SameLevel(i, k) THEN volume[side[k]][price[k]] - qty[i]
                                        ELSE volume[side[k]][price[k]]
    BY <1>v, <1>t DEF SameLevel
  <2>1. CASE next[k] = i
    <3>1. prev[i] = k /\ SameLevel(i, k) /\ sys[k] < sys[i] /\ next[i] = 0
      BY <1>1, <2>1, <1>l, <1>t DEF NodesLinked, ArrivalOrder, SameLevel
    <3>2. new[k] = pre[k]
      BY <1>6, <3>1, <1>l, <1>t
    <3>3. pre[i] = pre[k] + qty[k] /\ volume[side[k]][price[k]] = pre[i] + qty[i]
      BY <1>4, <3>1, <1>l, <1>t DEF IsPrefixSum, SameLevel
    <3>. QED
      BY <2>0, <2>v, <3>1, <3>2, <3>3
  <2>2. CASE next[k] # i
    <3>1. next[k] = 0
      BY <1>1, <2>2, <1>l, <1>t DEF NodesLinked
    <3>2. volume[side[k]][price[k]] = pre[k] + qty[k]
      BY <1>4, <3>1, Zenon DEF IsPrefixSum
    <3>3. SameLevel(i, k) => sys[i] < sys[k]
      BY <1>1, <3>1, <1>l, <1>t DEF ArrivalOrder, SameLevel
    <3>. QED
      BY <1>6, <2>0, <2>v, <3>2, <3>3
  <2>. QED
    BY <2>1, <2>2, Zenon
<1>9. \A j, k \in Resting \ {i} : SameLevel(j, k) /\ sys[j] < sys[k] => new[j] + qty[j] <= new[k]
  <2> SUFFICES ASSUME NEW j \in Resting \ {i}, NEW k \in Resting \ {i}, SameLevel(j, k), sys[j] < sys[k]
               PROVE  new[j] + qty[j] <= new[k]
    BY Zenon
  <2>0. /\ pre[k] \in Nat /\ qty[k] \in Nat /\ pre[i] \in Nat /\ qty[i] \in Nat
        /\ pre[j] \in Nat /\ qty[j] \in Nat /\ sys[i] \in Nat /\ sys[j] \in Nat /\ sys[k] \in Nat
    BY <1>3, <1>l, <1>t, Zenon
  <2>1. pre[j] + qty[j] <= pre[k]
    BY <1>4, Zenon DEF IsPrefixSum
  <2>2. SameLevel(i, j) <=> SameLevel(i, k)
    BY Zenon DEF SameLevel
  <2>3. CASE SameLevel(i, k) /\ sys[j] < sys[i] /\ sys[i] < sys[k]
    <3>1. pre[j] + qty[j] <= pre[i] /\ pre[i] + qty[i] <= pre[k]
      BY <1>4, <2>2, <2>3, Zenon DEF IsPrefixSum, SameLevel
    <3>. QED
      BY <1>6, <2>0, <2>3, <3>1
  <2>4. CASE ~(SameLevel(i, k) /\ sys[j] < sys[i] /\ sys[i] < sys[k])
    <3>1. sys[i] # sys[j] /\ sys[i] # sys[k]
      BY <1>1, Zenon DEF ArrivalOrder
    <3>. QED
      BY <1>6, <2>0, <2>1, <2>2, <2>4, <3>1
  <2>. QED
    BY <2>3, <2>4, Zenon
<1>10. \A k \in Resting \ {i} : prev'[k] # 0 => prev'[k] \in Resting \ {i}
  BY UnlinkKeepsFifo, <1>2, Zenon DEF LevelsAreFifo, NodesLinked
<1>11. PICK lab \in [Idx -> Nat] :
         /\ \A k \in Resting \ {i} :
              /\ lab[k] = IF prev'[k] = 0 THEN 0 ELSE lab[prev'[k]] + qty[prev'[k]]
              /\ next'[k] = 0 => volume'[side[k]][price[k]] = lab[k] + qty[k]
         /\ \A j, k \in Resting \ {i} : SameLevel(j, k) /\ sys[j] < sys[k] => lab[j] + qty[j] <= lab[k]
  BY <1>5, <1>7, <1>8, <1>9, Zenon
<1>12. IsPrefixSum(lab)'
  BY <1>2, <1>10, <1>11 DEF IsPrefixSum, SameLevel
<1>. QED
  BY <1>12, Zenon DEF VolumeLabelled

\* Unlinking a node, with the call of updateOccupancy when its level empties,
\* keeps masks and best prices exact.
LEMMA UnlinkKeepsOccupancy ==
  ASSUME TypeOK, LevelsAreFifo, OccupancyExact, BestPricesExact, VolumeLabelled(Nat),
         NEW i \in Resting, Unlinked(i)
  PROVE  /\ OccupancyExact' /\ BestPricesExact'
         /\ mask' \in [Side -> SUBSET Tick] /\ minAsk' \in 1 .. MAX_TICKS /\ maxBid' \in 0 .. MAX_TICKS - 1
<1> DEFINE s == side[i]
           p == price[i]
<1>1. NodesLinked /\ ArrivalOrder /\ LevelEnds
  BY Zenon DEF LevelsAreFifo
<1>e. /\ \A t \in Side, q \in Tick : head'[t][q] =
            IF prev[i] = 0 /\ t = side[i] /\ q = price[i] THEN next[i] ELSE head[t][q]
      /\ \A t \in Side, q \in Tick : tail'[t][q] =
            IF next[i] = 0 /\ t = side[i] /\ q = price[i] THEN prev[i] ELSE tail[t][q]
  BY <1>1, UnlinkPointwise, Zenon
<1>v. \A t \in Side, q \in Tick : volume'[t][q] =
            IF t = side[i] /\ q = price[i] THEN volume[t][q] - qty[i] ELSE volume[t][q]
  BY <1>1, UnlinkPointwise, Zenon
<1>2. LevelsAreFifo' /\ VolumeLabelled(Nat)'
  BY UnlinkKeepsFifo, UnlinkKeepsVolumes, Zenon
<1>3. /\ Resting' = Resting \ {i} /\ \A k \in Resting \ {i} : qty'[k] = qty[k]
      /\ price' = price /\ side' = side /\ sys' = sys
  BY Zenon DEF Unlinked
<1>4. \A k \in Resting : qty[k] \in Nat /\ k \in Idx /\ qty[k] > 0
  BY <1>1, RestingInIdx, NodeTypes, Zenon DEF NodesLinked
<1>5. s \in Side /\ p \in Tick /\ i \in Idx
  BY UnlinkPointwise, <1>1, Zenon
<1>6. head'[s][p] # 0 => volume'[s][p] \in Nat /\ volume'[s][p] > 0
  <2> SUFFICES ASSUME head'[s][p] # 0
               PROVE  volume'[s][p] \in Nat /\ volume'[s][p] > 0
    BY Zenon
  <2>1. PICK lab \in [Idx -> Nat] : IsPrefixSum(lab)'
    BY <1>2, Zenon DEF VolumeLabelled
  <2>2. PICK t : t = tail'[s][p]
    BY Zenon
  <2>3. t \in Resting \ {i} /\ side[t] = s /\ price[t] = p /\ next'[t] = 0
    BY <1>2, <1>3, <1>5, <2>2 DEF LevelsAreFifo, LevelEnds, AtLevel
  <2>4. volume'[s][p] = lab[t] + qty[t]
    BY <1>3, <2>1, <2>3, Zenon DEF IsPrefixSum
  <2>. QED
    BY <1>4, <2>3, <2>4
<1>7. head'[s][p] = 0 => volume'[s][p] = 0
  <2> SUFFICES ASSUME head'[s][p] = 0
               PROVE  volume'[s][p] = 0
    BY Zenon
  <2>1. PICK pre \in [Idx -> Nat] : IsPrefixSum(pre)
    BY Zenon DEF VolumeLabelled
  <2>2. prev[i] = 0 /\ next[i] = 0
    BY <1>1, <1>5, <1>e DEF NodesLinked
  <2>3. volume[s][p] = 0 + qty[i]
    BY <2>1, <2>2, Zenon DEF IsPrefixSum
  <2>4. volume'[s][p] = volume[s][p] - qty[i]
    BY <1>5, <1>v, Zenon
  <2>. QED
    BY <1>4, <2>3, <2>4
<1>8. mask' = IF head'[s][p] = 0 THEN [mask EXCEPT ![s] = @ \ {p}] ELSE mask
  BY <1>6, <1>7 DEF Unlinked, Vacate, KeepOccupancy
<1>9. mask' \in [Side -> SUBSET Tick]
  BY <1>8, Zenon DEF TypeOK
<1>10. OccupancyExact'
  <2> SUFFICES ASSUME NEW t \in Side, NEW q \in Tick
               PROVE  /\ q \in mask'[t] <=> head'[t][q] # 0
                      /\ volume'[t][q] >= 0
                      /\ volume'[t][q] = 0 <=> head'[t][q] = 0
    BY Zenon DEF OccupancyExact
  <2>1. CASE t = s /\ q = p
    <3>1. q \in mask'[t] <=> head'[t][q] # 0
      <4>1. p \in mask[s]
        BY <1>1, <1>5, Zenon DEF OccupancyExact, NodesLinked
      <4>. QED
        BY <1>8, <2>1, <4>1, <1>5, Zenon DEF TypeOK
    <3>. QED
      BY <2>1, <3>1, <1>6, <1>7
  <2>2. CASE ~(t = s /\ q = p)
    <3>1. head'[t][q] = head[t][q] /\ volume'[t][q] = volume[t][q]
      BY <1>e, <1>v, <2>2
    <3>2. q \in mask'[t] <=> q \in mask[t]
      BY <1>8, <2>2, <1>5, Zenon DEF TypeOK
    <3>. QED
      BY <3>1, <3>2, Zenon DEF OccupancyExact
  <2>. QED
    BY <2>1, <2>2, Zenon
<1>11. BestPricesExact' /\ minAsk' \in 1 .. MAX_TICKS /\ maxBid' \in 0 .. MAX_TICKS - 1
  <2>1. CASE head'[s][p] # 0
    <3>1. mask' = mask /\ minAsk' = minAsk /\ maxBid' = maxBid
      BY <1>6, <2>1 DEF Unlinked, KeepOccupancy
    <3>. QED
      BY <3>1, Zenon DEF BestPricesExact, TypeOK
  <2>2. CASE head'[s][p] = 0
    <3>1. /\ volume'[s][p] = 0
          /\ maxBid' = IF s = "Buy" /\ p = maxBid THEN findNewMaxBid(mask'["Buy"], p) ELSE maxBid
          /\ minAsk' = IF s = "Sell" /\ p = minAsk THEN findNewMinAsk(mask'["Sell"], p) ELSE minAsk
          /\ mask' = [mask EXCEPT ![s] = @ \ {p}]
      BY <1>7, <1>8, <2>2, Zenon DEF Unlinked, Vacate
    <3>2. /\ mask'["Sell"] \subseteq mask["Sell"] /\ mask'["Buy"] \subseteq mask["Buy"]
          /\ mask'["Sell"] \in SUBSET Tick /\ mask'["Buy"] \in SUBSET Tick
          /\ s # "Sell" => mask'["Sell"] = mask["Sell"]
          /\ s # "Buy" => mask'["Buy"] = mask["Buy"]
          /\ \A q \in Tick : q # p /\ q \in mask["Sell"] => q \in mask'["Sell"]
          /\ \A q \in Tick : q # p /\ q \in mask["Buy"] => q \in mask'["Buy"]
      BY <3>1, <1>9, Zenon DEF TypeOK, Side
    <3>3. /\ \A q \in mask'["Sell"] : minAsk' <= q
          /\ minAsk' # MAX_TICKS => minAsk' \in mask'["Sell"]
          /\ minAsk' \in 1 .. MAX_TICKS
      <4>1. CASE s = "Sell" /\ p = minAsk
        <5>1. \A q \in mask'["Sell"] : p <= q
          BY <3>2, <4>1, Zenon DEF BestPricesExact
        <5>. QED
          BY <3>1, <3>2, <4>1, <5>1, <1>5, FindNewMinAsk, Zenon
      <4>2. CASE ~(s = "Sell" /\ p = minAsk)
        <5>1. minAsk' = minAsk /\ minAsk \in 1 .. MAX_TICKS
          BY <3>1, <4>2, Zenon DEF TypeOK
        <5>2. minAsk # MAX_TICKS => minAsk \in Tick
          BY <5>1, BookAssumption DEF Tick
        <5>. QED
          BY <3>2, <4>2, <5>1, <5>2, Zenon DEF BestPricesExact
      <4>. QED
        BY <4>1, <4>2, Zenon
    <3>4. /\ \A q \in mask'["Buy"] : q <= maxBid'
          /\ maxBid' # 0 => maxBid' \in mask'["Buy"]
          /\ maxBid' \in 0 .. MAX_TICKS - 1
      <4>1. CASE s = "Buy" /\ p = maxBid
        <5>1. \A q \in mask'["Buy"] : q <= p
          BY <3>2, <4>1, Zenon DEF BestPricesExact
        <5>. QED
          BY <3>1, <3>2, <4>1, <5>1, <1>5, FindNewMaxBid, Zenon
      <4>2. CASE ~(s = "Buy" /\ p = maxBid)
        <5>1. maxBid' = maxBid /\ maxBid \in 0 .. MAX_TICKS - 1
          BY <3>1, <4>2, Zenon DEF TypeOK
        <5>2. maxBid # 0 => maxBid \in Tick
          BY <5>1, BookAssumption DEF Tick
        <5>. QED
          BY <3>2, <4>2, <5>1, <5>2, Zenon DEF BestPricesExact
      <4>. QED
        BY <4>1, <4>2, Zenon
    <3>. QED
      BY <3>3, <3>4, Zenon DEF BestPricesExact
  <2>. QED
    BY <2>1, <2>2, Zenon
<1>. QED
  BY <1>9, <1>10, <1>11, Zenon

\* The effect of a fill that leaves quantity on the head of its level.
Reduced(n, f) ==
    /\ n \in Resting /\ prev[n] = 0
    /\ f \in Nat /\ f < qty[n]
    /\ qty' = [qty EXCEPT ![n] = @ - f]
    /\ volume' = [volume EXCEPT ![side[n]][price[n]] = @ - f]
    /\ Resting' = Resting
    /\ UNCHANGED <<next, prev, price, side, gen, sys, head, tail, mask, minAsk, maxBid, nextOrder>>

\* A partial fill of the head of a level keeps lists, masks and volumes.
LEMMA ReduceKeepsBook ==
  ASSUME TypeOK, LevelsAreFifo, OccupancyExact, VolumeLabelled(Nat), NEW n, NEW f, Reduced(n, f)
  PROVE  LevelsAreFifo' /\ OccupancyExact' /\ VolumeLabelled(Nat)'
<1>1. NodesLinked /\ ArrivalOrder /\ LevelEnds
  BY Zenon DEF LevelsAreFifo
<1>2. n \in Idx /\ side[n] \in Side /\ price[n] \in Tick /\ Resting \subseteq Idx
  BY <1>1, RestingInIdx, Zenon DEF TypeOK, NodesLinked, Reduced
<1>3. f \in Nat /\ qty[n] \in Nat /\ f < qty[n]
  BY <1>2, Zenon DEF Reduced, TypeOK
<1>4. \A k \in Resting : qty[k] \in Nat /\ qty'[k] = IF k = n THEN qty[k] - f ELSE qty[k]
  BY <1>2, Zenon DEF Reduced, TypeOK
<1>5. \A t \in Side, q \in Tick : volume'[t][q] =
        IF t = side[n] /\ q = price[n] THEN volume[t][q] - f ELSE volume[t][q]
  BY <1>2, <1>3, Zenon DEF Reduced, TypeOK
<1>6. LevelsAreFifo'
  <2>1. NodesLinked'
    BY <1>1, <1>3, <1>4 DEF NodesLinked, SameLevel, Reduced
  <2>2. LevelEnds'
    BY <1>1 DEF LevelEnds, AtLevel, Reduced
  <2>3. ArrivalOrder'
    BY <1>1 DEF ArrivalOrder, SameLevel, Reduced
  <2>. QED
    BY <2>1, <2>2, <2>3, Zenon DEF LevelsAreFifo
<1>7. PICK pre \in [Idx -> Nat] : IsPrefixSum(pre)
  BY Zenon DEF VolumeLabelled
<1>8. \A k \in Resting : pre[k] \in Nat /\ sys[k] \in Nat
  BY <1>2, Zenon DEF TypeOK
<1>9. \A k \in Resting \ {n} : SameLevel(n, k) => sys[n] < sys[k] /\ pre[n] + qty[n] <= pre[k] /\ prev[k] # 0
  BY <1>1, <1>2, <1>7, <1>8 DEF ArrivalOrder, SameLevel, IsPrefixSum, Reduced
<1> DEFINE Later(k) == k \in Resting \ {n} /\ SameLevel(n, k)
           new == [k \in Idx |-> IF Later(k) THEN pre[k] - f ELSE pre[k]]
<1>10. new \in [Idx -> Nat]
  <2>1. pre[n] \in Nat
    BY <1>2, Zenon
  <2>2. \A k \in Idx : Later(k) => pre[k] - f \in Nat
    BY <1>3, <1>8, <1>9, <2>1
  <2>. QED
    BY <2>2, Zenon
<1>11. \A k \in Resting : new[k] = IF k # n /\ SameLevel(n, k) THEN pre[k] - f ELSE pre[k]
  BY <1>2, Zenon
<1> HIDE DEF new
<1>12. \A k \in Resting : new[k] = IF prev[k] = 0 THEN 0 ELSE new[prev[k]] + qty'[prev[k]]
  <2> SUFFICES ASSUME NEW k \in Resting
               PROVE  new[k] = IF prev[k] = 0 THEN 0 ELSE new[prev[k]] + qty'[prev[k]]
    BY Zenon
  <2>1. CASE prev[k] = 0
    BY <1>7, <1>9, <1>11, <2>1, Zenon DEF IsPrefixSum
  <2>2. CASE prev[k] # 0
    <3>1. prev[k] \in Resting /\ SameLevel(k, prev[k]) /\ k # n
      BY <1>1, <2>2, Zenon DEF NodesLinked, Reduced
    <3>2. pre[k] = pre[prev[k]] + qty[prev[k]]
      BY <1>7, <2>2, Zenon DEF IsPrefixSum
    <3>3. SameLevel(n, k) <=> SameLevel(n, prev[k])
      BY <3>1, Zenon DEF SameLevel
    <3>4. /\ new[k] = IF SameLevel(n, k) THEN pre[k] - f ELSE pre[k]
          /\ new[prev[k]] = IF prev[k] # n /\ SameLevel(n, k) THEN pre[prev[k]] - f ELSE pre[prev[k]]
          /\ qty'[prev[k]] = IF prev[k] = n THEN qty[prev[k]] - f ELSE qty[prev[k]]
      BY <1>4, <1>11, <3>1, <3>3, Zenon
    <3>5. prev[k] = n => SameLevel(n, k)
      BY <3>3, Zenon DEF SameLevel
    <3>6. pre[prev[k]] \in Nat /\ qty[prev[k]] \in Nat /\ pre[k] \in Nat
      BY <1>4, <1>8, <3>1, Zenon
    <3>. QED
      BY <1>3, <2>2, <3>2, <3>4, <3>5, <3>6
  <2>. QED
    BY <2>1, <2>2, Zenon
<1>13. \A k \in Resting : next[k] = 0 => volume'[side[k]][price[k]] = new[k] + qty'[k]
  <2> SUFFICES ASSUME NEW k \in Resting, next[k] = 0
               PROVE  volume'[side[k]][price[k]] = new[k] + qty'[k]
    BY Zenon
  <2>1. volume[side[k]][price[k]] = pre[k] + qty[k] /\ side[k] \in Side /\ price[k] \in Tick
    BY <1>1, <1>2, <1>7 DEF IsPrefixSum, NodesLinked, TypeOK
  <2>2. volume'[side[k]][price[k]] = IF SameLevel(n, k) THEN volume[side[k]][price[k]] - f
                                     ELSE volume[side[k]][price[k]]
    BY <1>5, <2>1, Zenon DEF SameLevel
  <2>. QED
    BY <1>3, <1>4, <1>8, <1>11, <2>1, <2>2 DEF SameLevel
<1>14. \A j, k \in Resting : SameLevel(j, k) /\ sys[j] < sys[k] => new[j] + qty'[j] <= new[k]
  <2> SUFFICES ASSUME NEW j \in Resting, NEW k \in Resting, SameLevel(j, k), sys[j] < sys[k]
               PROVE  new[j] + qty'[j] <= new[k]
    BY Zenon
  <2>1. pre[j] + qty[j] <= pre[k] /\ pre[j] \in Nat /\ pre[k] \in Nat /\ qty[j] \in Nat
    BY <1>4, <1>7, <1>8, Zenon DEF IsPrefixSum
  <2>2. SameLevel(n, j) <=> SameLevel(n, k)
    BY Zenon DEF SameLevel
  <2>3. k # n
    BY <1>8, <1>9 DEF SameLevel
  <2>. QED
    BY <1>3, <1>4, <1>11, <2>1, <2>2, <2>3 DEF SameLevel
<1>15. PICK lab \in [Idx -> Nat] :
         /\ \A k \in Resting :
              /\ lab[k] = IF prev[k] = 0 THEN 0 ELSE lab[prev[k]] + qty'[prev[k]]
              /\ next[k] = 0 => volume'[side[k]][price[k]] = lab[k] + qty'[k]
         /\ \A j, k \in Resting : SameLevel(j, k) /\ sys[j] < sys[k] => lab[j] + qty'[j] <= lab[k]
  BY <1>10, <1>12, <1>13, <1>14, Zenon
<1>16. IsPrefixSum(lab)'
  BY <1>15 DEF IsPrefixSum, SameLevel, Reduced
<1>17. OccupancyExact'
  <2>1. volume[side[n]][price[n]] \in Nat /\ volume[side[n]][price[n]] - f > 0
    <3>1. PICK t : t = tail[side[n]][price[n]]
      BY Zenon
    <3>2. t \in Resting /\ AtLevel(t, side[n], price[n]) /\ next[t] = 0
      BY <1>1, <1>2, <3>1 DEF LevelEnds, NodesLinked, Reduced
    <3>3. volume[side[n]][price[n]] = pre[t] + qty[t] /\ pre[t] \in Nat /\ qty[t] \in Nat
      BY <1>4, <1>7, <1>8, <3>2, Zenon DEF IsPrefixSum, AtLevel
    <3>4. t # n => pre[n] + qty[n] <= pre[t]
      BY <1>9, <3>2, Zenon DEF AtLevel, SameLevel
    <3>5. pre[n] \in Nat /\ qty[t] > 0
      BY <1>1, <1>8, <3>2, Zenon DEF NodesLinked, Reduced
    <3>. QED
      BY <1>3, <3>3, <3>4, <3>5
  <2>2. head[side[n]][price[n]] # 0
    BY <1>1, Zenon DEF NodesLinked, Reduced
  <2>. QED
    BY <1>5, <2>1, <2>2 DEF OccupancyExact, Reduced
<1>. QED
  BY <1>6, <1>16, <1>17, Zenon DEF VolumeLabelled

-----------------------------------------------------------------------------
(* Appending a node *)

\* restOrder appends to its level: lists, masks, best prices and volumes stay
\* exact, and the book is not crossed because match() found nothing to trade.
LEMMA RestKeepsBook ==
  ASSUME TypeOK, NodesAccountedFor, LevelsAreFifo, OccupancyExact, BestPricesExact, NotCrossed,
         VolumeLabelled(Nat), CallInv, restOrder
  PROVE  /\ NodesAccountedFor' /\ LevelsAreFifo' /\ OccupancyExact' /\ BestPricesExact' /\ NotCrossed'
         /\ VolumeLabelled(Nat)'
         /\ mask' \in [Side -> SUBSET Tick] /\ minAsk' \in 1 .. MAX_TICKS /\ maxBid' \in 0 .. MAX_TICKS - 1
         /\ freeStack' \in Seq(Handle) /\ nextAvailableIdx' \in 1 .. MAX_BOOK_ORDERS
         /\ AcquiredId \in Handle
<1> DEFINE i == AcquiredId.index
           s == order.side
           p == order.price
           last == tail[s][p]
<1>1. NodesLinked /\ ArrivalOrder /\ LevelEnds
  BY Zenon DEF LevelsAreFifo
<1>2. /\ AcquiredId \in Handle /\ i \notin Resting /\ Resting' = Resting \cup {i} /\ NodesAccountedFor'
      /\ freeStack' \in Seq(Handle) /\ nextAvailableIdx' \in 1 .. MAX_BOOK_ORDERS
  BY AcquireId, Zenon DEF restOrder
<1>3. /\ i \in Idx /\ AcquiredId.gen # 0 /\ i # 0
  BY <1>2, MaxGenAssumption DEF Handle, Gen, Idx
<1>4. Resting \subseteq Idx /\ 0 \notin Resting
  BY RestingInIdx DEF Idx
<1>5. s \in Side /\ p \in Tick /\ order.remaining \in Nat /\ order.remaining > 0 /\ order.id \in Nat /\ nextOrder \in Nat
      /\ order.id < nextOrder /\ (\A k \in Resting : sys[k] < order.id) /\ pc = "match"
  BY Zenon DEF restOrder, MatchDone, CallInv, TypeOK
<1>6. /\ \A k \in Idx : price'[k] = IF k = i THEN p ELSE price[k]
      /\ \A k \in Idx : side'[k] = IF k = i THEN s ELSE side[k]
  BY <1>3, Zenon DEF restOrder, TypeOK
<1>6s. \A k \in Idx : sys'[k] = IF k = i THEN order.id ELSE sys[k]
  BY <1>3, Zenon DEF restOrder, TypeOK
<1>6d. /\ \A k \in Idx : qty'[k] = IF k = i THEN order.remaining ELSE qty[k]
       /\ \A k \in Idx : gen'[k] = IF k = i THEN AcquiredId.gen ELSE gen[k]
  BY <1>3, Zenon DEF restOrder, TypeOK
<1>6l. /\ \A k \in Idx : prev'[k] = IF k = i THEN last ELSE prev[k]
       /\ \A k \in Idx : next'[k] = IF k = i THEN 0 ELSE IF k = last THEN i ELSE next[k]
  BY <1>3, Zenon DEF restOrder, TypeOK
<1>7. /\ \A t \in Side, q \in Tick : tail'[t][q] = IF t = s /\ q = p THEN i ELSE tail[t][q]
      /\ \A t \in Side, q \in Tick : volume'[t][q] =
            IF t = s /\ q = p THEN volume[t][q] + order.remaining ELSE volume[t][q]
      /\ nextOrder' = nextOrder
  BY Zenon DEF restOrder, RestVolume, TypeOK, Return
<1>8. \A t \in Side, q \in Tick : head'[t][q] = IF last = 0 /\ t = s /\ q = p THEN i ELSE head[t][q]
  <2>1. head \in [Side -> [Tick -> Link]]
    BY Zenon DEF TypeOK
  <2>2. head' = IF last = 0 THEN [head EXCEPT ![s][p] = i] ELSE head
    BY Zenon DEF restOrder
  <2>. QED
    BY <1>5, <2>1, <2>2, Zenon
<1>9. /\ last = 0 => Occupy(s, p)
      /\ last # 0 => KeepOccupancy
  BY Zenon DEF restOrder
<1>10. \A k \in Resting : k # i /\ k \in Idx
  BY <1>2, <1>4, Zenon
<1>10t. \A k \in Resting : side[k] \in Side /\ price[k] \in Tick /\ sys[k] \in Nat /\ qty[k] \in Nat
  BY <1>1, <1>10 DEF TypeOK, NodesLinked
<1>10l. \A k \in Resting : next[k] \in Link /\ prev[k] \in Link /\ next[k] # i /\ prev[k] # i
  <2>1. \A k \in Resting : next[k] \in Link /\ prev[k] \in Link
    BY <1>10, Zenon DEF TypeOK
  <2>2. \A k \in Resting : next[k] # i /\ prev[k] # i
    BY <1>1, <1>2, <1>3, Zenon DEF NodesLinked
  <2>. QED
    BY <2>1, <2>2, Zenon
<1>11. last # 0 => last \in Resting /\ side[last] = s /\ price[last] = p /\ next[last] = 0
  BY <1>1, <1>5 DEF LevelEnds, AtLevel
<1>12. \A k \in Resting : side[k] = s /\ price[k] = p => last # 0 /\ (k # last => sys[k] < sys[last] /\ next[k] # 0)
  <2> SUFFICES ASSUME NEW k \in Resting, side[k] = s, price[k] = p
               PROVE  last # 0 /\ (k # last => sys[k] < sys[last] /\ next[k] # 0)
    BY Zenon
  <2>1. last # 0
    BY <1>1, <1>5 DEF LevelEnds, NodesLinked
  <2>2. k # last => sys[k] < sys[last]
    <3>1. ~(sys[last] < sys[k])
      BY <1>1, <1>11, <2>1, Zenon DEF ArrivalOrder, SameLevel
    <3>2. k # last => sys[k] # sys[last]
      BY <1>1, <1>11, <2>1, Zenon DEF ArrivalOrder
    <3>. QED
      BY <1>10t, <1>11, <2>1, <3>1, <3>2
  <2>. QED
    BY <1>1, <1>11, <2>1, <2>2, Zenon DEF ArrivalOrder, SameLevel
<1> HIDE DEF i, s, p, last
<1>10n. \A k \in Resting' : ~(sys'[i] < sys'[k])
  <2>1. sys'[i] = order.id /\ \A k \in Resting : sys'[k] = sys[k]
    BY <1>3, <1>6s, <1>10, Zenon
  <2>2. ~(order.id < order.id) /\ \A k \in Resting : ~(order.id < sys[k])
    BY <1>5, <1>10t
  <2>. QED
    BY <1>2, <2>1, <2>2, Zenon
<1>13. NodesLinked'
  <2>1. ASSUME NEW k \in Resting
        PROVE  /\ price'[k] \in Tick /\ qty'[k] > 0 /\ gen'[k] # 0
               /\ head'[side'[k]][price'[k]] # 0
               /\ IF next'[k] = 0 THEN tail'[side'[k]][price'[k]] = k
                  ELSE next'[k] \in Resting' /\ SameLevel(k, next[k])' /\ prev'[next'[k]] = k
               /\ IF prev'[k] = 0 THEN head'[side'[k]][price'[k]] = k
                  ELSE prev'[k] \in Resting' /\ SameLevel(k, prev[k])' /\ next'[prev'[k]] = k
    <3>1. /\ k # i /\ price'[k] = price[k] /\ qty'[k] = qty[k] /\ gen'[k] = gen[k] /\ side'[k] = side[k]
          /\ prev'[k] = prev[k] /\ next'[k] = IF k = last THEN i ELSE next[k]
      BY <1>6, <1>6d, <1>6l, <1>10, Zenon
    <3>2. price'[k] \in Tick /\ qty'[k] > 0 /\ gen'[k] # 0
      BY <1>1, <3>1, Zenon DEF NodesLinked
    <3>3. head'[side'[k]][price'[k]] # 0
      <4>1. head[side[k]][price[k]] # 0 /\ side[k] \in Side /\ price[k] \in Tick
        BY <1>1, <1>10t, Zenon DEF NodesLinked
      <4>2. i # 0
        BY <1>3, Zenon
      <4>. QED
        BY <1>8, <3>1, <4>1, <4>2, Zenon
    <3>p. IF prev'[k] = 0 THEN head'[side'[k]][price'[k]] = k
          ELSE prev'[k] \in Resting' /\ SameLevel(k, prev[k])' /\ next'[prev'[k]] = k
      <4>1. CASE prev[k] = 0
        <5>1. head[side[k]][price[k]] = k
          BY <1>1, <4>1, Zenon DEF NodesLinked
        <5>2. head'[side[k]][price[k]] = head[side[k]][price[k]]
          BY <1>8, <1>10t, <1>12, Zenon
        <5>. QED
          BY <3>1, <4>1, <5>1, <5>2, Zenon
      <4>2. CASE prev[k] # 0
        <5>1. prev[k] \in Resting /\ SameLevel(k, prev[k]) /\ next[prev[k]] = k /\ k # 0
          BY <1>1, <1>4, <4>2, Zenon DEF NodesLinked
        <5>2. prev[k] # last
          BY <1>11, <4>2, <5>1, Zenon
        <5>3. next'[prev[k]] = k /\ side'[prev[k]] = side[prev[k]] /\ price'[prev[k]] = price[prev[k]]
          BY <1>6, <1>6l, <1>10, <5>1, <5>2, Zenon
        <5>. QED
          BY <1>2, <3>1, <4>2, <5>1, <5>3, Zenon DEF SameLevel
      <4>. QED
        BY <4>1, <4>2, Zenon
    <3>4. CASE k = last
      <4>1. next'[k] = i /\ i # 0 /\ prev'[i] = k /\ side'[i] = side'[k] /\ price'[i] = price'[k]
        BY <1>3, <1>4, <1>6, <1>6l, <1>11, <3>1, <3>4, Zenon
      <4>. QED
        BY <1>2, <3>2, <3>3, <3>p, <4>1, Zenon DEF SameLevel
    <3>5. CASE k # last
      <4>1. IF next'[k] = 0 THEN tail'[side'[k]][price'[k]] = k
            ELSE next'[k] \in Resting' /\ SameLevel(k, next[k])' /\ prev'[next'[k]] = k
        BY <1>1, <1>2, <1>6, <1>6l, <1>7, <1>10, <1>10t, <1>12, <3>5 DEF NodesLinked, SameLevel
      <4>. QED
        BY <3>2, <3>3, <3>p, <4>1, Zenon
    <3>. QED
      BY <3>4, <3>5, Zenon
  <2>2. /\ price'[i] \in Tick /\ qty'[i] > 0 /\ gen'[i] # 0
        /\ head'[side'[i]][price'[i]] # 0
        /\ next'[i] = 0 /\ tail'[side'[i]][price'[i]] = i
        /\ IF prev'[i] = 0 THEN head'[side'[i]][price'[i]] = i
           ELSE /\ prev'[i] \in Resting' /\ next'[prev'[i]] = i
                /\ side'[i] = side'[prev'[i]] /\ price'[i] = price'[prev'[i]]
    <3>1. price'[i] = p /\ qty'[i] = order.remaining /\ gen'[i] # 0 /\ next'[i] = 0 /\ side'[i] = s /\ prev'[i] = last
      BY <1>3, <1>6, <1>6d, <1>6l, Zenon
    <3>2. tail'[s][p] = i
      BY <1>5, <1>7, Zenon DEF s, p
    <3>3. CASE last = 0
      BY <1>3, <1>5, <1>8, <3>1, <3>2, <3>3, Zenon
    <3>4. CASE last # 0
      BY <1>1, <1>2, <1>5, <1>6, <1>6l, <1>8, <1>10, <1>11, <3>1, <3>2, <3>4 DEF NodesLinked
    <3>. QED
      BY <3>3, <3>4, Zenon
  <2>. QED
    BY <1>2, <2>1, <2>2 DEF NodesLinked, SameLevel
<1>14. LevelEnds'
  <2> SUFFICES ASSUME NEW t \in Side, NEW q \in Tick
               PROVE  /\ head'[t][q] = 0 <=> tail'[t][q] = 0
                      /\ head'[t][q] # 0 => /\ head'[t][q] \in Resting' /\ AtLevel(head[t][q], t, q)'
                                            /\ prev'[head'[t][q]] = 0
                      /\ tail'[t][q] # 0 => /\ tail'[t][q] \in Resting' /\ AtLevel(tail[t][q], t, q)'
                                            /\ next'[tail'[t][q]] = 0
    BY Zenon DEF LevelEnds
  <2>1. CASE t = s /\ q = p
    <3>1. tail'[t][q] = i /\ side'[i] = s /\ price'[i] = p /\ next'[i] = 0 /\ prev'[i] = last
      BY <1>3, <1>6, <1>6l, <1>7, <2>1, Zenon
    <3>2. CASE last = 0
      BY <1>2, <1>8, <2>1, <3>1, <3>2, Zenon DEF AtLevel
    <3>3. CASE last # 0
      <4>1. head'[t][q] = head[s][p] /\ head[s][p] \in Resting /\ AtLevel(head[s][p], s, p) /\ prev[head[s][p]] = 0
        BY <1>1, <1>8, <2>1, <3>3, Zenon DEF LevelEnds, last
      <4>2. head[s][p] # i /\ head[s][p] \in Idx
        BY <1>10, <4>1, Zenon
      <4>3. i # 0 /\ head[s][p] # 0
        BY <1>3, <1>4, <4>1, Zenon
      <4>4. side'[head[s][p]] = s /\ price'[head[s][p]] = p /\ prev'[head[s][p]] = 0
        BY <1>6, <1>6l, <4>1, <4>2, Zenon DEF AtLevel
      <4>. QED
        BY <1>2, <2>1, <3>1, <4>1, <4>3, <4>4, Zenon DEF AtLevel
    <3>. QED
      BY <3>2, <3>3, Zenon
  <2>2. CASE ~(t = s /\ q = p)
    <3>1. head'[t][q] = head[t][q] /\ tail'[t][q] = tail[t][q]
      BY <1>7, <1>8, <2>2, Zenon
    <3>. QED
      BY <1>1, <1>2, <1>6, <1>6l, <1>10, <1>11, <2>2, <3>1 DEF LevelEnds, AtLevel
  <2>. QED
    BY <2>1, <2>2, Zenon
<1>15. ArrivalOrder'
  <2>1. \A k \in Resting : sys'[k] = sys[k] /\ side'[k] = side[k] /\ price'[k] = price[k] /\ prev'[k] = prev[k]
                           /\ next'[k] = (IF k = last THEN i ELSE next[k]) /\ qty'[k] = qty[k]
    BY <1>6, <1>6s, <1>6d, <1>6l, <1>10, Zenon
  <2>2. sys'[i] = order.id /\ side'[i] = s /\ price'[i] = p /\ next'[i] = 0 /\ prev'[i] = last
    BY <1>3, <1>6, <1>6s, <1>6l, Zenon
  <2>3. \A k \in Resting' : sys'[k] < nextOrder'
    BY <1>1, <1>2, <1>5, <1>7, <2>1, <2>2, Zenon DEF ArrivalOrder
  <2>4. \A k \in Resting' : next'[k] # 0 => sys'[k] < sys'[next'[k]]
    <3>1. \A k \in Resting : next[k] # 0 => next[k] \in Resting /\ sys[k] < sys[next[k]]
      BY <1>1, Zenon DEF ArrivalOrder, NodesLinked
    <3>. QED
      BY <1>2, <1>5, <2>1, <2>2, <3>1
  <2>5. \A j, k \in Resting' : sys'[j] = sys'[k] => j = k
    BY <1>1, <1>2, <1>5, <2>1, <2>2 DEF ArrivalOrder
  <2>6. ASSUME NEW j \in Resting', NEW k \in Resting', SameLevel(j, k)', sys'[j] < sys'[k]
        PROVE  /\ next'[j] # 0 /\ sys'[next'[j]] <= sys'[k]
               /\ prev'[k] # 0 /\ sys'[j] <= sys'[prev'[k]]
    <3>1. j \in Resting /\ j # i
      BY <1>2, <1>10n, <2>6, Zenon
    <3>2. CASE k = i
      <4>1. side[j] = s /\ price[j] = p
        BY <2>1, <2>2, <2>6, <3>1, <3>2, Zenon DEF SameLevel
      <4>2. last # 0 /\ last \in Resting /\ (j # last => sys[j] < sys[last])
        BY <1>11, <1>12, <3>1, <4>1, Zenon
      <4>3. prev'[k] # 0 /\ sys'[j] <= sys'[prev'[k]]
        BY <1>10t, <2>1, <2>2, <3>1, <3>2, <4>2
      <4>4. CASE j = last
        BY <1>3, <1>5, <2>1, <2>2, <3>1, <3>2, <4>3, <4>4
      <4>5. CASE j # last
        <5>1. next[j] # 0 /\ next[j] \in Resting
          BY <1>1, <1>12, <3>1, <4>1, <4>5, Zenon DEF NodesLinked
        <5>2. next'[j] = next[j] /\ sys'[next[j]] = sys[next[j]] /\ sys[next[j]] < order.id /\ sys'[k] = order.id
          BY <1>5, <2>1, <2>2, <3>1, <3>2, <4>5, <5>1
        <5>. QED
          BY <1>5, <1>10t, <4>3, <5>1, <5>2
      <4>. QED
        BY <4>4, <4>5, Zenon
    <3>3. CASE k # i
      <4>1. k \in Resting /\ SameLevel(j, k) /\ sys[j] < sys[k]
        BY <1>2, <2>1, <2>6, <3>1, <3>3, Zenon DEF SameLevel
      <4>2. /\ next[j] # 0 /\ sys[next[j]] <= sys[k] /\ next[j] \in Resting
            /\ prev[k] # 0 /\ sys[j] <= sys[prev[k]] /\ prev[k] \in Resting
        BY <1>1, <3>1, <4>1 DEF ArrivalOrder, NodesLinked
      <4>3. j # last
        BY <1>11, <4>2, <1>4, <3>1, Zenon
      <4>. QED
        BY <2>1, <3>1, <4>1, <4>2, <4>3
    <3>. QED
      BY <3>2, <3>3, Zenon
  <2>. QED
    BY <2>3, <2>4, <2>5, <2>6, Zenon DEF ArrivalOrder
<1>16. VolumeLabelled(Nat)'
  <2>1. PICK pre \in [Idx -> Nat] : IsPrefixSum(pre)
    BY Zenon DEF VolumeLabelled
  <2> DEFINE new == [pre EXCEPT ![i] = IF last = 0 THEN 0 ELSE pre[last] + qty[last]]
  <2>2. \A k \in Resting : pre[k] \in Nat
    BY <1>10, <1>10t, <1>10l, Zenon
  <2>3. new \in [Idx -> Nat]
    <3>1. (IF last = 0 THEN 0 ELSE pre[last] + qty[last]) \in Nat
      BY <1>10t, <1>11, <2>2
    <3>. QED
      BY <3>1, Zenon
  <2>4. /\ \A k \in Resting : new[k] = pre[k]
        /\ new[i] = IF last = 0 THEN 0 ELSE pre[last] + qty[last]
    BY <1>3, <1>10, Zenon
  <2> HIDE DEF new
  <2>5. \A k \in Resting : sys'[k] = sys[k] /\ side'[k] = side[k] /\ price'[k] = price[k] /\ prev'[k] = prev[k]
                           /\ next'[k] = (IF k = last THEN i ELSE next[k]) /\ qty'[k] = qty[k]
    BY <1>6, <1>6s, <1>6d, <1>6l, <1>10, Zenon
  <2>6. sys'[i] = order.id /\ side'[i] = s /\ price'[i] = p /\ next'[i] = 0 /\ prev'[i] = last /\ qty'[i] = order.remaining
    BY <1>3, <1>6, <1>6s, <1>6d, <1>6l, Zenon
  <2>7. \A k \in Resting' : new[k] = IF prev'[k] = 0 THEN 0 ELSE new[prev'[k]] + qty'[prev'[k]]
    <3>1. \A k \in Resting : prev[k] # 0 => prev[k] \in Resting
      BY <1>1, Zenon DEF NodesLinked
    <3>2. ASSUME NEW k \in Resting
          PROVE  new[k] = IF prev'[k] = 0 THEN 0 ELSE new[prev'[k]] + qty'[prev'[k]]
      <4>1. pre[k] = IF prev[k] = 0 THEN 0 ELSE pre[prev[k]] + qty[prev[k]]
        BY <2>1, Zenon DEF IsPrefixSum
      <4>2. prev[k] # 0 => new[prev[k]] = pre[prev[k]] /\ qty'[prev[k]] = qty[prev[k]]
        BY <2>4, <2>5, <3>1, Zenon
      <4>. QED
        BY <2>4, <2>5, <4>1, <4>2
    <3>3. new[i] = IF prev'[i] = 0 THEN 0 ELSE new[prev'[i]] + qty'[prev'[i]]
      BY <1>11, <2>4, <2>5, <2>6, Zenon
    <3>. QED
      BY <1>2, <3>2, <3>3, Zenon
  <2>8. \A k \in Resting' : next'[k] = 0 => volume'[side'[k]][price'[k]] = new[k] + qty'[k]
    <3>1. \A k \in Resting : next'[k] = 0 => volume'[side'[k]][price'[k]] = new[k] + qty'[k]
      <4> SUFFICES ASSUME NEW k \in Resting, next'[k] = 0
                   PROVE  volume'[side'[k]][price'[k]] = new[k] + qty'[k]
        BY Zenon
      <4>1. k # last /\ next[k] = 0
        BY <1>3, <2>5, Zenon
      <4>2. ~(side[k] = s /\ price[k] = p)
        BY <1>12, <4>1, Zenon
      <4>3. volume'[side[k]][price[k]] = pre[k] + qty[k]
        BY <1>7, <1>10t, <2>1, <4>1, <4>2, Zenon DEF IsPrefixSum
      <4>. QED
        BY <2>4, <2>5, <4>3, Zenon
    <3>2. volume'[s][p] = new[i] + order.remaining
      <4>1. volume'[s][p] = volume[s][p] + order.remaining
        BY <1>5, <1>7, Zenon DEF s, p
      <4>2. CASE last = 0
        <5>1. volume[s][p] = 0
          BY <1>1, <1>5, <4>2, Zenon DEF OccupancyExact, LevelEnds, last
        <5>. QED
          BY <2>4, <4>1, <4>2, <5>1, Zenon
      <4>3. CASE last # 0
        BY <1>11, <2>1, <2>4, <4>1, <4>3, Zenon DEF IsPrefixSum
      <4>. QED
        BY <4>2, <4>3, Zenon
    <3>. QED
      BY <1>2, <2>6, <3>1, <3>2, Zenon
  <2>9. \A j, k \in Resting' : SameLevel(j, k)' /\ sys'[j] < sys'[k] => new[j] + qty'[j] <= new[k]
    <3> SUFFICES ASSUME NEW j \in Resting', NEW k \in Resting', SameLevel(j, k)', sys'[j] < sys'[k]
                 PROVE  new[j] + qty'[j] <= new[k]
      BY Zenon
    <3>1. j \in Resting /\ j # i
      BY <1>2, <1>10n, Zenon
    <3>2. CASE k = i
      <4>1. side[j] = s /\ price[j] = p
        BY <2>5, <2>6, <3>1, <3>2, Zenon DEF SameLevel
      <4>2. last # 0 /\ last \in Resting /\ (j # last => sys[j] < sys[last])
        BY <1>11, <1>12, <3>1, <4>1, Zenon
      <4>3. j # last => pre[j] + qty[j] <= pre[last]
        BY <1>11, <2>1, <3>1, <4>1, <4>2, Zenon DEF IsPrefixSum, SameLevel
      <4>4. pre[last] \in Nat /\ qty[last] \in Nat /\ pre[j] \in Nat /\ qty[j] \in Nat
        BY <1>10t, <2>2, <3>1, <4>2, Zenon
      <4>5. new[j] = pre[j] /\ qty'[j] = qty[j] /\ new[k] = pre[last] + qty[last]
        BY <2>4, <2>5, <3>1, <3>2, <4>2, Zenon
      <4>6. CASE j = last
        BY <4>4, <4>5, <4>6
      <4>7. CASE j # last
        BY <4>3, <4>4, <4>5, <4>7
      <4>. QED
        BY <4>6, <4>7, Zenon
    <3>3. CASE k # i
      <4>1. k \in Resting
        BY <1>2, <3>3, Zenon
      <4>2. SameLevel(j, k) /\ sys[j] < sys[k]
        BY <2>5, <3>1, <4>1, Zenon DEF SameLevel
      <4>3. pre[j] + qty[j] <= pre[k]
        BY <2>1, <3>1, <4>1, <4>2, Zenon DEF IsPrefixSum
      <4>. QED
        BY <2>4, <2>5, <3>1, <4>1, <4>3, Zenon
    <3>. QED
      BY <3>2, <3>3, Zenon
  <2>10. PICK lab \in [Idx -> Nat] :
           /\ \A k \in Resting' :
                /\ lab[k] = IF prev'[k] = 0 THEN 0 ELSE lab[prev'[k]] + qty'[prev'[k]]
                /\ next'[k] = 0 => volume'[side'[k]][price'[k]] = lab[k] + qty'[k]
           /\ \A j, k \in Resting' : SameLevel(j, k)' /\ sys'[j] < sys'[k] => lab[j] + qty'[j] <= lab[k]
    BY <2>3, <2>7, <2>8, <2>9, Zenon
  <2>11. IsPrefixSum(lab)'
    BY <2>10, Zenon DEF IsPrefixSum
  <2>. QED
    BY <2>11, Zenon DEF VolumeLabelled
<1>17. last = 0 <=> head[s][p] = 0
  BY <1>1, <1>5, Zenon DEF LevelEnds, last
<1>18. mask' = [mask EXCEPT ![s] = @ \cup {p}]
  <2>1. CASE last = 0
    BY <1>9, <2>1, Zenon DEF Occupy
  <2>2. CASE last # 0
    <3>1. p \in mask[s] /\ mask' = mask
      BY <1>5, <1>9, <1>17, <2>2, Zenon DEF KeepOccupancy, OccupancyExact
    <3>. QED
      BY <3>1 DEF TypeOK
  <2>. QED
    BY <2>1, <2>2, Zenon
<1>19. mask' \in [Side -> SUBSET Tick]
  BY <1>5, <1>18, Zenon DEF TypeOK
<1>20. OccupancyExact'
  <2> SUFFICES ASSUME NEW t \in Side, NEW q \in Tick
               PROVE  /\ q \in mask'[t] <=> head'[t][q] # 0
                      /\ volume'[t][q] >= 0
                      /\ volume'[t][q] = 0 <=> head'[t][q] = 0
    BY Zenon DEF OccupancyExact
  <2>1. volume[t][q] \in Int
    BY DEF TypeOK
  <2>2. CASE t = s /\ q = p
    <3>1. head'[t][q] # 0
      BY <1>3, <1>8, <1>17, <2>2, Zenon
    <3>2. q \in mask'[t]
      BY <1>18, <2>2, Zenon DEF TypeOK
    <3>3. volume'[t][q] = volume[t][q] + order.remaining /\ volume[t][q] >= 0
      BY <1>7, <2>2, Zenon DEF OccupancyExact
    <3>. QED
      BY <1>5, <2>1, <3>1, <3>2, <3>3
  <2>3. CASE ~(t = s /\ q = p)
    <3>1. head'[t][q] = head[t][q] /\ volume'[t][q] = volume[t][q]
      BY <1>7, <1>8, <2>3, Zenon
    <3>2. q \in mask'[t] <=> q \in mask[t]
      BY <1>18, <2>3, Zenon DEF TypeOK
    <3>. QED
      BY <3>1, <3>2, Zenon DEF OccupancyExact
  <2>. QED
    BY <2>2, <2>3, Zenon
<1>21. p \in Nat /\ 1 <= p /\ p < MAX_TICKS /\ MAX_TICKS \in Nat
  BY <1>5, BookAssumption DEF Tick, p
<1>22. minAsk \in Nat /\ 1 <= minAsk /\ minAsk <= MAX_TICKS /\ maxBid \in Nat /\ maxBid < MAX_TICKS
  BY BookAssumption DEF TypeOK
<1>23. /\ s = "Buy" => mask'["Buy"] = mask["Buy"] \cup {p} /\ mask'["Sell"] = mask["Sell"]
       /\ s = "Sell" => mask'["Sell"] = mask["Sell"] \cup {p} /\ mask'["Buy"] = mask["Buy"]
  BY <1>18, Zenon DEF TypeOK, Side
<1>24. /\ maxBid' = IF s = "Buy" /\ p > maxBid THEN p ELSE maxBid
       /\ minAsk' = IF s = "Sell" /\ p < minAsk THEN p ELSE minAsk
  <2>1. CASE last = 0
    BY <1>9, <2>1, Zenon DEF Occupy
  <2>2. CASE last # 0
    <3>1. p \in mask[s] /\ minAsk' = minAsk /\ maxBid' = maxBid
      BY <1>5, <1>9, <1>17, <2>2, Zenon DEF KeepOccupancy, OccupancyExact
    <3>. QED
      BY <1>21, <1>22, <3>1 DEF BestPricesExact
  <2>. QED
    BY <2>1, <2>2, Zenon
<1>25. mask["Sell"] \subseteq Nat /\ mask["Buy"] \subseteq Nat
  <2>1. mask["Sell"] \subseteq Tick /\ mask["Buy"] \subseteq Tick
    BY Zenon DEF TypeOK, Side
  <2>. QED
    BY <2>1, BookAssumption DEF Tick
<1>26. BestPricesExact'
  <2>1. CASE s = "Buy"
    BY <1>21, <1>23, <1>24, <1>25, <2>1 DEF BestPricesExact
  <2>2. CASE s = "Sell"
    BY <1>21, <1>23, <1>24, <1>25, <2>2 DEF BestPricesExact
  <2>. QED
    BY <1>5, <2>1, <2>2, Zenon DEF Side
<1>27. minAsk' \in 1 .. MAX_TICKS /\ maxBid' \in 0 .. MAX_TICKS - 1
  BY <1>21, <1>22, <1>24
<1>28. NotCrossed'
  <2>1. CrossingPrice = 0
    BY <1>5 DEF restOrder, MatchDone
  <2>2. IF s = "Buy" THEN p < minAsk ELSE maxBid < p
    BY <1>5, <1>21, <1>22, <2>1, CrossingPriceIsBest DEF s, p
  <2>3. \A k \in Resting : (side[k] = "Sell" => minAsk <= price[k]) /\ (side[k] = "Buy" => price[k] <= maxBid)
    BY <1>1, <1>10t, Zenon DEF NodesLinked, OccupancyExact, BestPricesExact
  <2>4. \A k \in Resting : price[k] \in Nat /\ side'[k] = side[k] /\ price'[k] = price[k]
    BY <1>6, <1>10, <1>10t DEF Tick
  <2>5. side'[i] = s /\ price'[i] = p
    BY <1>3, <1>6, Zenon
  <2>. QED
    BY <1>2, <1>21, <1>22, <2>2, <2>3, <2>4, <2>5 DEF NotCrossed
<1>. QED
  BY <1>2, <1>13, <1>14, <1>15, <1>16, <1>19, <1>20, <1>26, <1>27, <1>28 DEF LevelsAreFifo
=============================================================================
