------------------------ MODULE PriceLevelOrderBook ------------------------
(***************************************************************************)
(* The order book of one ticker                                            *)
(* (server/src/execution/orderbook/price_level_order_book.hpp).            *)
(*                                                                         *)
(* Resting orders live in a pool of nodes, linked into one FIFO list for   *)
(* each side of each price level.  A mask per side says which levels are   *)
(* occupied, minAsk and maxBid cache the best prices, and a stack recycles *)
(* the ids of released nodes.  One worker thread owns the book.            *)
(*                                                                         *)
(* add() is a loop, so it is modelled as the sequence of its iterations:   *)
(* while pc # "idle" the only steps of the book are those of the running   *)
(* call.  Ticks are 1 .. MAX_TICKS - 1, since the gateway rejects price 0. *)
(* Level volumes are integers: 64 bits hold any sum of 2^17 32-bit         *)
(* quantities, so only a subtraction too many could wrap, and the wrapped  *)
(* value appears here as a negative one.                                   *)
(*                                                                         *)
(* An operator named Faulty... is the definition that follows it with a    *)
(* plausible slip; with it in place TLC refutes one of the properties.     *)
(***************************************************************************)
EXTENDS SlotId, Sequences

CONSTANTS
    MAX_TICKS,          \* prices at or above it are refused
    MAX_BOOK_ORDERS,    \* size of the node pool; node 0 is the null link
    WORD_BITS,          \* prices per word of a mask (64 in the code)
    MAX_QTY,            \* bound: largest order quantity
    MAX_ORDERS          \* bound: number of orders added

ASSUME BookAssumption ==
    /\ MAX_TICKS \in Nat \ {0}
    /\ MAX_BOOK_ORDERS \in Nat \ {0}
    /\ WORD_BITS \in Nat \ {0}
    /\ MAX_QTY \in Nat
    /\ MAX_ORDERS \in Nat

Side == {"Buy", "Sell"}
Opposite(s) == IF s = "Buy" THEN "Sell" ELSE "Buy"
Tick == 1 .. MAX_TICKS - 1
Idx == 1 .. MAX_BOOK_ORDERS - 1
Link == Idx \cup {0}
Handle == [index : Idx, gen : Gen]

VARIABLES
    next, prev, price, qty, side,   \* Node, one function for each member
    gen,            \* generation of Node::localId, 0 before the first use
    sys,            \* Node::systemId, modelled by the ordinal of the order
    head, tail, volume,             \* PriceLevelSide of each side and tick
    mask,           \* bidMask_ and askMask_ as sets of ticks
    minAsk, maxBid,
    freeStack, nextAvailableIdx,
    pc,             \* where the running add() is: idle, match or fill
    order,          \* the order being added, with the quantity remaining
    best,           \* bestPrice.price of the running match iteration
    nextOrder,      \* ordinal of the next order
    issued,         \* history: order ids with the handle posted for them
    stale,          \* history: an order was cancelled that did not rest
    status          \* the InternalOrderStatus posted by the last call

nodes == <<next, prev, price, qty, side, gen, sys>>
levels == <<head, tail, volume, mask, minAsk, maxBid>>
ids == <<freeStack, nextAvailableIdx>>
call == <<pc, order, best, nextOrder>>
vars == <<nodes, levels, ids, call, issued, stale, status>>

NoOrder == [id |-> 0, side |-> "Buy", price |-> 1, quantity |-> 0, remaining |-> 0]
NoStatus == [id |-> 0, handle |-> InvalidId, fill |-> 0, state |-> "None"]
Status(id, h, fill, state) == [id |-> id, handle |-> h, fill |-> fill, state |-> state]

\* A node is resting when its id was handed out and is not on the free stack.
Free == {freeStack[k].index : k \in 1 .. Len(freeStack)}
Resting == (1 .. nextAvailableIdx - 1) \ Free
-----------------------------------------------------------------------------
(* Best price discovery.  A scan of words for the first non-zero one, then *)
(* for its lowest (highest) bit, finds the least (greatest) marked tick in *)
(* the words scanned.                                                      *)

Word(p) == p \div WORD_BITS
Least(S) == CHOOSE x \in S : \A y \in S : x <= y
Greatest(S) == CHOOSE x \in S : \A y \in S : y <= x

findNewMaxBid(bids, p) ==
    LET scanned == {q \in bids : Word(q) <= Word(p)}
    IN  IF scanned = {} THEN 0 ELSE Greatest(scanned)

findNewMinAsk(asks, p) ==
    LET scanned == {q \in asks : Word(p) <= Word(q)}
    IN  IF scanned = {} THEN MAX_TICKS ELSE Least(scanned)

\* The tick of the best ask at or below the limit, 0 when there is none.
getBestAsk(limit) ==
    LET scanned == {q \in mask["Sell"] : Word(minAsk) <= Word(q) /\ Word(q) <= Word(limit)}
        p == Least(scanned)
    IN  IF scanned # {} /\ p <= limit /\ head["Sell"][p] # 0 THEN p ELSE 0

FaultyBestBidLowestBit(limit) ==
    LET scanned == {q \in mask["Buy"] : Word(q) <= Word(maxBid) /\ Word(limit) <= Word(q) /\ q >= limit}
    IN  IF scanned # {} THEN Least(scanned) ELSE 0

getBestBid(limit) ==
    LET scanned == {q \in mask["Buy"] : Word(q) <= Word(maxBid) /\ Word(limit) <= Word(q)}
        p == Greatest(scanned)
    IN  IF scanned # {} /\ p >= limit /\ head["Buy"][p] # 0 THEN p ELSE 0

\* updateOccupancy(s, p, true)
Occupy(s, p) ==
    /\ mask' = [mask EXCEPT ![s] = @ \cup {p}]
    /\ maxBid' = IF s = "Buy" /\ p > maxBid THEN p ELSE maxBid
    /\ minAsk' = IF s = "Sell" /\ p < minAsk THEN p ELSE minAsk

\* updateOccupancy(s, p, false), called after the volume was reduced
Vacate(s, p) ==
    /\ mask' = IF volume'[s][p] = 0 THEN [mask EXCEPT ![s] = @ \ {p}] ELSE mask
    /\ maxBid' = IF s = "Buy" /\ p = maxBid THEN findNewMaxBid(mask'["Buy"], p) ELSE maxBid
    /\ minAsk' = IF s = "Sell" /\ p = minAsk THEN findNewMinAsk(mask'["Sell"], p) ELSE minAsk

KeepOccupancy == UNCHANGED <<mask, minAsk, maxBid>>
-----------------------------------------------------------------------------
(* Node ids.                                                               *)

CanAcquire == freeStack # <<>> \/ nextAvailableIdx < MAX_BOOK_ORDERS

\* The id acquireId() returns, and its effect.
AcquiredId ==
    IF freeStack # <<>> THEN freeStack[Len(freeStack)] ELSE Make(nextAvailableIdx, 1)

acquireId ==
    IF freeStack # <<>>
    THEN /\ freeStack' = SubSeq(freeStack, 1, Len(freeStack) - 1)
         /\ UNCHANGED nextAvailableIdx
    ELSE /\ nextAvailableIdx' = nextAvailableIdx + 1
         /\ UNCHANGED freeStack

\* The argument is passed by value: the node keeps its generation.
releaseId(i) ==
    /\ freeStack' = Append(freeStack, NextGen(Make(i, gen[i])))
    /\ UNCHANGED nextAvailableIdx
-----------------------------------------------------------------------------
(* The operations.                                                         *)

\* add() with a price out of bounds: no match, no status.
AddOutOfBounds ==
    /\ pc = "idle"
    /\ nextOrder <= MAX_ORDERS
    /\ nextOrder' = nextOrder + 1
    /\ status' = NoStatus
    /\ UNCHANGED <<nodes, levels, ids, pc, order, best, issued>>

\* add() of a buy or sell order, up to the call of match().
Add(s, p, q) ==
    /\ pc = "idle"
    /\ nextOrder <= MAX_ORDERS
    /\ order' = [id |-> nextOrder, side |-> s, price |-> p, quantity |-> q, remaining |-> q]
    /\ nextOrder' = nextOrder + 1
    /\ pc' = "match"
    /\ status' = NoStatus
    /\ UNCHANGED <<nodes, levels, ids, best, issued>>

\* The price the next iteration of the outer loop of match() trades at, or 0.
CrossingPrice ==
    IF order.side = "Buy"
    THEN IF minAsk > order.price THEN 0 ELSE getBestAsk(order.price)
    ELSE IF maxBid < order.price THEN 0 ELSE getBestBid(order.price)

FaultyOnWithNothingLeft == pc = "match"

\* The condition of the outer loop of match().
MatchGoesOn == pc = "match" /\ order.remaining > 0

\* The head of the outer loop of match().  Its "mask out of sync" branch is
\* dead code: getBestAsk and getBestBid only return levels with a head.
MatchBest ==
    /\ MatchGoesOn
    /\ CrossingPrice # 0
    /\ best' = CrossingPrice
    /\ pc' = "fill"
    /\ UNCHANGED <<nodes, levels, ids, order, nextOrder, issued, status>>

FaultyGreaterOf(a, b) == IF a < b THEN b ELSE a
LesserOf(a, b) == IF a < b THEN a ELSE b

\* One iteration of the inner loop of match(): trade with the head of the level.
Fill ==
    LET s == Opposite(order.side)
        n == head[s][best]
        fillQty == LesserOf(order.remaining, qty[n])
        filled == qty[n] = fillQty
    IN  /\ pc = "fill"
        /\ order' = [order EXCEPT !.remaining = @ - fillQty]
        /\ qty' = [qty EXCEPT ![n] = @ - fillQty]
        /\ volume' = [volume EXCEPT ![s][best] = @ - fillQty]
        /\ IF filled
           THEN /\ head' = [head EXCEPT ![s][best] = next[n]]
                /\ releaseId(n)
                /\ IF next[n] # 0
                   THEN /\ prev' = [prev EXCEPT ![next[n]] = 0]
                        /\ UNCHANGED tail
                        /\ KeepOccupancy
                   ELSE /\ tail' = [tail EXCEPT ![s][best] = 0]
                        /\ Vacate(side[n], best)
                        /\ UNCHANGED prev
           ELSE UNCHANGED <<head, tail, prev, mask, minAsk, maxBid, ids>>
        /\ IF head'[s][best] # 0 /\ order'.remaining > 0
           THEN UNCHANGED <<pc, best>>
           ELSE pc' = "match" /\ best' = 0
        /\ UNCHANGED <<next, price, side, gen, sys, nextOrder, issued, status>>

Return == pc' = "idle" /\ order' = NoOrder /\ UNCHANGED <<best, nextOrder>>

MatchDone == pc = "match" /\ (order.remaining = 0 \/ CrossingPrice = 0)

\* The end of add() for an order that traded completely.
PostFull ==
    /\ MatchDone
    /\ order.remaining = 0
    /\ status' = Status(order.id, InvalidId, order.quantity, "Full")
    /\ Return
    /\ UNCHANGED <<nodes, levels, ids, issued>>

FaultyVolumeOfWholeOrder(s, p) == volume' = [volume EXCEPT ![s][p] = @ + order.quantity]
RestVolume(s, p) == volume' = [volume EXCEPT ![s][p] = @ + order.remaining]

\* restOrder() when the pool has a node.
restOrder ==
    LET id == AcquiredId
        i == id.index
        s == order.side
        p == order.price
        last == tail[s][p]
        fillTtl == order.quantity - order.remaining
    IN  /\ MatchDone
        /\ order.remaining > 0
        /\ CanAcquire
        /\ acquireId
        /\ gen' = [gen EXCEPT ![i] = id.gen]
        /\ sys' = [sys EXCEPT ![i] = order.id]
        /\ price' = [price EXCEPT ![i] = p]
        /\ qty' = [qty EXCEPT ![i] = order.remaining]
        /\ side' = [side EXCEPT ![i] = s]
        /\ prev' = [prev EXCEPT ![i] = last]
        /\ next' = [k \in Idx |-> IF k = i THEN 0 ELSE IF k = last THEN i ELSE next[k]]
        /\ IF last # 0
           THEN /\ UNCHANGED head
                /\ KeepOccupancy
           ELSE /\ head' = [head EXCEPT ![s][p] = i]
                /\ Occupy(s, p)
        /\ tail' = [tail EXCEPT ![s][p] = i]
        /\ RestVolume(s, p)
        /\ issued' = issued \cup {[id |-> order.id, handle |-> id]}
        /\ status' = Status(order.id, id, fillTtl, IF fillTtl = 0 THEN "Accepted" ELSE "Partial")
        /\ Return

\* restOrder() when the pool is exhausted: an InternalError and no status.
BookFull ==
    /\ MatchDone
    /\ order.remaining > 0
    /\ ~CanAcquire
    /\ status' = Status(order.id, InvalidId, 0, "InternalError")
    /\ Return
    /\ UNCHANGED <<nodes, levels, ids, issued>>

\* cancelOrder() of a handle whose node has another generation.
RejectCancel(id, h) ==
    /\ pc = "idle"
    /\ gen[h.index] # h.gen
    /\ status' = Status(id, h, 0, "Rejected")
    /\ UNCHANGED <<nodes, levels, ids, call, issued>>

UnlinkFromPrev(i, s, p) ==
    IF prev[i] # 0 THEN next' = [next EXCEPT ![prev[i]] = next[i]] /\ UNCHANGED head
    ELSE head' = [head EXCEPT ![s][p] = next[i]] /\ UNCHANGED next

UnlinkFromNext(i, s, p) ==
    IF next[i] # 0 THEN prev' = [prev EXCEPT ![next[i]] = prev[i]] /\ UNCHANGED tail
    ELSE tail' = [tail EXCEPT ![s][p] = prev[i]] /\ UNCHANGED prev

\* cancelOrder() of a handle whose node has the same generation.
cancelOrder(id, h) ==
    LET i == h.index
        s == side[i]
        p == price[i]
    IN  /\ pc = "idle"
        /\ gen[i] = h.gen
        /\ UnlinkFromPrev(i, s, p)
        /\ UnlinkFromNext(i, s, p)
        /\ volume' = [volume EXCEPT ![s][p] = @ - qty[i]]
        /\ IF volume'[s][p] = 0 THEN Vacate(s, p) ELSE KeepOccupancy
        /\ status' = Status(id, h, 0, "Cancelled")
        /\ releaseId(i)
        /\ UNCHANGED <<price, qty, side, gen, sys, call, issued>>
-----------------------------------------------------------------------------
Init ==
    /\ next = [i \in Idx |-> 0] /\ prev = [i \in Idx |-> 0]
    /\ price = [i \in Idx |-> 0] /\ qty = [i \in Idx |-> 0]
    /\ side = [i \in Idx |-> "Buy"]
    /\ gen = [i \in Idx |-> 0] /\ sys = [i \in Idx |-> 0]
    /\ head = [s \in Side |-> [p \in Tick |-> 0]]
    /\ tail = [s \in Side |-> [p \in Tick |-> 0]]
    /\ volume = [s \in Side |-> [p \in Tick |-> 0]]
    /\ mask = [s \in Side |-> {}]
    /\ minAsk = MAX_TICKS /\ maxBid = 0
    /\ freeStack = <<>> /\ nextAvailableIdx = 1
    /\ pc = "idle" /\ order = NoOrder /\ best = 0 /\ nextOrder = 1
    /\ issued = {} /\ stale = FALSE /\ status = NoStatus

AddNext ==
    \/ AddOutOfBounds
    \/ \E s \in Side, p \in Tick, q \in 0 .. MAX_QTY : Add(s, p, q)
    \/ MatchBest \/ Fill
    \/ PostFull \/ restOrder \/ BookFull

\* The node of a posted handle has its generation and is not the order's: it
\* was released, which leaves the generation as it is, or it rests for another
\* order after the generation went around.
IsStale(c) ==
    /\ gen[c.handle.index] = c.handle.gen
    /\ ~(c.handle.index \in Resting /\ sys[c.handle.index] = c.id)

\* The gateway passes on a cancel of any order that it has as accepted.  It is
\* not told when a resting order is filled, so any handle may come back.
CancelNext(c) ==
    /\ RejectCancel(c.id, c.handle) \/ cancelOrder(c.id, c.handle)
    /\ stale' = IF IsStale(c) THEN TRUE ELSE stale

Next ==
    \/ AddNext /\ UNCHANGED stale
    \/ \E c \in issued : CancelNext(c)

Spec == Init /\ [][Next]_vars
-----------------------------------------------------------------------------
(* Properties.  The book keeps them until a stale handle is cancelled: that *)
(* frees a node twice, and nothing is promised of what it does from then.  *)

SameLevel(i, k) == side[i] = side[k] /\ price[i] = price[k]
AtLevel(i, s, p) == side[i] = s /\ price[i] = p

\* Every variable of the book has its type.
TypeOK ==
    /\ next \in [Idx -> Link] /\ prev \in [Idx -> Link]
    /\ price \in [Idx -> 0 .. MAX_TICKS - 1] /\ qty \in [Idx -> Nat]
    /\ side \in [Idx -> Side] /\ gen \in [Idx -> 0 .. MaxGen] /\ sys \in [Idx -> Nat]
    /\ head \in [Side -> [Tick -> Link]] /\ tail \in [Side -> [Tick -> Link]]
    /\ volume \in [Side -> [Tick -> Int]]
    /\ mask \in [Side -> SUBSET Tick]
    /\ minAsk \in 1 .. MAX_TICKS /\ maxBid \in 0 .. MAX_TICKS - 1
    /\ freeStack \in Seq(Handle) /\ nextAvailableIdx \in 1 .. MAX_BOOK_ORDERS
    /\ pc \in {"idle", "match", "fill"}
    /\ order \in [id : Nat, side : Side, price : Nat, quantity : Nat, remaining : Nat]
    /\ best \in Nat /\ nextOrder \in Nat \ {0}
    /\ issued \subseteq [id : Nat, handle : Handle]
    /\ status \in [id : Nat, handle : Handle \cup {InvalidId}, fill : Nat,
                   state : {"None", "Full", "Accepted", "Partial", "InternalError",
                            "Rejected", "Cancelled"}]

\* releaseId never pushes an id that is already free, so acquireId never hands
\* one node to two orders.
NodesAccountedFor ==
    \A j, k \in 1 .. Len(freeStack) :
        /\ freeStack[j].index < nextAvailableIdx
        /\ freeStack[j].index = freeStack[k].index => j = k

\* A resting node is linked both ways to its neighbours, of the same level, or
\* is an end of the level's list.
NodesLinked ==
    \A i \in Resting :
        /\ price[i] \in Tick /\ qty[i] > 0 /\ gen[i] # 0
        /\ head[side[i]][price[i]] # 0
        /\ IF next[i] = 0 THEN tail[side[i]][price[i]] = i
           ELSE next[i] \in Resting /\ SameLevel(i, next[i]) /\ prev[next[i]] = i
        /\ IF prev[i] = 0 THEN head[side[i]][price[i]] = i
           ELSE prev[i] \in Resting /\ SameLevel(i, prev[i]) /\ next[prev[i]] = i

LevelEnds ==
    \A s \in Side, p \in Tick :
        /\ head[s][p] = 0 <=> tail[s][p] = 0
        /\ head[s][p] # 0 => /\ head[s][p] \in Resting /\ AtLevel(head[s][p], s, p)
                             /\ prev[head[s][p]] = 0
        /\ tail[s][p] # 0 => /\ tail[s][p] \in Resting /\ AtLevel(tail[s][p], s, p)
                             /\ next[tail[s][p]] = 0

\* next leads to the following arrival at the level, prev to the preceding one.
ArrivalOrder ==
    /\ \A i \in Resting : sys[i] < nextOrder
    /\ \A i \in Resting : next[i] # 0 => sys[i] < sys[next[i]]
    /\ \A i, k \in Resting : sys[i] = sys[k] => i = k
    /\ \A i, k \in Resting :
        SameLevel(i, k) /\ sys[i] < sys[k] =>
            /\ next[i] # 0 /\ sys[next[i]] <= sys[k]
            /\ prev[k] # 0 /\ sys[i] <= sys[prev[k]]

\* The links of the resting nodes form, for each side of each level, one
\* doubly linked list from head to tail in the order of arrival.
LevelsAreFifo == NodesLinked /\ LevelEnds /\ ArrivalOrder

\* updateOccupancy keeps the masks exact: a bit is set, and the volume is
\* positive, exactly for the levels that hold an order.
OccupancyExact ==
    \A s \in Side, p \in Tick :
        /\ p \in mask[s] <=> head[s][p] # 0
        /\ volume[s][p] >= 0
        /\ volume[s][p] = 0 <=> head[s][p] = 0

\* minAsk_ and maxBid_ are exactly the best occupied ticks, or the sentinels.
BestPricesExact ==
    /\ \A p \in mask["Sell"] : minAsk <= p
    /\ minAsk # MAX_TICKS => minAsk \in mask["Sell"]
    /\ \A p \in mask["Buy"] : p <= maxBid
    /\ maxBid # 0 => maxBid \in mask["Buy"]

\* No resting buy order meets the price of a resting sell order: match() never
\* stops while the incoming order could still trade.
NotCrossed ==
    \A i, k \in Resting : side[i] = "Buy" /\ side[k] = "Sell" => price[i] < price[k]

\* Unless a stale handle was cancelled, an iteration of match() only reduces the
\* resting order of the other side that has the best price and, among those,
\* arrived first.
PriceTimePriority ==
    [][\A i \in Resting :
        ~stale /\ pc = "fill" /\ qty'[i] < qty[i] =>
            /\ side[i] = Opposite(order.side)
            /\ IF order.side = "Buy" THEN price[i] <= order.price ELSE price[i] >= order.price
            /\ \A k \in Resting : side[k] = side[i] /\ k # i =>
                  \/ price[k] = price[i] /\ sys[i] < sys[k]
                  \/ IF side[i] = "Sell" THEN price[i] < price[k] ELSE price[k] < price[i]]_vars

\* What holds inside a call of add(): the order is younger than all resting
\* ones, and the inner loop of match() works on the best level of the other
\* side, which crosses.
CallInv ==
    /\ pc = "idle" => order = NoOrder
    /\ pc # "idle" =>
        /\ order.price \in Tick
        /\ 0 < order.id /\ order.id < nextOrder
        /\ \A i \in Resting : sys[i] < order.id
        /\ order.remaining <= order.quantity
    /\ pc = "fill" =>
        /\ order.remaining > 0
        /\ best \in Tick
        /\ head[Opposite(order.side)][best] # 0
        /\ IF order.side = "Buy" THEN best = minAsk /\ best <= order.price
                                 ELSE best = maxBid /\ best >= order.price

\* The volume of a level is the sum of its quantities, stated without a sum:
\* some labelling pre gives each node the quantity that rests before it.
IsPrefixSum(pre) ==
    /\ \A i \in Resting :
        /\ pre[i] = IF prev[i] = 0 THEN 0 ELSE pre[prev[i]] + qty[prev[i]]
        /\ next[i] = 0 => volume[side[i]][price[i]] = pre[i] + qty[i]
    /\ \A i, k \in Resting :
        SameLevel(i, k) /\ sys[i] < sys[k] => pre[i] + qty[i] <= pre[k]

VolumeLabelled(S) == \E pre \in [Idx -> S] : IsPrefixSum(pre)

\* The quantities that can rest before a node: no more than its level holds.
Volumes == {0} \cup UNION {UNION {0 .. volume[s][p] : p \in Tick} : s \in Side}

\* A handle that was posted for an order names the order's node, under the
\* generation the node has, for as long as the order rests; orders are younger
\* than all that was posted before them.
HandlesNameTheirOrder ==
    \A c \in issued :
        /\ 0 < c.id /\ c.id < nextOrder
        /\ pc # "idle" => c.id < order.id
        /\ \A i \in Resting : sys[i] = c.id => c.handle = Make(i, gen[i])

\* Every node is free, resting or on its way once; a level is a list in order of
\* arrival with its ends and volume right; a mask bit is set where orders rest;
\* the cached best prices are the best; bids stay below asks; and handles name
\* their orders.
Consistent ==
    /\ TypeOK /\ NodesAccountedFor /\ LevelsAreFifo /\ OccupancyExact /\ BestPricesExact
    /\ NotCrossed /\ CallInv /\ HandlesNameTheirOrder /\ VolumeLabelled(Volumes)

\* The book is consistent in every state, those between two iterations of match()
\* included, unless cancelOrder accepted a handle whose order did not rest.
BookInv == stale \/ Consistent

\* The orders that rest, as the abstract book knows them.
OrderOf(i) == [id |-> sys[i], side |-> side[i], price |-> price[i], qty |-> qty[i]]
RestingOrders == {OrderOf(i) : i \in Resting}

LOB == INSTANCE LimitOrderBook WITH
    Prices <- Tick,
    Quantities <- 0 .. MAX_QTY,
    Capacity <- MAX_BOOK_ORDERS - 1,
    resting <- RestingOrders,
    incoming <- order,
    nextId <- nextOrder,
    broken <- stale,
    report <- [id |-> status.id, fill |-> status.fill, state |-> status.state]

\* The linked lists, masks, caches and recycled ids together behave as a set
\* of orders under price-time priority: every step of the book is a step of
\* LimitOrderBook or changes nothing it can see, and only the answer Cancelled
\* for an order that did not rest ends that.
ImplementsLimitOrderBook == LOB!LobSpec

\* cancelOrder only reports Cancelled for an order that was resting, and it
\* releases that order's node and no other.
CancelledWasResting ==
    [][pc = "idle" /\ status'.state = "Cancelled" =>
        \E i \in Resting : sys[i] = status'.id /\ Resting' = Resting \ {i}]_vars
=============================================================================
