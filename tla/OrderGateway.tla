---------------------------- MODULE OrderGateway ----------------------------
(***************************************************************************)
(* The flow of an order through the server: OrderGateway                   *)
(* (server/src/gateway/order_gateway.hpp), Coordinator                     *)
(* (server/src/execution/coordinator.hpp) and the runners' queues.         *)
(*                                                                         *)
(* The network thread turns a client's order into a record and an event    *)
(* for the worker of its ticker; the worker runs the order book and posts  *)
(* a status; the gateway thread passes the status to the client of the     *)
(* record and updates or closes the record.  Both threads use the records  *)
(* and the id pool, so a handler that accesses a record twice is two steps.*)
(*                                                                         *)
(* The id pool is a bag of free ids (SlotIdPool shows it behaves so), a    *)
(* queue a bounded sequence (SequencedSPSC), and the book answers as       *)
(* PriceLevelOrderBook does: at most one status, with the id of the event. *)
(* Orders are named by their ordinal; a book's id for an order is          *)
(* identified with the order.  Faulty... operators are slips of the        *)
(* definitions that follow them, as in PriceLevelOrderBook.                *)
(***************************************************************************)
EXTENDS SlotId, Sequences

CONSTANTS
    CAPACITY,       \* records; indices 1 .. CAPACITY - 1 are issued
    Client, NoClient,   \* NoClient is the client of a record never used
    Ticker, NoTicker,   \* tickers named in orders
    Traded,         \* tickers of the market data
    Worker,
    workerOf,       \* TickerData::workerId of the traded tickers
    MAX_TICKS,      \* the book refuses prices at or above it
    Price,          \* prices of orders, 0 included
    QUEUE_SIZE,     \* capacity of a runner's queue
    MAX_ORDERS      \* bound: number of orders sent

ASSUME GatewayAssumption ==
    /\ CAPACITY \in Nat /\ CAPACITY > 1
    /\ NoClient \notin Client /\ NoTicker \notin Ticker
    /\ Traded \subseteq Ticker /\ workerOf \in [Traded -> Worker]
    /\ MAX_TICKS \in Nat /\ Price \subseteq Nat
    /\ QUEUE_SIZE \in Nat \ {0} /\ MAX_ORDERS \in Nat

Index == 1 .. CAPACITY - 1
Id == [index : Index, gen : Gen]

\* OrderRecord of zeroed memory: New is the first RecordState.
NoRecord == [externalOId |-> 0, systemOId |-> InvalidId, bookOId |-> 0, ticker |-> NoTicker,
             clientId |-> NoClient, state |-> "New"]

VARIABLES
    records,        \* recordMap_
    pool,           \* how many times each id is free, more than once in error
    npc, cancel,    \* network thread: idle, or inside cancelOrder with its request
    workerQueue,    \* InternalOrderEvents queued for each worker
    statusQueue,    \* InternalOrderStatuses queued for the gateway thread
    gpc, handled,   \* gateway thread: idle, update or finish, and its status
    stop,           \* the stop token
    closed,         \* closed_
    error,          \* an InternalError was posted
    orders,         \* history: the orders received
    replies,        \* history: for each order the statuses sent to clients
    asked           \* history: orders with a cancel event posted

network == <<npc, cancel>>
queues == <<workerQueue, statusQueue, error>>
gateway == <<gpc, handled>>
flags == <<stop, closed>>
history == <<orders, replies, asked>>
vars == <<records, pool, network, queues, gateway, flags, history>>

NoCancel == [id |-> InvalidId, ticker |-> NoTicker]
NoStatus == [about |-> 0, id |-> InvalidId, bookOId |-> 0, state |-> "None"]
Closing == {"Cancelled", "Rejected", "Full"}

\* A ServerOrderStatus for order n; about is the order it is really about.
Reply(n, c, id, state, about) ==
    replies' = [replies EXCEPT ![n] =
        Append(@, [client |-> c, id |-> id, state |-> state, about |-> about])]

\* LfqRunner::post: nothing is queued after a stop request, nor when the queue
\* stays full, which is an internal error.
Put(q, m) == IF stop \/ Len(q) = QUEUE_SIZE THEN q ELSE Append(q, m)
Overflows(q) == ~stop /\ Len(q) = QUEUE_SIZE

\* Coordinator::post
Route(e) ==
    IF stop \/ e.ticker \notin Traded
    THEN UNCHANGED <<workerQueue, error>>
    ELSE LET w == workerOf[e.ticker]
         IN  /\ workerQueue' = [workerQueue EXCEPT ![w] = Put(@, e)]
             /\ error' = (error \/ Overflows(workerQueue[w]))
-----------------------------------------------------------------------------
(* The network thread.  A message that arrives once the gateway is closed  *)
(* has no effect, like a Dummy or Modify order.                            *)

Arrives(c, t, p) ==
    /\ npc = "idle"
    /\ ~closed
    /\ Len(orders) < MAX_ORDERS
    /\ orders' = Append(orders, [client |-> c, ticker |-> t, price |-> p])

NewId == Len(orders) + 1

\* An invalid order (price 0), or no id left.
RejectNew(c, t, p) ==
    /\ Arrives(c, t, p)
    /\ p = 0 \/ \A id \in Id : pool[id] = 0
    /\ Reply(NewId, c, InvalidId, "Rejected", NewId)
    /\ UNCHANGED <<records, pool, network, queues, gateway, flags, asked>>

FaultyAcquireAgain(id) == pool[id] > 0 /\ UNCHANGED pool
\* SlotIdPool::acquire
Acquire(id) == pool[id] > 0 /\ pool' = [pool EXCEPT ![id] = @ - 1]

newOrder(c, t, p, id) ==
    /\ Arrives(c, t, p)
    /\ p > 0
    /\ Acquire(id)
    /\ records' = [records EXCEPT ![id.index] =
            [externalOId |-> NewId, systemOId |-> id, bookOId |-> 0, ticker |-> t,
             clientId |-> c, state |-> "New"]]
    /\ Route([about |-> NewId, id |-> id, bookOId |-> 0, ticker |-> t, price |-> p, action |-> "New"])
    /\ UNCHANGED <<network, statusQueue, gateway, flags, replies, asked>>

\* The checks of cancelOrder.  A cancel that fails them has no effect; the
\* client is not told.  (A cancel with price 0 is answered as an order named by
\* the system id, which is no order of that client.)
MayCancel(c, id) ==
    /\ records[id.index].state = "Accepted"
    /\ records[id.index].clientId = c
    /\ records[id.index].systemOId = id

\* What the gateway relies on: a client asks once for an order to be cancelled,
\* naming the order's ticker, as TradeEngine does.
CancelOnce(id, t) ==
    records[id.index].externalOId \notin asked /\ records[id.index].ticker = t

CancelCheck(c, id, t) ==
    /\ npc = "idle"
    /\ ~closed
    /\ MayCancel(c, id)
    /\ npc' = "cancel"
    /\ cancel' = [id |-> id, ticker |-> t]
    /\ UNCHANGED <<records, pool, queues, gateway, flags, history>>

\* The end of cancelOrder reads the book id and posts the event.
CancelPost ==
    LET r == records[cancel.id.index]
    IN  /\ npc = "cancel"
        /\ Route([about |-> r.externalOId, id |-> cancel.id, bookOId |-> r.bookOId,
                  ticker |-> cancel.ticker, price |-> 1, action |-> "Cancel"])
        /\ asked' = asked \cup {r.externalOId}
        /\ npc' = "idle"
        /\ cancel' = NoCancel
        /\ UNCHANGED <<records, pool, statusQueue, gateway, flags, orders, replies>>
-----------------------------------------------------------------------------
(* The worker threads.                                                     *)

\* The worker's loop reads the next event from its queue.
Takes(w, action) ==
    /\ ~stop
    /\ workerQueue[w] # <<>>
    /\ Head(workerQueue[w]).action = action
    /\ workerQueue' = [workerQueue EXCEPT ![w] = Tail(@)]
    /\ UNCHANGED <<records, pool, network, gateway, flags, history>>

\* The worker posts a status for event e to the gateway.
PostStatus(e, bookOId, state) ==
    /\ statusQueue' = Put(statusQueue,
            [about |-> e.about, id |-> e.id, bookOId |-> bookOId, state |-> state])
    /\ error' = (error \/ Overflows(statusQueue))

FaultyMatchAnswers(w) ==
    LET e == Head(workerQueue[w])
    IN  /\ Takes(w, "New")
        /\ \/ UNCHANGED <<statusQueue, error>>
           \/ e.price < MAX_TICKS /\ PostStatus(e, 0, "Full")
\* PriceLevelOrderBook::add of a new order: refused without a status when the
\* price is out of bounds, filled, rested, or dropped by a full book with an
\* internal error.
Match(w) ==
    LET e == Head(workerQueue[w])
    IN  /\ Takes(w, "New")
        /\ \/ e.price >= MAX_TICKS /\ UNCHANGED <<statusQueue, error>>
           \/ /\ e.price < MAX_TICKS
              /\ \/ PostStatus(e, 0, "Full")
                 \/ \E state \in {"Accepted", "Partial"} : PostStatus(e, e.about, state)
                 \/ error' = TRUE /\ UNCHANGED statusQueue

\* PriceLevelOrderBook::add of a cancel.
Cancel(w) ==
    LET e == Head(workerQueue[w])
    IN  /\ Takes(w, "Cancel")
        /\ \E state \in {"Cancelled", "Rejected"} : PostStatus(e, e.bookOId, state)
-----------------------------------------------------------------------------
(* The gateway thread: post(InternalOrderStatus).                          *)

GatewayReply ==
    LET s == Head(statusQueue)
        r == records[s.id.index]
    IN  /\ gpc = "idle"
        /\ ~stop
        /\ statusQueue # <<>>
        /\ statusQueue' = Tail(statusQueue)
        /\ Reply(r.externalOId, r.clientId, r.systemOId, s.state, s.about)
        /\ handled' = s
        /\ gpc' = "update"
        /\ UNCHANGED <<records, pool, network, workerQueue, error, flags, orders, asked>>

\* The first write to the record: the state Closed, or the book id.
Updated(s) ==
    IF s.state \in Closing
    THEN [records EXCEPT ![s.id.index].state = "Closed"]
    ELSE [records EXCEPT ![s.id.index].bookOId = s.bookOId]

GatewayUpdate ==
    /\ gpc = "update"
    /\ records' = Updated(handled)
    /\ gpc' = "finish"
    /\ UNCHANGED <<pool, network, queues, handled, flags, history>>

FaultyNoRelease(i) == UNCHANGED pool
\* SlotIdPool::release of the record's id
Release(i) == pool' = [pool EXCEPT ![NextGen(records[i].systemOId)] = @ + 1]

\* The second: the id is released, or the record becomes Accepted.
GatewayFinish ==
    /\ gpc = "finish"
    /\ IF handled.state \in Closing
       THEN Release(handled.id.index) /\ UNCHANGED records
       ELSE /\ records' = [records EXCEPT ![handled.id.index].state = "Accepted"]
            /\ UNCHANGED pool
    /\ gpc' = "idle"
    /\ handled' = NoStatus
    /\ UNCHANGED <<network, queues, flags, history>>
-----------------------------------------------------------------------------
(* ControlCenter::stop, on a signal, a command or an internal error.       *)

RequestStop ==
    /\ ~stop
    /\ stop' = TRUE
    /\ UNCHANGED <<records, pool, network, queues, gateway, closed, history>>

\* OrderGateway::stop
CloseGateway ==
    /\ stop /\ ~closed
    /\ closed' = TRUE
    /\ UNCHANGED <<records, pool, network, queues, gateway, stop, history>>
-----------------------------------------------------------------------------
Init ==
    /\ records = [i \in Index |-> NoRecord]
    /\ pool = [id \in Id |-> IF id.gen = 1 THEN 1 ELSE 0]
    /\ npc = "idle" /\ cancel = NoCancel
    /\ workerQueue = [w \in Worker |-> <<>>] /\ statusQueue = <<>>
    /\ gpc = "idle" /\ handled = NoStatus
    /\ stop = FALSE /\ closed = FALSE /\ error = FALSE
    /\ orders = <<>> /\ replies = [n \in 1 .. MAX_ORDERS |-> <<>>] /\ asked = {}

NetworkNext ==
    \/ \E c \in Client, t \in Ticker, p \in Price :
        RejectNew(c, t, p) \/ \E id \in Id : newOrder(c, t, p, id)
    \/ CancelPost

ServerNext ==
    \/ \E w \in Worker : Match(w) \/ Cancel(w)
    \/ GatewayReply \/ GatewayUpdate \/ GatewayFinish
    \/ RequestStop \/ CloseGateway

Next ==
    \/ NetworkNext \/ ServerNext
    \/ \E c \in Client, id \in Id, t \in Ticker : CancelOnce(id, t) /\ CancelCheck(c, id, t)

Spec == Init /\ [][Next]_vars
-----------------------------------------------------------------------------
(* Properties.                                                             *)

Event == [about : Nat, id : Id, bookOId : Nat, ticker : Ticker, price : Nat,
          action : {"New", "Cancel"}]
StatusOf == [about : Nat, id : Id, bookOId : Nat,
             state : Closing \cup {"Accepted", "Partial"}]
ReplyOf == [client : Client \cup {NoClient}, id : Id \cup {InvalidId}, about : Nat,
            state : Closing \cup {"Accepted", "Partial"}]

\* Every variable of the order flow has its type.
TypeOK ==
    /\ records \in [Index -> [externalOId : Nat, systemOId : Id \cup {InvalidId}, bookOId : Nat,
                              ticker : Ticker \cup {NoTicker}, clientId : Client \cup {NoClient},
                              state : {"New", "Accepted", "Closed"}]]
    /\ pool \in [Id -> Nat]
    /\ npc \in {"idle", "cancel"}
    /\ cancel \in [id : Id \cup {InvalidId}, ticker : Ticker \cup {NoTicker}]
    /\ workerQueue \in [Worker -> Seq(Event)] /\ statusQueue \in Seq(StatusOf)
    /\ gpc \in {"idle", "update", "finish"} /\ handled \in StatusOf \cup {NoStatus}
    /\ stop \in BOOLEAN /\ closed \in BOOLEAN /\ error \in BOOLEAN
    /\ orders \in Seq([client : Client, ticker : Ticker, price : Price])
    /\ replies \in [1 .. MAX_ORDERS -> Seq(ReplyOf)]
    /\ asked \subseteq Nat

\* A record in use; an event, request or status that concerns it.
InUse(i) == IsValid(records[i].systemOId) /\ records[i].state # "Closed"
InNetwork(i) == npc = "cancel" /\ cancel.id.index = i
InWorker(i) == \E w \in Worker : \E k \in 1 .. Len(workerQueue[w]) : workerQueue[w][k].id.index = i
InStatus(i) == \E k \in 1 .. Len(statusQueue) : statusQueue[k].id.index = i
InGateway(i) == gpc # "idle" /\ handled.id.index = i
Freeing(i) == gpc = "finish" /\ handled.state \in Closing /\ handled.id.index = i
Free(i) == \E id \in Id : id.index = i /\ pool[id] > 0

\* An id is free once, or its record is in use, or the gateway thread is about
\* to release it: two open orders never share a record, and no id is lost.
IdsConserved ==
    /\ \A id \in Id : pool[id] <= 1
    /\ \A x, y \in Id : x.index = y.index /\ pool[x] > 0 /\ pool[y] > 0 => x = y
    /\ \A i \in Index :
        /\ Free(i) => ~InUse(i) /\ ~Freeing(i)
        /\ InUse(i) => ~Freeing(i)
        /\ Free(i) \/ InUse(i) \/ Freeing(i)

\* m is about the order that owns the record it names.
OwnRecord(m) ==
    LET r == records[m.id.index]
    IN  r.systemOId = m.id /\ r.externalOId = m.about /\ r.state # "Closed"

\* Events and statuses on their way through the threads never outlive the order
\* they are about, although post(InternalOrderStatus) looks at the index only.
InFlightIsCurrent ==
    /\ \A w \in Worker : \A k \in 1 .. Len(workerQueue[w]) : OwnRecord(workerQueue[w][k])
    /\ \A k \in 1 .. Len(statusQueue) : OwnRecord(statusQueue[k])
    /\ gpc = "update" => OwnRecord(handled)

\* Every status reaches the client that sent the order it is about.
StatusToOwner ==
    \A n \in 1 .. MAX_ORDERS : \A k \in 1 .. Len(replies[n]) :
        replies[n][k].about = n /\ replies[n][k].client = orders[n].client

\* The statuses a client gets for an order: it is refused or filled, or it
\* rests and may then be reported cancelled, once.
Lifecycle ==
    \A n \in 1 .. MAX_ORDERS :
        LET s == replies[n]
        IN  /\ Len(s) <= 2
            /\ Len(s) = 2 => /\ s[1].state \in {"Accepted", "Partial"}
                             /\ s[2].state \in {"Cancelled", "Rejected"}
                             /\ s[1].id = s[2].id

\* The event of a cancel carries the id the book gave to that order: the
\* network thread never reads a book id before the gateway thread wrote it.
BookIdPublished ==
    \A w \in Worker : \A k \in 1 .. Len(workerQueue[w]) :
        LET e == workerQueue[w][k]
        IN  e.action = "Cancel" => e.bookOId = e.about

\* The last thing the client of record i was told of its order: that it is over.
ToldItsEnd(i) ==
    LET s == replies[records[i].externalOId]
    IN  s # <<>> /\ s[Len(s)].state \in Closing

\* A record passes to another order only after the client of its order was told
\* that the order is over.  An order that the coordinator or the book drops in
\* silence keeps its record, whatever else the clients send.
ReusedOnlyOnceTold ==
    [][\A i \in Index :
        IsValid(records[i].systemOId) /\ records'[i].externalOId # records[i].externalOId
            => ToldItsEnd(i)]_vars
-----------------------------------------------------------------------------
(* The inductive invariant of OrderGatewayProofs.                          *)

\* The state of the record of an event, a status or a cancel request.
EventOK(e) ==
    LET r == records[e.id.index]
    IN  /\ OwnRecord(e)
        /\ e.action = "New" => r.state = "New"
        /\ e.action = "Cancel" => r.state = "Accepted" /\ e.about \in asked /\ e.bookOId = e.about

StatusOK(s) ==
    LET r == records[s.id.index]
    IN  /\ OwnRecord(s)
        /\ s.state \in {"Full", "Accepted", "Partial"} => r.state = "New"
        /\ s.state \in {"Accepted", "Partial"} => s.bookOId = s.about
        /\ s.state \in {"Cancelled", "Rejected"} => r.state = "Accepted" /\ s.about \in asked

FinishOK ==
    LET r == records[handled.id.index]
    IN  /\ r.systemOId = handled.id /\ r.externalOId = handled.about
        /\ IF handled.state \in Closing THEN r.state = "Closed"
           ELSE r.state = "New" /\ r.bookOId = handled.about

CancelOK ==
    LET r == records[cancel.id.index]
    IN  /\ cancel.id \in Id /\ cancel.ticker \in Ticker
        /\ r.systemOId = cancel.id /\ r.state = "Accepted" /\ r.externalOId \notin asked

MessageInv ==
    /\ \A w \in Worker : \A k \in 1 .. Len(workerQueue[w]) : EventOK(workerQueue[w][k])
    /\ \A k \in 1 .. Len(statusQueue) : StatusOK(statusQueue[k])
    /\ gpc # "idle" => handled \in StatusOf
    /\ gpc = "update" => StatusOK(handled)
    /\ gpc = "finish" => FinishOK
    /\ npc = "cancel" => CancelOK

\* At most one event, status or request concerns a record.
QueuesDistinct ==
    /\ \A v, w \in Worker : \A k \in 1 .. Len(workerQueue[v]), l \in 1 .. Len(workerQueue[w]) :
        workerQueue[v][k].id.index = workerQueue[w][l].id.index => v = w /\ k = l
    /\ \A k, l \in 1 .. Len(statusQueue) :
        statusQueue[k].id.index = statusQueue[l].id.index => k = l

OneCarrier ==
    \A i \in Index :
        /\ InWorker(i) => ~InStatus(i) /\ ~InGateway(i) /\ ~InNetwork(i)
        /\ InStatus(i) => ~InGateway(i) /\ ~InNetwork(i)
        /\ InGateway(i) => ~InNetwork(i)

\* The record of an open order; nothing is in flight for one that rests.
RecordOK(i) ==
    LET r == records[i]
    IN  /\ r.systemOId \in Id /\ r.systemOId.index = i
        /\ r.externalOId \in 1 .. Len(orders) /\ r.clientId = orders[r.externalOId].client
        /\ r.state = "New" => r.externalOId \notin asked
        /\ r.state = "Accepted" => r.bookOId = r.externalOId
        /\ r.state = "Accepted" /\ r.externalOId \notin asked =>
              ~InWorker(i) /\ ~InStatus(i) /\ ~InGateway(i)

RecordInv ==
    /\ asked \subseteq 1 .. Len(orders)
    /\ \A i \in Index : InUse(i) => RecordOK(i)
    /\ \A i, j \in Index :
        InUse(i) /\ InUse(j) /\ records[i].externalOId = records[j].externalOId => i = j

\* What the client of an open order was told so far.
ToldOK(i) ==
    LET r == records[i]
        s == replies[r.externalOId]
    IN  /\ r.state = "New" /\ ~InGateway(i) => s = <<>>
        /\ r.state = "New" /\ InGateway(i) =>
              Len(s) = 1 /\ s[1].state = handled.state /\ s[1].id = r.systemOId
        /\ r.state = "Accepted" /\ ~InGateway(i) =>
              Len(s) = 1 /\ s[1].state \in {"Accepted", "Partial"} /\ s[1].id = r.systemOId

RepliesInv ==
    /\ Len(orders) <= MAX_ORDERS
    /\ \A n \in 1 .. MAX_ORDERS : n > Len(orders) => replies[n] = <<>>
    /\ \A i \in Index : InUse(i) => ToldOK(i)
=============================================================================
