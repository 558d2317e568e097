------------------------- MODULE OrderGatewayProofs -------------------------
(***************************************************************************)
(* Proofs about OrderGateway: no two open orders share a record and no id  *)
(* is lost, what is in flight belongs to the order that owns the record,   *)
(* and every status reaches the client of its order, for every number of   *)
(* records, clients, workers and orders and every size of the queues.      *)
(***************************************************************************)
EXTENDS OrderGateway, TLAPS

\* The time, in seconds, that a prover may take over a leaf.
USE SMTT(30), ZenonT(30)

\* The inductive invariant.
IInv ==
    /\ TypeOK /\ IdsConserved /\ MessageInv /\ QueuesDistinct /\ OneCarrier /\ RecordInv
    /\ RepliesInv /\ StatusToOwner /\ Lifecycle

\* An issued id is not the invalid one, and release() keeps its index.
LEMMA IdFacts ==
    /\ InvalidId \notin Id /\ ~IsValid(InvalidId)
    /\ \A id \in Id : /\ id.index \in Index /\ IsValid(id)
                      /\ NextGen(id) \in Id /\ NextGen(id).index = id.index
<1>1. InvalidId \notin Id /\ ~IsValid(InvalidId)
  BY GatewayAssumption DEF InvalidId, Make, Id, Index, Gen, IsValid
<1>2. ASSUME NEW id \in Id
      PROVE  id.index \in Index /\ IsValid(id) /\ NextGen(id) \in Id /\ NextGen(id).index = id.index
  BY MaxGenAssumption DEF Id, IsValid, Gen, NextGen, Make
<1> QED
  BY Zenon, <1>1, <1>2

\* A post appends the message or leaves the queue as it is.
LEMMA PutFacts ==
    ASSUME NEW S, NEW q \in Seq(S), NEW m \in S
    PROVE  /\ Put(q, m) \in Seq(S)
           /\ \A k \in 1 .. Len(Put(q, m)) :
                \/ k \in 1 .. Len(q) /\ Put(q, m)[k] = q[k]
                \/ k = Len(q) + 1 /\ Put(q, m)[k] = m
<1>1. Append(q, m) \in Seq(S) /\ Len(Append(q, m)) = Len(q) + 1 /\ Len(q) \in Nat
  OBVIOUS
<1>2. \A k \in 1 .. Len(q) + 1 : Append(q, m)[k] = IF k = Len(q) + 1 THEN m ELSE q[k]
  OBVIOUS
<1> QED
  BY <1>1, <1>2 DEF Put

\* A read takes the first entry.
LEMMA TailFacts ==
    ASSUME NEW S, NEW q \in Seq(S), q # <<>>
    PROVE  /\ Tail(q) \in Seq(S) /\ 1 \in 1 .. Len(q) /\ Head(q) = q[1] /\ Head(q) \in S
           /\ \A k \in 1 .. Len(Tail(q)) : k + 1 \in 1 .. Len(q) /\ Tail(q)[k] = q[k + 1]
<1>1. Len(q) \in Nat /\ Len(q) # 0 /\ Tail(q) \in Seq(S) /\ Len(Tail(q)) = Len(q) - 1
  OBVIOUS
<1>2. Head(q) = q[1] /\ Head(q) \in S /\ \A k \in 1 .. Len(Tail(q)) : Tail(q)[k] = q[k + 1]
  OBVIOUS
<1> QED
  BY <1>1, <1>2

\* Coordinator::post adds at most the event, at the end of its worker's queue.
LEMMA RouteFacts ==
    ASSUME TypeOK, NEW e \in Event, Route(e)
    PROVE  /\ workerQueue' \in [Worker -> Seq(Event)] /\ error' \in BOOLEAN
           /\ \A w \in Worker : \A k \in 1 .. Len(workerQueue'[w]) :
                \/ k \in 1 .. Len(workerQueue[w]) /\ workerQueue'[w][k] = workerQueue[w][k]
                \/ /\ k = Len(workerQueue[w]) + 1 /\ workerQueue'[w][k] = e
                   /\ w = workerOf[e.ticker]
<1>1. workerQueue \in [Worker -> Seq(Event)] /\ error \in BOOLEAN /\ stop \in BOOLEAN
  BY Zenon DEF TypeOK
<1>2. CASE stop \/ e.ticker \notin Traded
  BY Zenon, <1>1, <1>2 DEF Route
<1>3. CASE ~(stop \/ e.ticker \notin Traded)
  <2> DEFINE u == workerOf[e.ticker]
             p == Put(workerQueue[u], e)
  <2>1. u \in Worker
    BY Zenon, <1>3, GatewayAssumption
  <2>2. workerQueue' = [workerQueue EXCEPT ![u] = p] /\ error' = (error \/ Overflows(workerQueue[u]))
    BY Zenon, <1>3 DEF Route
  <2>3. /\ p \in Seq(Event)
        /\ \A k \in 1 .. Len(p) : \/ k \in 1 .. Len(workerQueue[u]) /\ p[k] = workerQueue[u][k]
                                  \/ k = Len(workerQueue[u]) + 1 /\ p[k] = e
    BY Zenon, <1>1, <2>1, PutFacts
  <2>4. error' \in BOOLEAN
    BY <1>1, <2>2, Zenon DEF Overflows
  <2> HIDE DEF p, u
  <2>5. workerQueue' \in [Worker -> Seq(Event)]
    BY Zenon, <1>1, <2>1, <2>2, <2>3
  <2>6. \A w \in Worker : workerQueue'[w] = IF w = u THEN p ELSE workerQueue[w]
    BY Zenon, <1>1, <2>1, <2>2
  <2> QED
    BY Zenon, <2>3, <2>4, <2>5, <2>6 DEF u
<1> QED
  BY Zenon, <1>2, <1>3

\* A worker takes the first event of its queue; the others keep their place.
LEMMA TakesFacts ==
    ASSUME TypeOK, NEW w \in Worker, NEW a, Takes(w, a)
    PROVE  /\ workerQueue' \in [Worker -> Seq(Event)]
           /\ 1 \in 1 .. Len(workerQueue[w]) /\ Head(workerQueue[w]) = workerQueue[w][1]
           /\ workerQueue[w][1] \in Event /\ workerQueue[w][1].action = a
           /\ \A k \in 1 .. Len(workerQueue'[w]) :
                k + 1 \in 1 .. Len(workerQueue[w]) /\ workerQueue'[w][k] = workerQueue[w][k + 1]
           /\ \A v \in Worker : v # w => workerQueue'[v] = workerQueue[v]
<1>1. workerQueue \in [Worker -> Seq(Event)]
  BY Zenon DEF TypeOK
<1>2. workerQueue[w] \in Seq(Event) /\ workerQueue[w] # <<>>
  BY Zenon, <1>1 DEF Takes
<1>3. workerQueue' = [workerQueue EXCEPT ![w] = Tail(workerQueue[w])]
  BY Zenon DEF Takes
<1>4. workerQueue'[w] = Tail(workerQueue[w]) /\ \A v \in Worker : v # w => workerQueue'[v] = workerQueue[v]
  BY Zenon, <1>1, <1>3
<1>5. workerQueue' \in [Worker -> Seq(Event)]
  BY Zenon, <1>1, <1>2, <1>3, TailFacts
<1> QED
  BY <1>2, <1>4, <1>5, TailFacts DEF Takes

\* A worker's post to the gateway adds at most one status, about its event.
LEMMA PostFacts ==
    ASSUME TypeOK, NEW e \in Event, NEW b \in Nat,
           NEW state \in Closing \cup {"Accepted", "Partial"}, PostStatus(e, b, state)
    PROVE  /\ statusQueue' \in Seq(StatusOf) /\ error' \in BOOLEAN
           /\ \A k \in 1 .. Len(statusQueue') :
                \/ k \in 1 .. Len(statusQueue) /\ statusQueue'[k] = statusQueue[k]
                \/ /\ k = Len(statusQueue) + 1
                   /\ statusQueue'[k] = [about |-> e.about, id |-> e.id, bookOId |-> b, state |-> state]
<1>1. [about |-> e.about, id |-> e.id, bookOId |-> b, state |-> state] \in StatusOf
  BY Zenon DEF StatusOf, Event
<1>2. statusQueue \in Seq(StatusOf) /\ error \in BOOLEAN
  BY Zenon DEF TypeOK
<1>3. error' \in BOOLEAN
  BY <1>2, Zenon DEF PostStatus, Overflows
<1> QED
  BY Zenon, <1>1, <1>2, <1>3, PutFacts DEF PostStatus

\* The effect of a reply: it is appended to the statuses of one order.
ReplyEffect(n, c, id, state, about) ==
    /\ \A x \in 1 .. MAX_ORDERS : x # n => replies'[x] = replies[x]
    /\ Len(replies[n]) \in Nat /\ Len(replies'[n]) = Len(replies[n]) + 1
    /\ \A k \in 1 .. Len(replies[n]) : replies'[n][k] = replies[n][k]
    /\ replies'[n][Len(replies[n]) + 1] =
         [client |-> c, id |-> id, state |-> state, about |-> about]

\* A reply keeps the type of the replies and has that effect.
LEMMA ReplyFacts ==
    ASSUME TypeOK, NEW n \in 1 .. MAX_ORDERS, NEW c \in Client \cup {NoClient},
           NEW id \in Id \cup {InvalidId}, NEW state \in Closing \cup {"Accepted", "Partial"},
           NEW about \in Nat, Reply(n, c, id, state, about)
    PROVE  /\ replies' \in [1 .. MAX_ORDERS -> Seq(ReplyOf)]
           /\ ReplyEffect(n, c, id, state, about)
<1> DEFINE m == [client |-> c, id |-> id, state |-> state, about |-> about]
           a == Append(replies[n], m)
<1>1. m \in ReplyOf
  BY Zenon DEF ReplyOf
<1>2. replies \in [1 .. MAX_ORDERS -> Seq(ReplyOf)]
  BY Zenon DEF TypeOK
<1>3. replies' = [replies EXCEPT ![n] = a]
  BY Zenon DEF Reply
<1>4. replies[n] \in Seq(ReplyOf)
  BY Zenon, <1>2
<1> HIDE DEF m
<1>5. /\ a \in Seq(ReplyOf) /\ Len(replies[n]) \in Nat /\ Len(a) = Len(replies[n]) + 1
      /\ \A k \in 1 .. Len(replies[n]) : a[k] = replies[n][k]
      /\ a[Len(replies[n]) + 1] = m
  BY <1>1, <1>4
<1> HIDE DEF a
<1>6. /\ replies' \in [1 .. MAX_ORDERS -> Seq(ReplyOf)] /\ replies'[n] = a
      /\ \A x \in 1 .. MAX_ORDERS : x # n => replies'[x] = replies[x]
  BY Zenon, <1>2, <1>3, <1>5
<1> QED
  BY Zenon, <1>5, <1>6 DEF m, ReplyEffect

\* The order that arrives is the next one.
LEMMA ArrivesFacts ==
    ASSUME TypeOK, NEW c \in Client, NEW t \in Ticker, NEW p \in Price, Arrives(c, t, p)
    PROVE  /\ orders' \in Seq([client : Client, ticker : Ticker, price : Price])
           /\ Len(orders) \in Nat /\ Len(orders') = NewId /\ NewId = Len(orders) + 1
           /\ NewId \in 1 .. MAX_ORDERS
           /\ \A n \in 1 .. Len(orders) : orders'[n] = orders[n]
           /\ orders'[NewId].client = c
<1> DEFINE o == [client |-> c, ticker |-> t, price |-> p]
           S == [client : Client, ticker : Ticker, price : Price]
<1>1. orders \in Seq(S) /\ o \in S /\ o.client = c
  BY Zenon DEF TypeOK
<1>2. orders' = Append(orders, o) /\ Len(orders) < MAX_ORDERS
  BY Zenon DEF Arrives
<1>3. Len(orders) \in Nat /\ MAX_ORDERS \in Nat
  BY <1>1, GatewayAssumption
<1> HIDE DEF o, S
<1>4. /\ Append(orders, o) \in Seq(S) /\ Len(Append(orders, o)) = Len(orders) + 1
      /\ \A n \in 1 .. Len(orders) : Append(orders, o)[n] = orders[n]
      /\ Append(orders, o)[Len(orders) + 1] = o
  BY <1>1
<1> QED
  BY <1>1, <1>2, <1>3, <1>4 DEF NewId, S

RecordOf == [externalOId : Nat, systemOId : Id \cup {InvalidId}, bookOId : Nat,
             ticker : Ticker \cup {NoTicker}, clientId : Client \cup {NoClient},
             state : {"New", "Accepted", "Closed"}]

\* The two ways the gateway thread writes to a record.
LEMMA StateWritten ==
    ASSUME NEW f \in [Index -> RecordOf], NEW i \in Index, NEW st \in {"New", "Accepted", "Closed"},
           NEW g, g = [f EXCEPT ![i].state = st]
    PROVE  /\ g \in [Index -> RecordOf] /\ g[i] = [f[i] EXCEPT !.state = st]
           /\ \A j \in Index : j # i => g[j] = f[j]
<1>1. [f[i] EXCEPT !.state = st] \in RecordOf
  BY Zenon DEF RecordOf
<1> QED
  BY Zenon, <1>1

\* Writing the book id of a record changes nothing else of it, nor other records.
LEMMA BookIdWritten ==
    ASSUME NEW f \in [Index -> RecordOf], NEW i \in Index, NEW b \in Nat,
           NEW g, g = [f EXCEPT ![i].bookOId = b]
    PROVE  /\ g \in [Index -> RecordOf] /\ g[i] = [f[i] EXCEPT !.bookOId = b]
           /\ \A j \in Index : j # i => g[j] = f[j]
<1>1. [f[i] EXCEPT !.bookOId = b] \in RecordOf
  BY Zenon DEF RecordOf
<1> QED
  BY Zenon, <1>1

\* newOrder overwrites one record, and posts an event about it.
NewEffect(c, t, p, id) ==
    /\ records'[id.index] = [externalOId |-> NewId, systemOId |-> id, bookOId |-> 0,
                             ticker |-> t, clientId |-> c, state |-> "New"]
    /\ \A i \in Index : i # id.index => records'[i] = records[i]
    /\ pool[id] \in Nat /\ pool[id] > 0 /\ pool'[id] = pool[id] - 1
    /\ \A x \in Id : x # id => pool'[x] = pool[x]
    /\ \A w \in Worker : \A k \in 1 .. Len(workerQueue'[w]) :
         \/ k \in 1 .. Len(workerQueue[w]) /\ workerQueue'[w][k] = workerQueue[w][k]
         \/ /\ k = Len(workerQueue[w]) + 1 /\ w = workerOf[t]
            /\ workerQueue'[w][k] = [about |-> NewId, id |-> id, bookOId |-> 0,
                                     ticker |-> t, price |-> p, action |-> "New"]

\* The effect of a new order on the records, the pool and the workers' queues.
LEMMA NewFacts ==
    ASSUME TypeOK, NEW c \in Client, NEW t \in Ticker, NEW p \in Price, NEW id \in Id,
           newOrder(c, t, p, id)
    PROVE  TypeOK' /\ NewEffect(c, t, p, id)
<1> DEFINE e == [about |-> NewId, id |-> id, bookOId |-> 0, ticker |-> t, price |-> p, action |-> "New"]
           r == [externalOId |-> NewId, systemOId |-> id, bookOId |-> 0,
                 ticker |-> t, clientId |-> c, state |-> "New"]
<1>1. Arrives(c, t, p) /\ Acquire(id) /\ Route(e) /\ records' = [records EXCEPT ![id.index] = r]
      /\ UNCHANGED <<npc, cancel, statusQueue, gpc, handled, stop, closed, replies, asked>>
  BY Zenon DEF newOrder, network, gateway, flags
<1>a. orders' \in Seq([client : Client, ticker : Ticker, price : Price]) /\ NewId \in 1 .. MAX_ORDERS
  BY <1>1, ArrivesFacts, Zenon
<1>2. orders' \in Seq([client : Client, ticker : Ticker, price : Price]) /\ NewId \in Nat
  BY <1>a, GatewayAssumption
<1>3. e \in Event /\ r \in RecordOf /\ e.ticker = t
  BY Zenon, <1>2, GatewayAssumption DEF Event, RecordOf
<1>4. id.index \in Index
  BY Zenon DEF Id
<1> HIDE DEF e, r
<1>5. records' \in [Index -> RecordOf] /\ records'[id.index] = r
      /\ \A i \in Index : i # id.index => records'[i] = records[i]
  BY Zenon, <1>1, <1>3, <1>4 DEF TypeOK, RecordOf
<1>6. /\ pool' \in [Id -> Nat] /\ pool[id] \in Nat /\ pool[id] > 0 /\ pool'[id] = pool[id] - 1
      /\ \A x \in Id : x # id => pool'[x] = pool[x]
  BY <1>1 DEF TypeOK, Acquire
<1>7. /\ workerQueue' \in [Worker -> Seq(Event)] /\ error' \in BOOLEAN
      /\ \A w \in Worker : \A k \in 1 .. Len(workerQueue'[w]) :
           \/ k \in 1 .. Len(workerQueue[w]) /\ workerQueue'[w][k] = workerQueue[w][k]
           \/ k = Len(workerQueue[w]) + 1 /\ workerQueue'[w][k] = e /\ w = workerOf[t]
  BY <1>1, <1>3, RouteFacts
<1>8. TypeOK'
  BY <1>1, <1>2, <1>5, <1>6, <1>7, Zenon DEF TypeOK, RecordOf
<1> QED
  BY Zenon, <1>5, <1>6, <1>7, <1>8 DEF e, r, NewEffect

\* Two records that differ at most in their state and book id.
SameOrder(r, q) ==
    /\ r.systemOId = q.systemOId /\ r.externalOId = q.externalOId
    /\ r.clientId = q.clientId /\ r.ticker = q.ticker

\* The first write of the gateway thread closes the record or links it.
LEMMA UpdateFacts ==
    ASSUME IInv, GatewayUpdate
    PROVE  LET i == handled.id.index
           IN  /\ handled \in StatusOf /\ handled.id \in Id /\ i \in Index
               /\ records' \in [Index -> RecordOf]
               /\ \A j \in Index : j # i => records'[j] = records[j]
               /\ SameOrder(records'[i], records[i])
               /\ handled.state \in Closing => records'[i].state = "Closed"
               /\ handled.state \notin Closing =>
                    records'[i].state = records[i].state /\ records'[i].bookOId = handled.bookOId
<1> DEFINE i == handled.id.index
<1>1. handled \in StatusOf /\ handled.id \in Id /\ i \in Index 
  BY Zenon DEF GatewayUpdate, IInv, MessageInv, StatusOf, Id
<1>a. handled.bookOId \in Nat
  BY Zenon, <1>1 DEF StatusOf
<1>2. records \in [Index -> RecordOf] /\ "Closed" \in {"New", "Accepted", "Closed"} /\ records[i] \in RecordOf
  BY Zenon, <1>1 DEF IInv, TypeOK, RecordOf
<1>3. CASE handled.state \in Closing
  <2>1. records' = [records EXCEPT ![i].state = "Closed"]
    BY <1>3, Zenon DEF GatewayUpdate, Updated
  <2> HIDE DEF i
  <2>2. /\ records' \in [Index -> RecordOf] /\ records'[i] = [records[i] EXCEPT !.state = "Closed"]
        /\ \A j \in Index : j # i => records'[j] = records[j]
    BY <1>1, <1>2, <2>1, StateWritten, Zenon
  <2>3. SameOrder(records'[i], records[i]) /\ records'[i].state = "Closed"
    BY Zenon, <1>2, <2>2 DEF RecordOf, SameOrder
  <2> QED
    BY <1>1, <1>3, <2>2, <2>3, Zenon DEF i
<1>4. CASE handled.state \notin Closing
  <2>1. records' = [records EXCEPT ![i].bookOId = handled.bookOId]
    BY <1>4, Zenon DEF GatewayUpdate, Updated
  <2> HIDE DEF i
  <2>2. /\ records' \in [Index -> RecordOf]
        /\ records'[i] = [records[i] EXCEPT !.bookOId = handled.bookOId]
        /\ \A j \in Index : j # i => records'[j] = records[j]
    BY <1>1, <1>a, <1>2, <2>1, BookIdWritten, Zenon
  <2>3. /\ SameOrder(records'[i], records[i]) /\ records'[i].state = records[i].state
        /\ records'[i].bookOId = handled.bookOId
    BY Zenon, <1>2, <2>2 DEF RecordOf, SameOrder
  <2> QED
    BY <1>1, <1>4, <2>2, <2>3, Zenon DEF i
<1> QED
  BY Zenon, <1>3, <1>4

\* The second releases the id of the closed record or accepts the order.
LEMMA FinishFacts ==
    ASSUME IInv, GatewayFinish
    PROVE  LET i == handled.id.index
               id == NextGen(handled.id)
           IN  /\ handled \in StatusOf /\ handled.id \in Id /\ i \in Index
               /\ id \in Id /\ id.index = i
               /\ records' \in [Index -> RecordOf] /\ pool' \in [Id -> Nat]
               /\ \A j \in Index : j # i => records'[j] = records[j]
               /\ handled.state \in Closing =>
                    /\ records' = records /\ pool'[id] = pool[id] + 1
                    /\ \A x \in Id : x # id => pool'[x] = pool[x]
               /\ handled.state \notin Closing =>
                    /\ pool' = pool /\ SameOrder(records'[i], records[i])
                    /\ records'[i].state = "Accepted" /\ records'[i].bookOId = records[i].bookOId
<1> DEFINE i == handled.id.index
           id == NextGen(handled.id)
<1>1. /\ handled \in StatusOf /\ handled.id \in Id /\ i \in Index
      /\ records[i].systemOId = handled.id
  BY Zenon DEF GatewayFinish, IInv, MessageInv, FinishOK, StatusOf, Id
<1>2. /\ records \in [Index -> RecordOf] /\ "Accepted" \in {"New", "Accepted", "Closed"}
      /\ records[i] \in RecordOf /\ 0 \in Nat
  BY Zenon, <1>1 DEF IInv, TypeOK, RecordOf
<1>3. pool \in [Id -> Nat]
  BY Zenon DEF IInv, TypeOK
<1>4. id \in Id /\ id.index = i
  BY Zenon, <1>1, IdFacts
<1>5. CASE handled.state \in Closing
  <2>1. records' = records /\ pool' = [pool EXCEPT ![id] = pool[id] + 1]
    BY <1>1, <1>5, Zenon DEF GatewayFinish, Release
  <2> HIDE DEF id, i
  <2>2. /\ pool' \in [Id -> Nat] /\ pool'[id] = pool[id] + 1
        /\ \A x \in Id : x # id => pool'[x] = pool[x]
    BY <1>3, <1>4, <2>1
  <2> QED
    BY <1>1, <1>2, <1>4, <1>5, <2>1, <2>2, Zenon DEF id, i
<1>6. CASE handled.state \notin Closing
  <2>1. records' = [records EXCEPT ![i].state = "Accepted"] /\ pool' = pool
    BY <1>6, Zenon DEF GatewayFinish
  <2>2. /\ records' \in [Index -> RecordOf]
        /\ records'[i] = [records[i] EXCEPT !.state = "Accepted"]
        /\ \A j \in Index : j # i => records'[j] = records[j]
    BY <1>1, <1>2, <2>1, StateWritten, Zenon
  <2> HIDE DEF i
  <2>3. /\ SameOrder(records'[i], records[i]) /\ records'[i].state = "Accepted"
        /\ records'[i].bookOId = records[i].bookOId
    BY Zenon, <1>2, <2>2 DEF RecordOf, SameOrder
  <2> QED
    BY <1>1, <1>3, <1>4, <1>6, <2>1, <2>2, <2>3, Zenon DEF id, i
<1> QED
  BY Zenon, <1>5, <1>6

\* The variables keep their types in every step.
LEMMA TypeKept == IInv /\ [Next]_vars => TypeOK'
<1> SUFFICES ASSUME IInv, [Next]_vars PROVE TypeOK'
  BY Zenon
<1>t. TypeOK
  BY Zenon DEF IInv
<1> USE DEF network, queues, gateway, flags, history
<1>1. ASSUME NEW c \in Client, NEW t \in Ticker, NEW p \in Price, RejectNew(c, t, p) PROVE TypeOK'
  <2>1. Arrives(c, t, p) /\ Reply(NewId, c, InvalidId, "Rejected", NewId)
    BY Zenon, <1>1 DEF RejectNew
  <2>a. orders' \in Seq([client : Client, ticker : Ticker, price : Price]) /\ NewId \in 1 .. MAX_ORDERS
    BY <1>t, <2>1, ArrivesFacts, Zenon
  <2>2. NewId \in Nat
    BY <2>a, GatewayAssumption
  <2>3. replies' \in [1 .. MAX_ORDERS -> Seq(ReplyOf)]
    BY Zenon, <1>t, <2>1, <2>a, <2>2, ReplyFacts DEF Closing
  <2> QED
    BY <1>t, <1>1, <2>a, <2>3, Zenon DEF RejectNew, TypeOK
<1>2. ASSUME NEW c \in Client, NEW t \in Ticker, NEW p \in Price, NEW id \in Id, newOrder(c, t, p, id)
      PROVE  TypeOK'
  BY Zenon, <1>t, <1>2, NewFacts
<1>3. ASSUME NEW c \in Client, NEW id \in Id, NEW t \in Ticker, CancelCheck(c, id, t) PROVE TypeOK'
  <2>1. [id |-> id, ticker |-> t] \in [id : Id \cup {InvalidId}, ticker : Ticker \cup {NoTicker}]
    BY Zenon
  <2> QED
    BY <1>t, <1>3, <2>1, Zenon DEF CancelCheck, TypeOK
<1>4. CASE CancelPost
  <2> DEFINE r == records[cancel.id.index]
             e == [about |-> r.externalOId, id |-> cancel.id, bookOId |-> r.bookOId,
                   ticker |-> cancel.ticker, price |-> 1, action |-> "Cancel"]
  <2>1. cancel.id \in Id /\ cancel.ticker \in Ticker /\ cancel.id.index \in Index
    BY Zenon, <1>4 DEF CancelPost, IInv, MessageInv, CancelOK, Id
  <2>2. r.externalOId \in Nat /\ r.bookOId \in Nat
    BY Zenon, <1>t, <2>1 DEF TypeOK
  <2>3. e \in Event /\ Route(e)
    BY Zenon, <1>4, <2>1, <2>2 DEF Event, CancelPost
  <2> HIDE DEF e
  <2>4. workerQueue' \in [Worker -> Seq(Event)] /\ error' \in BOOLEAN
    BY Zenon, <1>t, <2>3, RouteFacts
  <2>5. asked' \subseteq Nat
    BY Zenon, <1>t, <1>4, <2>2 DEF CancelPost, TypeOK
  <2>6. NoCancel \in [id : Id \cup {InvalidId}, ticker : Ticker \cup {NoTicker}]
    BY Zenon DEF NoCancel
  <2> QED
    BY <1>t, <1>4, <2>4, <2>5, <2>6, Zenon DEF CancelPost, TypeOK
<1>5. ASSUME NEW w \in Worker, Match(w) PROVE TypeOK'
  <2> DEFINE e == Head(workerQueue[w])
  <2>1. Takes(w, "New")
    BY Zenon, <1>5 DEF Match
  <2>2. workerQueue' \in [Worker -> Seq(Event)] /\ e \in Event /\ e.about \in Nat
    BY Zenon, <1>t, <2>1, TakesFacts DEF Event
  <2>3. statusQueue' \in Seq(StatusOf) /\ error' \in BOOLEAN
    <3>1. CASE UNCHANGED <<statusQueue, error>>
      BY <1>t, <3>1, Zenon DEF TypeOK
    <3>2. CASE error' = TRUE /\ UNCHANGED statusQueue
      BY <1>t, <3>2, Zenon DEF TypeOK
    <3>3. ASSUME NEW b \in Nat, NEW state \in {"Full", "Accepted", "Partial"}, PostStatus(e, b, state)
          PROVE  statusQueue' \in Seq(StatusOf) /\ error' \in BOOLEAN
      <4>1. state \in Closing \cup {"Accepted", "Partial"}
        BY Zenon DEF Closing
      <4> QED
        BY Zenon, <1>t, <2>2, <3>3, <4>1, PostFacts
    <3> QED
      BY Zenon, <1>5, <2>2, <3>1, <3>2, <3>3 DEF Match
  <2> QED
    BY <1>t, <2>1, <2>2, <2>3, Zenon DEF Takes, TypeOK
<1>6. ASSUME NEW w \in Worker, Cancel(w) PROVE TypeOK'
  <2> DEFINE e == Head(workerQueue[w])
  <2>1. Takes(w, "Cancel")
    BY Zenon, <1>6 DEF Cancel
  <2>2. workerQueue' \in [Worker -> Seq(Event)] /\ e \in Event /\ e.bookOId \in Nat
    BY Zenon, <1>t, <2>1, TakesFacts DEF Event
  <2>3. PICK state \in {"Cancelled", "Rejected"} : PostStatus(e, e.bookOId, state)
    BY Zenon, <1>6 DEF Cancel
  <2>4. state \in Closing \cup {"Accepted", "Partial"}
    BY Zenon DEF Closing
  <2>5. statusQueue' \in Seq(StatusOf) /\ error' \in BOOLEAN
    BY Zenon, <1>t, <2>2, <2>3, <2>4, PostFacts
  <2> QED
    BY <1>t, <2>1, <2>2, <2>5, Zenon DEF Takes, TypeOK
<1>7. CASE GatewayReply
  <2> DEFINE s == Head(statusQueue)
             r == records[s.id.index]
  <2>1. statusQueue \in Seq(StatusOf) /\ statusQueue # <<>>
    BY Zenon, <1>t, <1>7 DEF TypeOK, GatewayReply
  <2>2. s \in StatusOf /\ Tail(statusQueue) \in Seq(StatusOf) /\ s = statusQueue[1]
        /\ 1 \in 1 .. Len(statusQueue)
    BY Zenon, <2>1, TailFacts
  <2>3. s.id \in Id /\ s.id.index \in Index /\ s.state \in Closing \cup {"Accepted", "Partial"}
        /\ s.about \in Nat
    BY Zenon, <2>2 DEF StatusOf, Id
  <2>4. OwnRecord(s)
    BY Zenon, <2>2 DEF IInv, MessageInv, StatusOK
  <2>5. r.systemOId = s.id /\ InUse(s.id.index)
    BY Zenon, <2>3, <2>4, IdFacts DEF OwnRecord, InUse
  <2>6. r.externalOId \in 1 .. Len(orders) /\ Len(orders) \in Nat
    BY <1>t, <2>3, <2>5 DEF IInv, RecordInv, RecordOK, TypeOK
  <2>7. r.externalOId \in 1 .. MAX_ORDERS
    BY <2>6, GatewayAssumption DEF IInv, RepliesInv
  <2>8. r.clientId \in Client \cup {NoClient} /\ r.systemOId \in Id \cup {InvalidId}
    BY Zenon, <1>t, <2>3 DEF TypeOK
  <2>9. Reply(r.externalOId, r.clientId, r.systemOId, s.state, s.about)
    BY Zenon, <1>7 DEF GatewayReply
  <2>10. replies' \in [1 .. MAX_ORDERS -> Seq(ReplyOf)]
    BY Zenon, <1>t, <2>3, <2>7, <2>8, <2>9, ReplyFacts
  <2> QED
    BY <1>t, <1>7, <2>2, <2>10, Zenon DEF GatewayReply, TypeOK
<1>8. CASE GatewayUpdate
  <2>1. records' \in [Index -> RecordOf]
    BY <1>8, UpdateFacts, Zenon
  <2> QED
    BY <1>t, <1>8, <2>1, Zenon DEF GatewayUpdate, TypeOK, RecordOf
<1>9. CASE GatewayFinish
  <2>1. records' \in [Index -> RecordOf] /\ pool' \in [Id -> Nat]
    BY <1>9, FinishFacts, Zenon
  <2> QED
    BY <1>t, <1>9, <2>1, Zenon DEF GatewayFinish, TypeOK, RecordOf
<1>10. CASE RequestStop \/ CloseGateway
  BY <1>t, <1>10, Zenon DEF RequestStop, CloseGateway, TypeOK
<1>11. CASE UNCHANGED vars
  BY <1>t, <1>11, Zenon DEF vars, TypeOK
<1> QED
  BY Zenon, <1>1, <1>2, <1>3, <1>4, <1>5, <1>6, <1>7, <1>8, <1>9, <1>10, <1>11
     DEF Next, NetworkNext, ServerNext

\* What is in flight, other than a status whose record is closed already,
\* concerns a record in use.
LEMMA InFlightInUse ==
    ASSUME IInv, NEW i \in Index
    PROVE  /\ InWorker(i) \/ InStatus(i) \/ InNetwork(i) => InUse(i)
           /\ InGateway(i) => InUse(i) \/ Freeing(i)
           /\ Free(i) => ~InWorker(i) /\ ~InStatus(i) /\ ~InNetwork(i) /\ ~InGateway(i)
<1>1. ASSUME NEW m, m.id \in Id, m.id.index = i, OwnRecord(m) PROVE InUse(i)
  BY Zenon, <1>1, IdFacts DEF OwnRecord, InUse
<1>2. ASSUME InWorker(i) PROVE InUse(i)
  <2>a. PICK w \in Worker : \E k \in 1 .. Len(workerQueue[w]) : workerQueue[w][k].id.index = i
    BY Zenon, <1>2 DEF InWorker
  <2>1. PICK k \in 1 .. Len(workerQueue[w]) : workerQueue[w][k].id.index = i
    BY Zenon, <2>a
  <2>2. workerQueue[w][k] \in Event /\ OwnRecord(workerQueue[w][k])
    BY DEF IInv, TypeOK, MessageInv, EventOK
  <2> QED
    BY Zenon, <1>1, <2>1, <2>2 DEF Event
<1>3. ASSUME InStatus(i) PROVE InUse(i)
  <2>1. PICK k \in 1 .. Len(statusQueue) : statusQueue[k].id.index = i
    BY Zenon, <1>3 DEF InStatus
  <2>2. statusQueue[k] \in StatusOf /\ OwnRecord(statusQueue[k])
    BY DEF IInv, TypeOK, MessageInv, StatusOK
  <2> QED
    BY Zenon, <1>1, <2>1, <2>2 DEF StatusOf
<1>4. ASSUME InNetwork(i) PROVE InUse(i)
  BY Zenon, <1>4, IdFacts DEF InNetwork, IInv, MessageInv, CancelOK, InUse
<1>5. ASSUME InGateway(i) PROVE InUse(i) \/ Freeing(i)
  <2>1. handled \in StatusOf /\ handled.id \in Id /\ handled.id.index = i
    BY Zenon, <1>5 DEF InGateway, IInv, MessageInv, StatusOf
  <2>2. CASE gpc = "update"
    BY Zenon, <1>1, <2>1, <2>2 DEF IInv, MessageInv, StatusOK
  <2>3. CASE gpc = "finish"
    BY Zenon, <2>1, <2>3, IdFacts DEF IInv, MessageInv, FinishOK, InUse, Freeing
  <2> QED
    BY Zenon, <1>5, <2>2, <2>3 DEF InGateway, IInv, TypeOK
<1> QED
  BY Zenon, <1>2, <1>3, <1>4, <1>5 DEF IInv, IdsConserved

Rest ==
    /\ IdsConserved /\ MessageInv /\ QueuesDistinct /\ OneCarrier /\ RecordInv
    /\ RepliesInv /\ StatusToOwner /\ Lifecycle

\* A step that leaves the records, the pool and everything in flight alone.
LEMMA FlowFrame ==
    ASSUME IInv,
           UNCHANGED <<records, pool, npc, cancel, workerQueue, statusQueue, gpc, handled, asked>>
    PROVE  /\ IdsConserved' /\ MessageInv' /\ QueuesDistinct' /\ OneCarrier'
           /\ \A j \in Index : /\ InWorker(j)' <=> InWorker(j)
                               /\ InStatus(j)' <=> InStatus(j)
                               /\ InGateway(j)' <=> InGateway(j)
                               /\ InUse(j)' <=> InUse(j)
<1>1. \A j \in Index : /\ InWorker(j)' <=> InWorker(j)
                       /\ InStatus(j)' <=> InStatus(j)
                       /\ InNetwork(j)' <=> InNetwork(j)
                       /\ InGateway(j)' <=> InGateway(j)
  BY Zenon DEF InWorker, InStatus, InNetwork, InGateway
<1>2. \A j \in Index : /\ Freeing(j)' <=> Freeing(j)
                       /\ Free(j)' <=> Free(j)
                       /\ InUse(j)' <=> InUse(j)
  BY Zenon DEF Freeing, Free, InUse
<1>3. IdsConserved'
  BY Zenon, <1>2 DEF IInv, IdsConserved
<1>4. MessageInv'
  <2>1. \A w \in Worker : \A k \in 1 .. Len(workerQueue[w]) : EventOK(workerQueue[w][k])'
    BY Zenon DEF IInv, MessageInv, EventOK, OwnRecord
  <2>2. \A k \in 1 .. Len(statusQueue) : StatusOK(statusQueue[k])'
    BY Zenon DEF IInv, MessageInv, StatusOK, OwnRecord
  <2>3. (gpc = "update" => StatusOK(handled))'
    BY Zenon DEF IInv, MessageInv, StatusOK, OwnRecord
  <2>4. (gpc = "finish" => FinishOK)' /\ (npc = "cancel" => CancelOK)'
    BY Zenon DEF IInv, MessageInv, FinishOK, CancelOK
  <2> QED
    BY <2>1, <2>2, <2>3, <2>4, Zenon DEF IInv, MessageInv
<1>5. QueuesDistinct'
  BY DEF IInv, QueuesDistinct
<1>6. OneCarrier'
  BY <1>1, Zenon DEF IInv, OneCarrier
<1> QED
  BY <1>1, <1>2, <1>3, <1>4, <1>5, <1>6, Zenon

\* The id of a new order is used for the first time.
LEMMA NewIdFresh ==
    ASSUME RecordInv, RepliesInv, Len(orders) \in Nat, NewId = Len(orders) + 1, NewId \in 1 .. MAX_ORDERS
    PROVE  NewId \notin asked /\ replies[NewId] = <<>>
<1>1. NewId \notin asked
  BY DEF RecordInv
<1>2. NewId > Len(orders)
  OBVIOUS
<1> QED
  BY Zenon, <1>1, <1>2 DEF RepliesInv

\* The record of a new order is that of its client.
LEMMA NewRecordOK ==
    ASSUME NEW c \in Client, NEW t, NEW p, NEW id \in Id, NewEffect(c, t, p, id), asked' = asked,
           NewId \in 1 .. Len(orders'), orders'[NewId].client = c, NewId \notin asked
    PROVE  /\ RecordOK(id.index)'
           /\ records'[id.index].externalOId = NewId /\ records'[id.index].state = "New"
<1>1. /\ records'[id.index].externalOId = NewId /\ records'[id.index].state = "New"
      /\ records'[id.index].systemOId = id /\ records'[id.index].clientId = c
  BY DEF NewEffect
<1> QED
  BY Zenon, <1>1 DEF RecordOK

\* Only the new event names the record of a new order.
LEMMA NewEventAlone ==
    ASSUME NEW c, NEW t, NEW p, NEW id, NewEffect(c, t, p, id), ~InWorker(id.index),
           NEW x \in Worker, NEW y \in 1 .. Len(workerQueue'[x])
    PROVE  \/ /\ y \in 1 .. Len(workerQueue[x]) /\ workerQueue'[x][y] = workerQueue[x][y]
              /\ workerQueue'[x][y].id.index # id.index
           \/ /\ y = Len(workerQueue[x]) + 1 /\ x = workerOf[t]
              /\ workerQueue'[x][y].id.index = id.index
  BY DEF NewEffect, InWorker

\* A new order takes a free record, which nothing in flight concerns.
LEMMA NewKeeps ==
    ASSUME IInv, NEW c \in Client, NEW t \in Ticker, NEW p \in Price, NEW id \in Id,
           newOrder(c, t, p, id)
    PROVE  Rest'
<1> DEFINE i == id.index
<1>1. TypeOK /\ i \in Index /\ Free(i)
  <2>1. pool[id] > 0
    BY Zenon DEF newOrder, Acquire
  <2> QED
    BY Zenon, <2>1 DEF IInv, Id, Free
<1>2. ~InWorker(i) /\ ~InStatus(i) /\ ~InNetwork(i) /\ ~InGateway(i) /\ ~InUse(i) /\ ~Freeing(i)
  BY Zenon, <1>1, InFlightInUse DEF IInv, IdsConserved
<1>e. NewEffect(c, t, p, id)
  BY Zenon, <1>1, NewFacts
<1>3. /\ records'[i] = [externalOId |-> NewId, systemOId |-> id, bookOId |-> 0,
                        ticker |-> t, clientId |-> c, state |-> "New"]
      /\ \A j \in Index : j # i => records'[j] = records[j]
  BY Zenon, <1>e DEF NewEffect
<1>4. /\ pool[id] \in Nat /\ pool[id] > 0 /\ pool'[id] = pool[id] - 1
      /\ \A x \in Id : x # id => pool'[x] = pool[x]
  BY Zenon, <1>e DEF NewEffect
<1>5. \A w \in Worker : \A k \in 1 .. Len(workerQueue'[w]) :
         \/ k \in 1 .. Len(workerQueue[w]) /\ workerQueue'[w][k] = workerQueue[w][k]
         \/ /\ k = Len(workerQueue[w]) + 1 /\ w = workerOf[t]
            /\ workerQueue'[w][k] = [about |-> NewId, id |-> id, bookOId |-> 0,
                                     ticker |-> t, price |-> p, action |-> "New"]
  BY Zenon, <1>e DEF NewEffect
<1>6. UNCHANGED <<npc, cancel, statusQueue, gpc, handled, stop, closed, replies, asked>>
  BY Zenon DEF newOrder, network, gateway, flags
<1>7. /\ Len(orders) \in Nat /\ Len(orders') = NewId /\ NewId = Len(orders) + 1
      /\ NewId \in 1 .. MAX_ORDERS /\ \A n \in 1 .. Len(orders) : orders'[n] = orders[n]
      /\ orders'[NewId].client = c
  BY Zenon, <1>1, ArrivesFacts DEF newOrder
<1>f. /\ NewId \notin asked /\ replies[NewId] = <<>> /\ RecordOK(i)'
      /\ records'[i].externalOId = NewId /\ records'[i].state = "New" /\ replies' = replies
  <2>1. NewId \notin asked /\ replies[NewId] = <<>>
    BY <1>7, NewIdFresh, Zenon DEF IInv
  <2>2. NewId \in 1 .. Len(orders')
    BY <1>7
  <2> QED
    BY <1>e, <1>6, <1>7, <2>1, <2>2, NewRecordOK, Zenon
<1> HIDE DEF i
<1>8. InUse(i)' /\ \A j \in Index : j # i => (InUse(j)' <=> InUse(j))
  BY <1>1, <1>3, IdFacts DEF InUse, i
<1>9. \A j \in Index : InWorker(j)' => InWorker(j) \/ j = i
  BY SMTT(30), <1>5 DEF InWorker, i
<1>10. \A j \in Index : /\ InStatus(j)' <=> InStatus(j)
                        /\ InNetwork(j)' <=> InNetwork(j)
                        /\ InGateway(j)' <=> InGateway(j)
                        /\ Freeing(j)' <=> Freeing(j)
  BY Zenon, <1>6 DEF InStatus, InNetwork, InGateway, Freeing
<1>11. IdsConserved'
  <2>1. \A x \in Id : pool[x] \in Nat
    BY Zenon, <1>1 DEF TypeOK
  <2>2. pool'[id] = 0 /\ \A x \in Id : pool'[x] <= 1
    BY <1>4, <2>1 DEF IInv, IdsConserved
  <2>3. \A x, y \in Id : x.index = y.index /\ pool'[x] > 0 /\ pool'[y] > 0 => x = y
    BY Zenon, <1>4, <2>2 DEF IInv, IdsConserved
  <2>4. ~Free(i)'
    BY <1>4, <2>2 DEF Free, IInv, IdsConserved, i
  <2>5. \A j \in Index : j # i => (Free(j)' <=> Free(j))
    BY Zenon, <1>4 DEF Free, i
  <2> QED
    BY Zenon, <1>2, <1>8, <1>10, <2>2, <2>3, <2>4, <2>5 DEF IInv, IdsConserved
<1>12. MessageInv'
  <2>1. ASSUME NEW w \in Worker, NEW k \in 1 .. Len(workerQueue'[w])
        PROVE  EventOK(workerQueue[w][k])'
    <3>1. CASE k \in 1 .. Len(workerQueue[w]) /\ workerQueue'[w][k] = workerQueue[w][k]
      <4>1. workerQueue[w][k] \in Event /\ EventOK(workerQueue[w][k])
        BY SMTT(30), <1>1, <3>1 DEF TypeOK, IInv, MessageInv
      <4>2. workerQueue[w][k].id.index \in Index /\ workerQueue[w][k].id.index # i
        BY Zenon, <1>2, <3>1, <4>1 DEF InWorker, Event, Id
      <4> QED
        BY Zenon, <1>3, <1>6, <3>1, <4>1, <4>2 DEF EventOK, OwnRecord
    <3>2. CASE workerQueue'[w][k] = [about |-> NewId, id |-> id, bookOId |-> 0,
                                     ticker |-> t, price |-> p, action |-> "New"]
      BY SMTT(30), <1>3, <3>2 DEF EventOK, OwnRecord, i
    <3> QED
      BY Zenon, <1>5, <3>1, <3>2
  <2>2. ASSUME NEW k \in 1 .. Len(statusQueue) PROVE StatusOK(statusQueue[k])'
    <3>1. statusQueue[k] \in StatusOf /\ StatusOK(statusQueue[k])
      BY <1>1 DEF TypeOK, IInv, MessageInv
    <3>2. statusQueue[k].id.index \in Index /\ statusQueue[k].id.index # i
      BY Zenon, <1>2, <3>1 DEF InStatus, StatusOf, Id
    <3> QED
      BY Zenon, <1>3, <1>6, <3>1, <3>2 DEF StatusOK, OwnRecord
  <2>3. ASSUME gpc # "idle"
        PROVE  handled \in StatusOf /\ records'[handled.id.index] = records[handled.id.index]
    <3>1. handled \in StatusOf
      BY Zenon, <2>3 DEF IInv, MessageInv
    <3>2. handled.id.index \in Index /\ handled.id.index # i
      BY Zenon, <1>2, <2>3, <3>1 DEF InGateway, StatusOf, Id
    <3> QED
      BY Zenon, <1>3, <3>1, <3>2
  <2>4. (gpc = "update" => StatusOK(handled))' /\ (gpc = "finish" => FinishOK)'
    BY Zenon, <1>6, <2>3 DEF IInv, MessageInv, StatusOK, OwnRecord, FinishOK
  <2>5. (npc = "cancel" => CancelOK)'
    <3>1. ASSUME npc = "cancel" PROVE cancel.id.index \in Index /\ cancel.id.index # i
      BY Zenon, <1>2, <3>1 DEF IInv, MessageInv, CancelOK, InNetwork, Id
    <3> QED
      BY Zenon, <1>3, <1>6, <3>1 DEF IInv, MessageInv, CancelOK
  <2> QED
    BY Zenon, <1>6, <2>1, <2>2, <2>3, <2>4, <2>5 DEF MessageInv
<1>13. QueuesDistinct' /\ OneCarrier'
  <2>1. ASSUME NEW v \in Worker, NEW w \in Worker,
               NEW k \in 1 .. Len(workerQueue'[v]), NEW l \in 1 .. Len(workerQueue'[w]),
               workerQueue'[v][k].id.index = workerQueue'[w][l].id.index
        PROVE  v = w /\ k = l
    <3>1. ASSUME NEW x \in Worker, NEW y \in 1 .. Len(workerQueue'[x])
          PROVE  \/ /\ y \in 1 .. Len(workerQueue[x]) /\ workerQueue'[x][y] = workerQueue[x][y]
                    /\ workerQueue'[x][y].id.index # i
                 \/ /\ y = Len(workerQueue[x]) + 1 /\ x = workerOf[t]
                    /\ workerQueue'[x][y].id.index = i
      BY <1>2, <1>e, NewEventAlone DEF i
    <3>2. CASE workerQueue'[v][k].id.index = i
      BY Zenon, <2>1, <3>1, <3>2
    <3>3. CASE workerQueue'[v][k].id.index # i
      <4>1. /\ k \in 1 .. Len(workerQueue[v]) /\ workerQueue'[v][k] = workerQueue[v][k]
            /\ l \in 1 .. Len(workerQueue[w]) /\ workerQueue'[w][l] = workerQueue[w][l]
        BY Zenon, <2>1, <3>1, <3>3
      <4> QED
        BY <2>1, <4>1 DEF IInv, QueuesDistinct
    <3> QED
      BY Zenon, <3>2, <3>3
  <2>2. QueuesDistinct'
    BY <1>6, <2>1, Zenon DEF IInv, QueuesDistinct
  <2>3. OneCarrier'
    BY <1>2, <1>9, <1>10, Zenon DEF IInv, OneCarrier
  <2> QED
    BY Zenon, <2>2, <2>3
<1>14. RecordInv'
  <2>1. RecordOK(i)'
    BY <1>f, Zenon
  <2>2. ASSUME NEW j \in Index, j # i, InUse(j) PROVE RecordOK(j)' /\ records[j].externalOId # NewId
    <3>1. RecordOK(j) /\ records'[j] = records[j]
      BY Zenon, <1>3, <2>2 DEF IInv, RecordInv
    <3>2. records[j].externalOId \in 1 .. Len(orders) /\ records[j].externalOId # NewId
      BY <1>7, <3>1 DEF RecordOK
    <3> QED
      <4>1. /\ orders'[records[j].externalOId] = orders[records[j].externalOId]
            /\ records[j].externalOId \in 1 .. Len(orders')
        BY <1>7, <3>2
      <4> QED
        BY <1>6, <1>9, <1>10, <2>2, <3>1, <3>2, <4>1, Zenon DEF RecordOK
  <2>3. asked' \subseteq 1 .. Len(orders')
    <3>1. asked \subseteq 1 .. Len(orders)
      BY Zenon DEF IInv, RecordInv
    <3> QED
      BY <1>6, <1>7, <3>1
  <2> QED
    BY SMTT(30), <1>3, <1>8, <2>1, <2>2, <2>3 DEF IInv, RecordInv
<1>15. RepliesInv'
  <2>1. Len(orders') <= MAX_ORDERS /\ \A n \in 1 .. MAX_ORDERS : n > Len(orders') => replies'[n] = <<>>
    <3>1. replies' = replies /\ \A n \in 1 .. MAX_ORDERS : n > Len(orders) => replies[n] = <<>>
      BY <1>6, Zenon DEF IInv, RepliesInv
    <3>2. /\ Len(orders) \in Nat /\ Len(orders') = Len(orders) + 1
          /\ Len(orders') \in 1 .. MAX_ORDERS /\ MAX_ORDERS \in Nat
      BY Zenon, <1>7, GatewayAssumption
    <3>3. Len(orders') <= MAX_ORDERS /\ \A n \in 1 .. MAX_ORDERS : n > Len(orders') => n > Len(orders)
      BY <3>2
    <3> QED
      BY <3>1, <3>3, Zenon
  <2>2. ToldOK(i)'
    <3>1. replies[NewId] = <<>>
      BY <1>f, Zenon
    <3> QED
      <4>1. records'[i].externalOId = NewId /\ records'[i].state = "New" /\ replies' = replies
        BY <1>f, Zenon
      <4>2. ~InGateway(i)'
        BY Zenon, <1>1, <1>2, <1>10
      <4> QED
        BY Zenon, <3>1, <4>1, <4>2 DEF ToldOK
  <2>3. ASSUME NEW j \in Index, j # i, InUse(j) PROVE ToldOK(j)'
    BY Zenon, <1>3, <1>6, <1>10, <2>3 DEF IInv, RepliesInv, ToldOK
  <2> QED
    BY Zenon, <1>8, <2>1, <2>2, <2>3 DEF RepliesInv
<1>16. StatusToOwner' /\ Lifecycle'
  <2>1. ASSUME NEW n \in 1 .. MAX_ORDERS, NEW k \in 1 .. Len(replies[n])
        PROVE  orders'[n] = orders[n]
    <3>1. CASE n \in 1 .. Len(orders)
      BY Zenon, <1>7, <3>1
    <3>2. CASE n > Len(orders)
      BY <2>1, <3>2 DEF IInv, RepliesInv
    <3> QED
      BY <1>7, <3>1, <3>2, GatewayAssumption
  <2>2. StatusToOwner'
    BY <1>6, <2>1 DEF IInv, StatusToOwner
  <2>3. Lifecycle'
    BY Zenon, <1>6 DEF IInv, Lifecycle
  <2> QED
    BY Zenon, <2>2, <2>3
<1> QED
  BY Zenon, <1>11, <1>12, <1>13, <1>14, <1>15, <1>16 DEF Rest

\* A rejection is the only status of an order that has no record.
LEMMA RejectKeeps ==
    ASSUME IInv, NEW c \in Client, NEW t \in Ticker, NEW p \in Price, RejectNew(c, t, p)
    PROVE  Rest'
<1>1. /\ TypeOK /\ Arrives(c, t, p) /\ Reply(NewId, c, InvalidId, "Rejected", NewId)
      /\ UNCHANGED <<records, pool, npc, cancel, workerQueue, statusQueue, gpc, handled, asked>>
  BY Zenon DEF IInv, RejectNew, network, queues, gateway
<1>2. /\ Len(orders) \in Nat /\ Len(orders') = NewId /\ NewId = Len(orders) + 1
      /\ NewId \in 1 .. MAX_ORDERS /\ \A n \in 1 .. Len(orders) : orders'[n] = orders[n]
      /\ orders'[NewId].client = c
  BY Zenon, <1>1, ArrivesFacts
<1>b. /\ Len(orders) \in Nat /\ Len(orders') = Len(orders) + 1 /\ NewId = Len(orders) + 1
      /\ NewId \in 1 .. MAX_ORDERS /\ MAX_ORDERS \in Nat
  BY Zenon, <1>2, GatewayAssumption
<1>3. NewId \in Nat /\ "Rejected" \in Closing
  BY <1>2 DEF Closing
<1>a. ReplyEffect(NewId, c, InvalidId, "Rejected", NewId)
  BY Zenon, <1>1, <1>2, <1>3, ReplyFacts
<1>4. /\ \A x \in 1 .. MAX_ORDERS : x # NewId => replies'[x] = replies[x]
      /\ Len(replies'[NewId]) = Len(replies[NewId]) + 1
      /\ replies'[NewId][Len(replies[NewId]) + 1] =
            [client |-> c, id |-> InvalidId, state |-> "Rejected", about |-> NewId]
  BY Zenon, <1>a DEF ReplyEffect
<1>5. replies[NewId] = <<>>
  BY <1>2 DEF IInv, RepliesInv
<1>6. Len(replies'[NewId]) = 1 /\ replies'[NewId][1].client = c /\ replies'[NewId][1].about = NewId
  BY <1>4, <1>5
<1>7. /\ IdsConserved' /\ MessageInv' /\ QueuesDistinct' /\ OneCarrier'
      /\ \A j \in Index : /\ InWorker(j)' <=> InWorker(j)
                          /\ InStatus(j)' <=> InStatus(j)
                          /\ InGateway(j)' <=> InGateway(j)
                          /\ InUse(j)' <=> InUse(j)
  BY <1>1, FlowFrame, Zenon
<1>11. ASSUME NEW j \in Index, InUse(j)
       PROVE  RecordOK(j)' /\ records[j].externalOId \in 1 .. Len(orders)
  <2>1. RecordOK(j)
    BY Zenon, <1>11 DEF IInv, RecordInv
  <2>2. records[j].externalOId \in 1 .. Len(orders)
    BY Zenon, <2>1 DEF RecordOK
  <2>3. orders'[records[j].externalOId] = orders[records[j].externalOId]
    BY Zenon, <1>2, <2>2
  <2>4. records[j].externalOId \in 1 .. Len(orders')
    BY <1>b, <2>2
  <2>5. records' = records /\ asked' = asked
    BY Zenon, <1>1
  <2> QED
    BY <1>7, <2>1, <2>2, <2>3, <2>4, <2>5, Zenon DEF RecordOK
<1>12. RecordInv'
  <2>1. RecordInv /\ records' = records /\ asked' = asked
    BY Zenon, <1>1 DEF IInv
  <2>2. asked \subseteq 1 .. Len(orders)
    BY Zenon, <2>1 DEF RecordInv
  <2>3. asked' \subseteq 1 .. Len(orders')
    BY <1>2, <2>1, <2>2
  <2>4. \A j \in Index : InUse(j)' => RecordOK(j)'
    BY <1>7, <1>11, Zenon
  <2>5. \A j, k \in Index : InUse(j)' /\ InUse(k)' /\ records'[j].externalOId = records'[k].externalOId => j = k
    BY <1>7, <2>1, Zenon DEF RecordInv
  <2> QED
    BY <2>3, <2>4, <2>5, Zenon DEF RecordInv
<1>13. RepliesInv'
  <2>1. Len(orders') <= MAX_ORDERS /\ \A n \in 1 .. MAX_ORDERS : n > Len(orders') => replies'[n] = <<>>
    <3>1. \A n \in 1 .. MAX_ORDERS : n > Len(orders) => replies[n] = <<>>
      BY Zenon DEF IInv, RepliesInv
    <3>2. \A n \in 1 .. MAX_ORDERS : n > Len(orders') => n > Len(orders) /\ n # NewId
      BY <1>b
    <3>3. Len(orders') <= MAX_ORDERS
      BY <1>b
    <3> QED
      BY <1>4, <3>1, <3>2, <3>3, Zenon
  <2>2. ASSUME NEW j \in Index, InUse(j) PROVE ToldOK(j)'
    <3>1. replies'[records[j].externalOId] = replies[records[j].externalOId]
      <4>1. PICK n \in 1 .. Len(orders) : n = records[j].externalOId
        BY Zenon, <1>11, <2>2
      <4>2. n \in 1 .. MAX_ORDERS /\ n # NewId
        BY <1>b
      <4> QED
        BY <1>4, <4>1, <4>2, Zenon
    <3>2. ToldOK(j) /\ records' = records /\ handled' = handled /\ (InGateway(j)' <=> InGateway(j))
      BY <1>1, <1>7, <2>2, Zenon DEF IInv, RepliesInv
    <3> QED
      BY <3>1, <3>2, Zenon DEF ToldOK
  <2> QED
    BY Zenon, <1>7, <2>1, <2>2 DEF RepliesInv
<1>14. StatusToOwner'
  <2>1. ASSUME NEW n \in 1 .. MAX_ORDERS, n # NewId, NEW k \in 1 .. Len(replies[n])
        PROVE  orders'[n] = orders[n]
    <3>1. CASE n \in 1 .. Len(orders)
      BY Zenon, <1>2, <3>1
    <3>2. CASE n > Len(orders)
      BY <2>1, <3>2 DEF IInv, RepliesInv
    <3> QED
      BY SMTT(30), <1>2, <3>1, <3>2, GatewayAssumption
  <2> QED
    BY SMTT(30), <1>2, <1>4, <1>6, <2>1 DEF IInv, StatusToOwner
<1>15. Lifecycle'
  BY <1>4, <1>6 DEF IInv, Lifecycle
<1> QED
  BY Zenon, <1>7, <1>12, <1>13, <1>14, <1>15 DEF Rest

\* A cancel that passes the checks finds nothing else in flight for its record.
LEMMA CheckKeeps ==
    ASSUME IInv, NEW c \in Client, NEW t \in Ticker, NEW id \in Id,
           CancelOnce(id, t), CancelCheck(c, id, t)
    PROVE  Rest'
<1> DEFINE i == id.index
<1>1. /\ npc = "idle" /\ npc' = "cancel" /\ cancel' = [id |-> id, ticker |-> t] /\ MayCancel(c, id)
      /\ UNCHANGED <<records, pool, workerQueue, statusQueue, gpc, handled, orders, replies, asked>>
  BY Zenon DEF CancelCheck, queues, gateway, history
<1>2. i \in Index /\ InUse(i)
  BY Zenon, <1>1, IdFacts DEF MayCancel, InUse
<1>3. RecordOK(i) /\ records[i].state = "Accepted" /\ records[i].externalOId \notin asked
  BY Zenon, <1>1, <1>2 DEF IInv, RecordInv, MayCancel, CancelOnce
<1>4. ~InWorker(i) /\ ~InStatus(i) /\ ~InGateway(i)
  BY Zenon, <1>3 DEF RecordOK
<1>5. \A j \in Index : /\ InWorker(j)' <=> InWorker(j)
                       /\ InStatus(j)' <=> InStatus(j)
                       /\ InGateway(j)' <=> InGateway(j)
                       /\ Freeing(j)' <=> Freeing(j)
                       /\ Free(j)' <=> Free(j)
                       /\ InUse(j)' <=> InUse(j)
                       /\ InNetwork(j)' => j = i
  BY Zenon, <1>1 DEF InWorker, InStatus, InNetwork, InGateway, Freeing, Free, InUse
<1>6. IdsConserved'
  BY Zenon, <1>1, <1>5 DEF IInv, IdsConserved
<1>7. MessageInv'
  <2>1. CancelOK'
    BY <1>1, <1>3, Zenon DEF CancelOK, MayCancel
  <2> QED
    BY Zenon, <1>1, <2>1 DEF IInv, MessageInv, EventOK, StatusOK, FinishOK, OwnRecord
<1>8. QueuesDistinct' /\ OneCarrier'
  <2>1. QueuesDistinct'
    <3>1. QueuesDistinct /\ workerQueue' = workerQueue /\ statusQueue' = statusQueue
      BY Zenon, <1>1 DEF IInv
    <3> QED
      BY <3>1 DEF QueuesDistinct
  <2>2. OneCarrier'
    BY <1>4, <1>5, Zenon DEF IInv, OneCarrier
  <2> QED
    BY Zenon, <2>1, <2>2
<1>9. RecordInv'
  BY Zenon, <1>1, <1>5 DEF IInv, RecordInv, RecordOK
<1>10. RepliesInv' /\ StatusToOwner' /\ Lifecycle'
  BY Zenon, <1>1, <1>5 DEF IInv, RepliesInv, ToldOK, StatusToOwner, Lifecycle
<1> QED
  BY Zenon, <1>6, <1>7, <1>8, <1>9, <1>10 DEF Rest

\* The event of a cancel replaces its request.
LEMMA PostKeeps ==
    ASSUME IInv, CancelPost
    PROVE  Rest'
<1> DEFINE i == cancel.id.index
           n == records[i].externalOId
           e == [about |-> n, id |-> cancel.id, bookOId |-> records[i].bookOId,
                 ticker |-> cancel.ticker, price |-> 1, action |-> "Cancel"]
<1>1. /\ TypeOK /\ npc = "cancel" /\ npc' = "idle" /\ Route(e) /\ asked' = asked \cup {n}
      /\ UNCHANGED <<records, pool, statusQueue, gpc, handled, orders, replies>>
  BY Zenon DEF IInv, CancelPost, gateway
<1>2. /\ cancel.id \in Id /\ cancel.ticker \in Ticker /\ i \in Index
      /\ records[i].systemOId = cancel.id /\ records[i].state = "Accepted" /\ n \notin asked
  BY Zenon, <1>1 DEF IInv, MessageInv, CancelOK, Id
<1>3. InUse(i) /\ RecordOK(i) /\ InNetwork(i)
  BY Zenon, <1>1, <1>2, IdFacts DEF IInv, RecordInv, InUse, InNetwork
<1>4. n \in 1 .. Len(orders) /\ records[i].bookOId = n /\ n \in Nat
  BY <1>2, <1>3 DEF RecordOK
<1>5. e \in Event /\ e.id.index = i
  BY Zenon, <1>2, <1>4 DEF Event
<1>6. ~InWorker(i) /\ ~InStatus(i) /\ ~InGateway(i)
  BY Zenon, <1>2, <1>3 DEF RecordOK
<1> HIDE DEF e
<1>7. \A w \in Worker : \A k \in 1 .. Len(workerQueue'[w]) :
         \/ k \in 1 .. Len(workerQueue[w]) /\ workerQueue'[w][k] = workerQueue[w][k]
         \/ k = Len(workerQueue[w]) + 1 /\ workerQueue'[w][k] = e /\ w = workerOf[e.ticker]
  BY Zenon, <1>1, <1>5, RouteFacts
<1> HIDE DEF i
<1>8. \A j \in Index : /\ InStatus(j)' <=> InStatus(j)
                       /\ InGateway(j)' <=> InGateway(j)
                       /\ Freeing(j)' <=> Freeing(j)
                       /\ Free(j)' <=> Free(j)
                       /\ InUse(j)' <=> InUse(j)
                       /\ ~InNetwork(j)'
  BY Zenon, <1>1 DEF InStatus, InNetwork, InGateway, Freeing, Free, InUse
<1>9. \A j \in Index : InWorker(j)' => InWorker(j) \/ j = i
  BY Zenon, <1>5, <1>7 DEF InWorker
<1>10. IdsConserved'
  BY Zenon, <1>1, <1>8 DEF IInv, IdsConserved
<1>11. MessageInv'
  <2>1. ASSUME NEW w \in Worker, NEW k \in 1 .. Len(workerQueue'[w])
        PROVE  EventOK(workerQueue[w][k])'
    <3>1. CASE k \in 1 .. Len(workerQueue[w]) /\ workerQueue'[w][k] = workerQueue[w][k]
      <4>1. EventOK(workerQueue[w][k])
        BY Zenon, <3>1 DEF IInv, MessageInv
      <4> QED
        BY Zenon, <1>1, <3>1, <4>1 DEF EventOK, OwnRecord
    <3>2. CASE workerQueue'[w][k] = e
      BY <1>1, <1>2, <1>4, <3>2 DEF EventOK, OwnRecord, e, i
    <3> QED
      BY Zenon, <1>7, <3>1, <3>2
  <2>2. \A k \in 1 .. Len(statusQueue) : StatusOK(statusQueue[k])'
    BY Zenon, <1>1 DEF IInv, MessageInv, StatusOK, OwnRecord
  <2>3. (gpc = "update" => StatusOK(handled))' /\ (gpc = "finish" => FinishOK)'
    BY Zenon, <1>1 DEF IInv, MessageInv, StatusOK, FinishOK, OwnRecord
  <2> QED
    BY Zenon, <1>1, <2>1, <2>2, <2>3 DEF IInv, MessageInv
<1>12. QueuesDistinct' /\ OneCarrier'
  <2>1. ASSUME NEW v \in Worker, NEW w \in Worker,
               NEW k \in 1 .. Len(workerQueue'[v]), NEW l \in 1 .. Len(workerQueue'[w]),
               workerQueue'[v][k].id.index = workerQueue'[w][l].id.index
        PROVE  v = w /\ k = l
    <3>1. ASSUME NEW x \in Worker, NEW y \in 1 .. Len(workerQueue'[x])
          PROVE  \/ /\ y \in 1 .. Len(workerQueue[x]) /\ workerQueue'[x][y] = workerQueue[x][y]
                    /\ workerQueue'[x][y].id.index # i
                 \/ /\ y = Len(workerQueue[x]) + 1 /\ x = workerOf[e.ticker]
                    /\ workerQueue'[x][y].id.index = i
      BY <1>5, <1>6, <1>7 DEF InWorker
    <3>2. CASE workerQueue'[v][k].id.index = i
      BY Zenon, <2>1, <3>1, <3>2
    <3>3. CASE workerQueue'[v][k].id.index # i
      <4>1. /\ k \in 1 .. Len(workerQueue[v]) /\ workerQueue'[v][k] = workerQueue[v][k]
            /\ l \in 1 .. Len(workerQueue[w]) /\ workerQueue'[w][l] = workerQueue[w][l]
        BY Zenon, <2>1, <3>1, <3>3
      <4> QED
        BY <2>1, <4>1 DEF IInv, QueuesDistinct
    <3> QED
      BY Zenon, <3>2, <3>3
  <2>2. QueuesDistinct'
    BY Zenon, <1>1, <2>1 DEF IInv, QueuesDistinct
  <2>3. OneCarrier'
    BY <1>6, <1>8, <1>9, Zenon DEF IInv, OneCarrier
  <2> QED
    BY Zenon, <2>2, <2>3
<1>13. RecordInv'
  <2>1. asked' \subseteq 1 .. Len(orders')
    BY Zenon, <1>1, <1>4 DEF IInv, RecordInv
  <2>2. ASSUME NEW j \in Index, InUse(j) PROVE RecordOK(j)'
    <3>1. RecordOK(j) /\ (j # i => records[j].externalOId # n)
      BY Zenon, <1>2, <1>3, <2>2 DEF IInv, RecordInv
    <3>2. CASE j = i
      BY Zenon, <1>1, <1>2, <3>1, <3>2 DEF RecordOK
    <3>3. CASE j # i
      BY Zenon, <1>1, <1>8, <1>9, <3>1, <3>3 DEF RecordOK
    <3> QED
      BY Zenon, <3>2, <3>3
  <2> QED
    BY Zenon, <1>1, <1>8, <2>1, <2>2 DEF IInv, RecordInv
<1>14. RepliesInv' /\ StatusToOwner' /\ Lifecycle'
  BY Zenon, <1>1, <1>8 DEF IInv, RepliesInv, ToldOK, StatusToOwner, Lifecycle
<1> QED
  BY Zenon, <1>10, <1>11, <1>12, <1>13, <1>14 DEF Rest

\* A worker takes an event and posts nothing, or a status m about it.
LEMMA WorkerKeeps ==
    ASSUME IInv, NEW w \in Worker, NEW a, Takes(w, a), NEW m \in StatusOf,
           m.id = Head(workerQueue[w]).id, StatusOK(m),
           \A k \in 1 .. Len(statusQueue') :
              \/ k \in 1 .. Len(statusQueue) /\ statusQueue'[k] = statusQueue[k]
              \/ k = Len(statusQueue) + 1 /\ statusQueue'[k] = m
    PROVE  Rest'
<1> DEFINE i == m.id.index
<1>1. TypeOK /\ UNCHANGED <<records, pool, npc, cancel, gpc, handled, orders, replies, asked>>
  BY Zenon DEF IInv, Takes, network, gateway, history
<1>2. /\ 1 \in 1 .. Len(workerQueue[w]) /\ workerQueue[w][1].id.index = i
      /\ \A k \in 1 .. Len(workerQueue'[w]) :
           k + 1 \in 1 .. Len(workerQueue[w]) /\ workerQueue'[w][k] = workerQueue[w][k + 1]
      /\ \A v \in Worker : v # w => workerQueue'[v] = workerQueue[v]
  BY Zenon, <1>1, TakesFacts
<1>3. i \in Index /\ InWorker(i)
  BY Zenon, <1>2 DEF StatusOf, Id, InWorker
<1> HIDE DEF i
<1>4. ASSUME NEW v \in Worker, NEW k \in 1 .. Len(workerQueue'[v])
      PROVE  \E l \in 1 .. Len(workerQueue[v]) :
                /\ workerQueue'[v][k] = workerQueue[v][l]
                /\ l = IF v = w THEN k + 1 ELSE k
  BY Zenon, <1>2
<1>5. \A j \in Index : InWorker(j)' => InWorker(j)
  BY <1>4 DEF InWorker
<1>6. ~InWorker(i)'
  <2>1. ASSUME NEW v \in Worker, NEW k \in 1 .. Len(workerQueue'[v]), workerQueue'[v][k].id.index = i
        PROVE  FALSE
    <3>1. PICK l \in 1 .. Len(workerQueue[v]) :
             workerQueue'[v][k] = workerQueue[v][l] /\ l = IF v = w THEN k + 1 ELSE k
      BY Zenon, <1>4
    <3>2. v = w /\ l = 1
      BY <1>2, <2>1, <3>1 DEF IInv, QueuesDistinct
    <3> QED
      BY <3>1, <3>2
  <2> QED
    BY Zenon, <2>1 DEF InWorker
<1>7. ~InStatus(i) /\ ~InGateway(i) /\ ~InNetwork(i)
  BY Zenon, <1>3 DEF IInv, OneCarrier
<1>8. \A j \in Index : InStatus(j)' => InStatus(j) \/ j = i
  BY Zenon DEF InStatus, i
<1>9. \A j \in Index : /\ InNetwork(j)' <=> InNetwork(j)
                       /\ InGateway(j)' <=> InGateway(j)
                       /\ Freeing(j)' <=> Freeing(j)
                       /\ Free(j)' <=> Free(j)
                       /\ InUse(j)' <=> InUse(j)
  BY Zenon, <1>1 DEF InNetwork, InGateway, Freeing, Free, InUse
<1>10. IdsConserved'
  BY Zenon, <1>1, <1>9 DEF IInv, IdsConserved
<1>11. MessageInv'
  <2>1. ASSUME NEW v \in Worker, NEW k \in 1 .. Len(workerQueue'[v])
        PROVE  EventOK(workerQueue[v][k])'
    <3>1. PICK l \in 1 .. Len(workerQueue[v]) : workerQueue'[v][k] = workerQueue[v][l]
      BY Zenon, <1>4
    <3>2. EventOK(workerQueue[v][l])
      BY Zenon DEF IInv, MessageInv
    <3> QED
      BY Zenon, <1>1, <3>1, <3>2 DEF EventOK, OwnRecord
  <2>2. ASSUME NEW k \in 1 .. Len(statusQueue') PROVE StatusOK(statusQueue[k])'
    <3>1. CASE k \in 1 .. Len(statusQueue) /\ statusQueue'[k] = statusQueue[k]
      <4>1. StatusOK(statusQueue[k])
        BY Zenon, <3>1 DEF IInv, MessageInv
      <4> QED
        BY Zenon, <1>1, <3>1, <4>1 DEF StatusOK, OwnRecord
    <3>2. CASE statusQueue'[k] = m
      BY Zenon, <1>1, <3>2 DEF StatusOK, OwnRecord
    <3> QED
      BY Zenon, <3>1, <3>2
  <2>3. (gpc = "update" => StatusOK(handled))' /\ (gpc = "finish" => FinishOK)'
        /\ (npc = "cancel" => CancelOK)'
    BY Zenon, <1>1 DEF IInv, MessageInv, StatusOK, FinishOK, OwnRecord, CancelOK
  <2> QED
    BY Zenon, <1>1, <2>1, <2>2, <2>3 DEF IInv, MessageInv
<1>12. QueuesDistinct' /\ OneCarrier'
  <2>1. ASSUME NEW u \in Worker, NEW v \in Worker,
               NEW k \in 1 .. Len(workerQueue'[u]), NEW l \in 1 .. Len(workerQueue'[v]),
               workerQueue'[u][k].id.index = workerQueue'[v][l].id.index
        PROVE  u = v /\ k = l
    <3>1. PICK x \in 1 .. Len(workerQueue[u]) :
             workerQueue'[u][k] = workerQueue[u][x] /\ x = IF u = w THEN k + 1 ELSE k
      BY Zenon, <1>4
    <3>2. PICK y \in 1 .. Len(workerQueue[v]) :
             workerQueue'[v][l] = workerQueue[v][y] /\ y = IF v = w THEN l + 1 ELSE l
      BY Zenon, <1>4
    <3>3. u = v /\ x = y
      BY <2>1, <3>1, <3>2 DEF IInv, QueuesDistinct
    <3> QED
      BY <3>1, <3>2, <3>3
  <2>2. ASSUME NEW k \in 1 .. Len(statusQueue'), NEW l \in 1 .. Len(statusQueue'),
               statusQueue'[k].id.index = statusQueue'[l].id.index
        PROVE  k = l
    <3>1. ASSUME NEW x \in 1 .. Len(statusQueue')
          PROVE  \/ /\ x \in 1 .. Len(statusQueue) /\ statusQueue'[x] = statusQueue[x]
                    /\ statusQueue'[x].id.index # i
                 \/ x = Len(statusQueue) + 1 /\ statusQueue'[x].id.index = i
      BY Zenon, <1>7 DEF InStatus, i
    <3> QED
      BY Zenon, <2>2, <3>1 DEF IInv, QueuesDistinct
  <2>3. QueuesDistinct'
    BY Zenon, <2>1, <2>2 DEF QueuesDistinct
  <2>4. OneCarrier'
    BY <1>5, <1>6, <1>7, <1>8, <1>9, Zenon DEF IInv, OneCarrier
  <2> QED
    BY Zenon, <2>3, <2>4
<1>13. RecordInv'
  <2>1. ASSUME NEW j \in Index, InUse(j) PROVE RecordOK(j)'
    <3>1. RecordOK(j)
      BY Zenon, <2>1 DEF IInv, RecordInv
    <3>2. CASE InWorker(j)
      BY Zenon, <1>1, <3>1, <3>2 DEF RecordOK
    <3>3. CASE ~InWorker(j)
      BY Zenon, <1>1, <1>3, <1>5, <1>8, <1>9, <3>1, <3>3 DEF RecordOK
    <3> QED
      BY Zenon, <3>2, <3>3
  <2> QED
    BY Zenon, <1>1, <1>9, <2>1 DEF IInv, RecordInv
<1>14. RepliesInv' /\ StatusToOwner' /\ Lifecycle'
  BY Zenon, <1>1, <1>9 DEF IInv, RepliesInv, ToldOK, StatusToOwner, Lifecycle
<1> QED
  BY Zenon, <1>10, <1>11, <1>12, <1>13, <1>14 DEF Rest

\* Matching a new order: nothing, or a status of an order that is New.
LEMMA MatchKeeps ==
    ASSUME IInv, NEW w \in Worker, Match(w)
    PROVE  Rest'
<1> DEFINE e == Head(workerQueue[w])
           status(b, state) == [about |-> e.about, id |-> e.id, bookOId |-> b, state |-> state]
<1>1. Takes(w, "New") /\ TypeOK
  BY Zenon DEF Match, IInv
<1>2. e \in Event /\ e.action = "New" /\ e = workerQueue[w][1] /\ 1 \in 1 .. Len(workerQueue[w])
  BY <1>1, TakesFacts
<1>3. EventOK(e) /\ e.about \in Nat
  BY Zenon, <1>2 DEF IInv, MessageInv, Event
<1> HIDE DEF e
<1>4. ASSUME NEW b \in Nat, NEW state \in {"Full", "Accepted", "Partial"},
             state # "Full" => b = e.about
      PROVE  /\ status(b, state) \in StatusOf /\ status(b, state).id = e.id
             /\ StatusOK(status(b, state))
  BY Zenon, <1>2, <1>3, <1>4 DEF StatusOf, Event, Closing, StatusOK, EventOK, OwnRecord
<1>5. CASE UNCHANGED statusQueue
  <2>1. 0 \in Nat /\ "Full" \in {"Full", "Accepted", "Partial"}
    BY Zenon
  <2>2. status(0, "Full") \in StatusOf /\ status(0, "Full").id = e.id /\ StatusOK(status(0, "Full"))
    BY Zenon, <1>4, <2>1
  <2> HIDE DEF status
  <2> QED
    BY Zenon, <1>1, <1>5, <2>2, WorkerKeeps DEF e
<1>6. ASSUME NEW b \in Nat, NEW state \in {"Full", "Accepted", "Partial"},
             state # "Full" => b = e.about, PostStatus(e, b, state)
      PROVE  Rest'
  <2>1. state \in Closing \cup {"Accepted", "Partial"}
    BY Zenon DEF Closing
  <2>2. \A k \in 1 .. Len(statusQueue') :
           \/ k \in 1 .. Len(statusQueue) /\ statusQueue'[k] = statusQueue[k]
           \/ k = Len(statusQueue) + 1 /\ statusQueue'[k] = status(b, state)
    BY Zenon, <1>1, <1>2, <1>6, <2>1, PostFacts
  <2>3. status(b, state) \in StatusOf /\ status(b, state).id = e.id /\ StatusOK(status(b, state))
    BY Zenon, <1>4, <1>6
  <2> HIDE DEF status
  <2> QED
    BY Zenon, <1>1, <2>2, <2>3, WorkerKeeps DEF e
<1> QED
  BY Zenon, <1>3, <1>5, <1>6 DEF Match, e

\* The answer to a cancel is about an order that rests or rested.
LEMMA CancelKeeps ==
    ASSUME IInv, NEW w \in Worker, Cancel(w)
    PROVE  Rest'
<1> DEFINE e == Head(workerQueue[w])
<1>1. Takes(w, "Cancel") /\ TypeOK
  BY Zenon DEF Cancel, IInv
<1>2. e \in Event /\ e.action = "Cancel" /\ e = workerQueue[w][1] /\ 1 \in 1 .. Len(workerQueue[w])
  BY <1>1, TakesFacts
<1>3. EventOK(e) /\ e.bookOId \in Nat
  BY Zenon, <1>2 DEF IInv, MessageInv, Event
<1>4. PICK state \in {"Cancelled", "Rejected"} : PostStatus(e, e.bookOId, state)
  BY Zenon DEF Cancel
<1> DEFINE m == [about |-> e.about, id |-> e.id, bookOId |-> e.bookOId, state |-> state]
<1> HIDE DEF e
<1>5. state \in Closing \cup {"Accepted", "Partial"}
  BY Zenon DEF Closing
<1>6. m \in StatusOf /\ m.id = e.id /\ StatusOK(m)
  BY Zenon, <1>2, <1>3, <1>5 DEF StatusOf, Event, StatusOK, EventOK, OwnRecord
<1>7. \A k \in 1 .. Len(statusQueue') :
         \/ k \in 1 .. Len(statusQueue) /\ statusQueue'[k] = statusQueue[k]
         \/ k = Len(statusQueue) + 1 /\ statusQueue'[k] = m
  BY SMTT(30), <1>1, <1>2, <1>3, <1>4, <1>5, PostFacts
<1> HIDE DEF m
<1> QED
  BY Zenon, <1>1, <1>6, <1>7, WorkerKeeps DEF e

\* The gateway thread takes a status and tells the client of its record.
LEMMA ReplyKeeps ==
    ASSUME IInv, GatewayReply
    PROVE  Rest'
<1>a. statusQueue \in Seq(StatusOf) /\ statusQueue # <<>>
  BY Zenon DEF IInv, TypeOK, GatewayReply
<1>b. PICK s \in StatusOf : s = Head(statusQueue)
  BY Zenon, <1>a, TailFacts
<1>c. PICK n : n = records[s.id.index].externalOId
  BY Zenon
<1> DEFINE i == s.id.index
           c == records[i].clientId
           id == records[i].systemOId
<1>1. /\ TypeOK /\ gpc = "idle" /\ gpc' = "update" /\ handled' = s
      /\ statusQueue' = Tail(statusQueue) /\ Reply(n, c, id, s.state, s.about)
      /\ UNCHANGED <<records, pool, npc, cancel, workerQueue, orders, asked>>
  BY Zenon, <1>b, <1>c DEF IInv, GatewayReply, network
<1>2. n = records[i].externalOId
  BY Zenon, <1>c
<1>3. /\ s = statusQueue[1] /\ 1 \in 1 .. Len(statusQueue)
      /\ \A k \in 1 .. Len(statusQueue') :
           k + 1 \in 1 .. Len(statusQueue) /\ statusQueue'[k] = statusQueue[k + 1]
  BY Zenon, <1>1, <1>a, <1>b, TailFacts
<1>4. /\ s.id \in Id /\ i \in Index /\ s.state \in Closing \cup {"Accepted", "Partial"}
      /\ s.about \in Nat /\ StatusOK(s)
  BY Zenon, <1>3 DEF StatusOf, Id, IInv, MessageInv
<1>5. id = s.id /\ n = s.about /\ InUse(i) /\ records[i].state # "Closed" /\ id \in Id \cup {InvalidId}
  BY Zenon, <1>2, <1>4, IdFacts DEF StatusOK, OwnRecord, InUse
<1>6. InStatus(i) /\ RecordOK(i) /\ ToldOK(i)
  BY Zenon, <1>3, <1>4, <1>5 DEF InStatus, IInv, RecordInv, RepliesInv
<1>7. ~InWorker(i) /\ ~InGateway(i) /\ ~InNetwork(i)
  BY Zenon, <1>4, <1>6 DEF IInv, OneCarrier
<1>8. n \in 1 .. Len(orders) /\ c = orders[n].client /\ Len(orders) \in Nat
  BY <1>2, <1>6 DEF RecordOK, IInv, TypeOK
<1>d. c \in Client \cup {NoClient}
  BY Zenon, <1>1, <1>4 DEF TypeOK
<1>e. n \in 1 .. MAX_ORDERS
  BY <1>8, GatewayAssumption DEF IInv, RepliesInv
<1>9. n \in 1 .. MAX_ORDERS /\ c \in Client \cup {NoClient}
  BY Zenon, <1>d, <1>e
<1>10. ReplyEffect(n, c, id, s.state, s.about)
  BY Zenon, <1>1, <1>4, <1>5, <1>9, ReplyFacts
<1> HIDE DEF i, c, id
<1>11. /\ \A x \in 1 .. MAX_ORDERS : x # n => replies'[x] = replies[x]
       /\ Len(replies[n]) \in Nat /\ Len(replies'[n]) = Len(replies[n]) + 1
       /\ \A k \in 1 .. Len(replies[n]) : replies'[n][k] = replies[n][k]
       /\ replies'[n][Len(replies[n]) + 1].client = c
       /\ replies'[n][Len(replies[n]) + 1].id = id
       /\ replies'[n][Len(replies[n]) + 1].state = s.state
       /\ replies'[n][Len(replies[n]) + 1].about = s.about
  BY <1>10 DEF ReplyEffect
<1>12. ~InStatus(i)' /\ \A j \in Index : InStatus(j)' => InStatus(j)
  <2>1. ASSUME NEW k \in 1 .. Len(statusQueue') PROVE statusQueue'[k].id.index # i
    <3>1. k + 1 \in 1 .. Len(statusQueue) /\ statusQueue'[k] = statusQueue[k + 1] /\ k + 1 # 1
      BY <1>3
    <3> QED
      BY Zenon, <1>3, <3>1 DEF IInv, QueuesDistinct, i
  <2> QED
    BY Zenon, <1>3, <2>1 DEF InStatus
<1>13. \A j \in Index : /\ InWorker(j)' <=> InWorker(j)
                        /\ InNetwork(j)' <=> InNetwork(j)
                        /\ InGateway(j)' <=> j = i
                        /\ ~Freeing(j)' /\ ~Freeing(j) /\ ~InGateway(j)
                        /\ Free(j)' <=> Free(j)
                        /\ InUse(j)' <=> InUse(j)
  BY Zenon, <1>1 DEF InWorker, InNetwork, InGateway, Freeing, Free, InUse, i
<1>14. IdsConserved'
  BY Zenon, <1>1, <1>13 DEF IInv, IdsConserved
<1>15. MessageInv'
  <2>1. \A w \in Worker : \A k \in 1 .. Len(workerQueue[w]) : EventOK(workerQueue[w][k])'
    BY Zenon, <1>1 DEF IInv, MessageInv, EventOK, OwnRecord
  <2>2. ASSUME NEW k \in 1 .. Len(statusQueue') PROVE StatusOK(statusQueue[k])'
    <3>1. k + 1 \in 1 .. Len(statusQueue) /\ statusQueue'[k] = statusQueue[k + 1]
      BY Zenon, <1>3
    <3>2. StatusOK(statusQueue[k + 1])
      BY Zenon, <3>1 DEF IInv, MessageInv
    <3> QED
      BY Zenon, <1>1, <3>1, <3>2 DEF StatusOK, OwnRecord
  <2>3. StatusOK(handled)' /\ handled' \in StatusOf
    BY Zenon, <1>1, <1>3, <1>4 DEF StatusOK, OwnRecord
  <2>4. (npc = "cancel" => CancelOK)'
    BY Zenon, <1>1 DEF IInv, MessageInv, CancelOK
  <2> QED
    BY Zenon, <1>1, <2>1, <2>2, <2>3, <2>4 DEF MessageInv
<1>16. QueuesDistinct' /\ OneCarrier'
  <2>1. ASSUME NEW k \in 1 .. Len(statusQueue'), NEW l \in 1 .. Len(statusQueue'),
               statusQueue'[k].id.index = statusQueue'[l].id.index
        PROVE  k = l
    <3>1. /\ k + 1 \in 1 .. Len(statusQueue) /\ l + 1 \in 1 .. Len(statusQueue)
          /\ statusQueue[k + 1].id.index = statusQueue[l + 1].id.index
      BY Zenon, <1>3, <2>1
    <3>2. k + 1 = l + 1
      BY Zenon, <3>1 DEF IInv, QueuesDistinct
    <3> QED
      BY <3>2
  <2>2. QueuesDistinct'
    BY <1>1, <2>1 DEF IInv, QueuesDistinct
  <2>3. OneCarrier'
    BY <1>7, <1>12, <1>13, Zenon DEF IInv, OneCarrier
  <2> QED
    BY Zenon, <2>2, <2>3
<1>17. RecordInv'
  <2>1. ASSUME NEW j \in Index, InUse(j) PROVE RecordOK(j)'
    <3>1. RecordOK(j)
      BY Zenon, <2>1 DEF IInv, RecordInv
    <3>2. CASE j = i
      BY Zenon, <1>1, <1>6, <3>1, <3>2 DEF RecordOK
    <3>3. CASE j # i
      BY Zenon, <1>1, <1>12, <1>13, <3>1, <3>3 DEF RecordOK
    <3> QED
      BY Zenon, <3>2, <3>3
  <2> QED
    BY Zenon, <1>1, <1>13, <2>1 DEF IInv, RecordInv
<1>18. RepliesInv'
  <2>1. \A x \in 1 .. MAX_ORDERS : x > Len(orders') => replies'[x] = <<>>
    BY <1>1, <1>8, <1>11 DEF IInv, RepliesInv
  <2>2. ToldOK(i)'
    <3>1. CASE records[i].state = "New"
      <4>1. replies[n] = <<>> /\ Len(replies[n]) = 0
        BY Zenon, <1>2, <1>6, <1>7, <3>1 DEF ToldOK
      <4>2. Len(replies'[n]) = 1 /\ replies'[n][1].state = handled'.state /\ replies'[n][1].id = id
        BY <1>1, <1>11, <4>1
      <4> QED
        BY Zenon, <1>1, <1>2, <1>4, <1>13, <3>1, <4>2 DEF ToldOK, id
    <3>2. CASE records[i].state # "New"
      BY Zenon, <1>1, <1>4, <1>13, <3>2 DEF ToldOK
    <3> QED
      BY Zenon, <3>1, <3>2
  <2>3. ASSUME NEW j \in Index, InUse(j), j # i PROVE ToldOK(j)'
    <3>1. ToldOK(j) /\ RecordOK(j) /\ records[j].externalOId # n
      BY Zenon, <1>2, <1>4, <1>5, <2>3 DEF IInv, RepliesInv, RecordInv
    <3>2. records[j].externalOId \in 1 .. MAX_ORDERS
      BY SMTT(30), <1>8, <3>1, GatewayAssumption DEF RecordOK, IInv, RepliesInv
    <3>3. replies'[records[j].externalOId] = replies[records[j].externalOId]
      BY Zenon, <1>11, <3>1, <3>2
    <3> QED
      BY Zenon, <1>1, <1>13, <2>3, <3>1, <3>3 DEF ToldOK
  <2> QED
    BY Zenon, <1>1, <1>13, <2>1, <2>2, <2>3 DEF IInv, RepliesInv
<1>19. StatusToOwner'
  <2>1. ASSUME NEW k \in 1 .. Len(replies'[n])
        PROVE  replies'[n][k].about = n /\ replies'[n][k].client = orders[n].client
    <3>1. CASE k \in 1 .. Len(replies[n])
      BY SMTT(30), <1>9, <1>11, <3>1 DEF IInv, StatusToOwner
    <3>2. CASE k = Len(replies[n]) + 1
      BY Zenon, <1>5, <1>8, <1>11, <3>2
    <3> QED
      BY <1>11, <3>1, <3>2
  <2>2. ASSUME NEW x \in 1 .. MAX_ORDERS, x # n, NEW k \in 1 .. Len(replies'[x])
        PROVE  replies'[x][k].about = x /\ replies'[x][k].client = orders[x].client
    <3>1. replies'[x] = replies[x]
      BY Zenon, <1>11, <2>2
    <3> QED
      BY Zenon, <2>2, <3>1 DEF IInv, StatusToOwner
  <2>3. \A x \in 1 .. MAX_ORDERS : \A k \in 1 .. Len(replies'[x]) :
          replies'[x][k].about = x /\ replies'[x][k].client = orders[x].client
    BY <2>1, <2>2
  <2> QED
    BY Zenon, <1>1, <2>3 DEF StatusToOwner
<1>20. Lifecycle'
  <2> DEFINE Good(q) == /\ Len(q) <= 2
                        /\ Len(q) = 2 => /\ q[1].state \in {"Accepted", "Partial"}
                                         /\ q[2].state \in {"Cancelled", "Rejected"}
                                         /\ q[1].id = q[2].id
  <2>a. ASSUME NEW x \in 1 .. MAX_ORDERS, x # n PROVE Good(replies'[x])
    <3>1. replies'[x] = replies[x] /\ Good(replies[x])
      BY Zenon, <1>11, <2>a DEF IInv, Lifecycle
    <3> QED
      BY Zenon, <3>1
  <2>b. Good(replies'[n]) => Lifecycle'
    BY Zenon, <2>a DEF Lifecycle
  <2>1. CASE records[i].state = "New"
    <3>1. replies[n] = <<>> /\ Len(replies[n]) = 0
      BY Zenon, <1>2, <1>6, <1>7, <2>1 DEF ToldOK
    <3> QED
      BY <1>11, <2>b, <3>1
  <2>2. CASE records[i].state = "Accepted"
    <3>1. /\ Len(replies[n]) = 1 /\ replies[n][1].state \in {"Accepted", "Partial"}
          /\ replies[n][1].id = id
      BY Zenon, <1>2, <1>6, <1>7, <2>2 DEF ToldOK, id
    <3>2. s.state \in {"Cancelled", "Rejected"}
      BY Zenon, <1>4, <2>2 DEF StatusOK, Closing, i
    <3>3. /\ Len(replies'[n]) = 2 /\ replies'[n][1] = replies[n][1]
          /\ replies'[n][2].state = s.state /\ replies'[n][2].id = id
      BY <1>11, <3>1
    <3> QED
      BY SMTT(30), <2>b, <3>1, <3>2, <3>3
  <2> QED
    BY Zenon, <1>1, <1>4, <1>5, <2>1, <2>2 DEF TypeOK
<1> QED
  BY Zenon, <1>14, <1>15, <1>16, <1>17, <1>18, <1>19, <1>20 DEF Rest

\* What the writes of the gateway thread to record i leave alone.
OthersKept(i) ==
    /\ \A j \in Index : j # i => records'[j] = records[j]
    /\ UNCHANGED <<npc, cancel, workerQueue, statusQueue, orders, replies, asked>>

\* A write to the record of the status in hand concerns nothing else in flight.
LEMMA OthersFacts ==
    ASSUME IInv, gpc # "idle", OthersKept(handled.id.index)
    PROVE  /\ \A w \in Worker : \A k \in 1 .. Len(workerQueue'[w]) : EventOK(workerQueue[w][k])'
           /\ \A k \in 1 .. Len(statusQueue') : StatusOK(statusQueue[k])'
           /\ (npc = "cancel" => CancelOK)'
           /\ \A j \in Index : /\ InWorker(j)' <=> InWorker(j)
                               /\ InStatus(j)' <=> InStatus(j)
                               /\ InNetwork(j)' <=> InNetwork(j)
<1> DEFINE i == handled.id.index
<1>1. i \in Index /\ InGateway(i)
  BY Zenon DEF IInv, MessageInv, StatusOf, Id, InGateway
<1>2. ~InWorker(i) /\ ~InStatus(i) /\ ~InNetwork(i)
  BY Zenon, <1>1 DEF IInv, OneCarrier
<1>3. /\ \A j \in Index : j # i => records'[j] = records[j]
      /\ UNCHANGED <<npc, cancel, workerQueue, statusQueue, orders, replies, asked>>
  BY Zenon DEF OthersKept
<1> HIDE DEF i
<1>4. ASSUME NEW w \in Worker, NEW k \in 1 .. Len(workerQueue[w]) PROVE EventOK(workerQueue[w][k])'
  <2>1. EventOK(workerQueue[w][k]) /\ workerQueue[w][k].id.index # i
    BY Zenon, <1>2 DEF InWorker, IInv, MessageInv
  <2>2. workerQueue[w][k] \in Event
    BY DEF IInv, TypeOK
  <2>3. workerQueue[w][k].id.index \in Index
    BY Zenon, <2>2 DEF Event, Id
  <2> QED
    BY Zenon, <1>3, <2>1, <2>3 DEF EventOK, OwnRecord
<1>5. ASSUME NEW k \in 1 .. Len(statusQueue) PROVE StatusOK(statusQueue[k])'
  <2>1. StatusOK(statusQueue[k]) /\ statusQueue[k].id.index # i
    BY Zenon, <1>2 DEF InStatus, IInv, MessageInv
  <2>2. statusQueue[k] \in StatusOf
    BY SMTT(30) DEF IInv, TypeOK
  <2>3. statusQueue[k].id.index \in Index
    BY Zenon, <2>2 DEF StatusOf, Id
  <2> QED
    BY Zenon, <1>3, <2>1, <2>3 DEF StatusOK, OwnRecord
<1>6. (npc = "cancel" => CancelOK)'
  <2>1. npc = "cancel" => cancel.id.index \in Index /\ cancel.id.index # i
    BY Zenon, <1>2 DEF IInv, MessageInv, CancelOK, InNetwork, Id
  <2> QED
    BY Zenon, <1>3, <2>1 DEF IInv, MessageInv, CancelOK
<1>7. \A j \in Index : /\ InWorker(j)' <=> InWorker(j)
                       /\ InStatus(j)' <=> InStatus(j)
                       /\ InNetwork(j)' <=> InNetwork(j)
  BY Zenon, <1>3 DEF InWorker, InStatus, InNetwork
<1> QED
  BY Zenon, <1>3, <1>4, <1>5, <1>6, <1>7

\* The first write closes the record, or gives it the id of the book.
LEMMA UpdateKeeps ==
    ASSUME IInv, GatewayUpdate
    PROVE  Rest'
<1>1. /\ TypeOK /\ gpc = "update" /\ gpc' = "finish"
      /\ UNCHANGED <<pool, npc, cancel, workerQueue, statusQueue, handled, orders, replies, asked>>
  BY Zenon DEF IInv, GatewayUpdate, network, queues, history
<1>2. PICK i : i = handled.id.index
  BY Zenon
<1>3. /\ handled \in StatusOf /\ handled.id \in Id /\ i \in Index
      /\ \A j \in Index : j # i => records'[j] = records[j]
      /\ SameOrder(records'[i], records[i])
      /\ handled.state \in Closing => records'[i].state = "Closed"
      /\ handled.state \notin Closing =>
            records'[i].state = records[i].state /\ records'[i].bookOId = handled.bookOId
  BY Zenon, <1>2, UpdateFacts
<1>4. StatusOK(handled) /\ InGateway(i)
  BY Zenon, <1>1, <1>2 DEF IInv, MessageInv, InGateway
<1>5. OthersKept(handled.id.index)
  BY Zenon, <1>1, <1>2, <1>3 DEF OthersKept
<1>6. /\ \A w \in Worker : \A k \in 1 .. Len(workerQueue'[w]) : EventOK(workerQueue[w][k])'
      /\ \A k \in 1 .. Len(statusQueue') : StatusOK(statusQueue[k])'
      /\ (npc = "cancel" => CancelOK)'
      /\ \A j \in Index : /\ InWorker(j)' <=> InWorker(j)
                          /\ InStatus(j)' <=> InStatus(j)
                          /\ InNetwork(j)' <=> InNetwork(j)
  BY Zenon, <1>1, <1>5, OthersFacts
<1>7. /\ records[i].systemOId = handled.id /\ records[i].externalOId = handled.about
      /\ records[i].state # "Closed" /\ InUse(i)
  BY Zenon, <1>2, <1>3, <1>4, IdFacts DEF StatusOK, OwnRecord, InUse
<1>8. handled.state \notin Closing => handled.state \in {"Accepted", "Partial"}
  BY Zenon, <1>3 DEF StatusOf
<1>9. handled.state \notin Closing =>
         records[i].state = "New" /\ handled.bookOId = handled.about /\ records'[i].state = "New"
  BY Zenon, <1>2, <1>3, <1>4, <1>8 DEF StatusOK
<1>10. \A j \in Index : j # i => /\ InUse(j)' <=> InUse(j)
                                 /\ ~InGateway(j)' /\ ~InGateway(j) /\ ~Freeing(j)' /\ ~Freeing(j)
  BY Zenon, <1>1, <1>2, <1>3 DEF InUse, InGateway, Freeing
<1>11. InGateway(i)' /\ (InUse(i)' <=> handled.state \notin Closing)
       /\ (Freeing(i)' <=> handled.state \in Closing)
  BY Zenon, <1>1, <1>2, <1>3, <1>7, <1>9, IdFacts DEF InGateway, InUse, Freeing, SameOrder
<1>12. IdsConserved'
  <2>1. \A j \in Index : Free(j)' <=> Free(j)
    BY Zenon, <1>1 DEF Free
  <2>2. \A j \in Index : /\ Free(j) => ~InUse(j) /\ ~Freeing(j)
                         /\ Free(j) \/ InUse(j) \/ Freeing(j)
    BY Zenon DEF IInv, IdsConserved
  <2>3. \A j \in Index : /\ Free(j)' => ~InUse(j)' /\ ~Freeing(j)'
                         /\ InUse(j)' => ~Freeing(j)'
                         /\ Free(j)' \/ InUse(j)' \/ Freeing(j)'
    BY <1>7, <1>10, <1>11, <2>1, <2>2, Zenon
  <2> QED
    BY Zenon, <1>1, <2>3 DEF IInv, IdsConserved
<1>13. MessageInv'
  <2>1. FinishOK'
    BY Zenon, <1>1, <1>2, <1>3, <1>7, <1>9 DEF FinishOK, SameOrder
  <2> QED
    BY Zenon, <1>1, <1>3, <1>6, <2>1 DEF MessageInv
<1>14. QueuesDistinct' /\ OneCarrier'
  <2>1. QueuesDistinct'
    <3>1. QueuesDistinct /\ workerQueue' = workerQueue /\ statusQueue' = statusQueue
      BY Zenon, <1>1 DEF IInv
    <3> QED
      BY SMTT(30), <3>1 DEF QueuesDistinct
  <2>2. OneCarrier'
    BY <1>4, <1>6, <1>10, Zenon DEF IInv, OneCarrier
  <2> QED
    BY Zenon, <2>1, <2>2
<1>15. RecordInv'
  <2>1. ASSUME NEW j \in Index, InUse(j), j # i PROVE RecordOK(j)'
    <3>1. RecordOK(j) /\ records'[j] = records[j]
      BY Zenon, <1>3, <2>1 DEF IInv, RecordInv
    <3> QED
      BY Zenon, <1>1, <1>6, <1>10, <2>1, <3>1 DEF RecordOK
  <2>2. ASSUME handled.state \notin Closing PROVE RecordOK(i)'
    <3>1. RecordOK(i) /\ records[i].state = "New" /\ records'[i].state = "New"
      BY Zenon, <1>3, <1>7, <1>9, <2>2 DEF IInv, RecordInv
    <3> QED
      BY Zenon, <1>1, <1>3, <3>1 DEF RecordOK, SameOrder
  <2>3. \A j \in Index : records'[j].externalOId = records[j].externalOId
    BY Zenon, <1>3 DEF SameOrder
  <2>4. \A j \in Index : InUse(j)' => InUse(j)
    BY Zenon, <1>7, <1>10
  <2> QED
    BY Zenon, <1>1, <1>11, <2>1, <2>2, <2>3, <2>4 DEF IInv, RecordInv
<1>16. RepliesInv'
  <2>1. ASSUME NEW j \in Index, InUse(j), j # i PROVE ToldOK(j)'
    <3>1. ToldOK(j) /\ records'[j] = records[j]
      BY Zenon, <1>3, <2>1 DEF IInv, RepliesInv
    <3> QED
      BY Zenon, <1>1, <1>10, <2>1, <3>1 DEF ToldOK
  <2>2. ASSUME handled.state \notin Closing PROVE ToldOK(i)'
    <3>1. ToldOK(i) /\ records[i].state = "New" /\ records'[i].state = "New"
      BY Zenon, <1>3, <1>7, <1>9, <2>2 DEF IInv, RepliesInv
    <3> QED
      BY Zenon, <1>1, <1>3, <1>4, <1>11, <3>1 DEF ToldOK, SameOrder
  <2>3. \A j \in Index : InUse(j)' => InUse(j)
    BY Zenon, <1>7, <1>10
  <2> QED
    BY Zenon, <1>1, <1>11, <2>1, <2>2, <2>3 DEF IInv, RepliesInv
<1>17. StatusToOwner' /\ Lifecycle'
  BY Zenon, <1>1 DEF IInv, StatusToOwner, Lifecycle
<1> QED
  BY Zenon, <1>12, <1>13, <1>14, <1>15, <1>16, <1>17 DEF Rest

\* The second write makes the id free again, or the order open for a cancel.
LEMMA FinishKeeps ==
    ASSUME IInv, GatewayFinish
    PROVE  Rest'
<1>1. /\ TypeOK /\ gpc = "finish" /\ gpc' = "idle"
      /\ UNCHANGED <<npc, cancel, workerQueue, statusQueue, orders, replies, asked>>
  BY Zenon DEF IInv, GatewayFinish, network, queues, history
<1>2. PICK i : i = handled.id.index
  BY Zenon
<1>3. PICK id : id = NextGen(handled.id)
  BY Zenon
<1>4. /\ handled \in StatusOf /\ i \in Index /\ id \in Id /\ id.index = i /\ pool' \in [Id -> Nat]
      /\ \A j \in Index : j # i => records'[j] = records[j]
      /\ handled.state \in Closing =>
            /\ records' = records /\ pool'[id] = pool[id] + 1
            /\ \A x \in Id : x # id => pool'[x] = pool[x]
      /\ handled.state \notin Closing =>
            /\ pool' = pool /\ SameOrder(records'[i], records[i])
            /\ records'[i].state = "Accepted" /\ records'[i].bookOId = records[i].bookOId
  BY Zenon, <1>2, <1>3, FinishFacts
<1>5. InGateway(i) /\ (Freeing(i) <=> handled.state \in Closing)
  BY Zenon, <1>1, <1>2 DEF InGateway, Freeing
<1>6. /\ records[i].systemOId \in Id /\ records[i].externalOId = handled.about
      /\ handled.state \in Closing => records[i].state = "Closed"
      /\ handled.state \notin Closing => records[i].state = "New" /\ records[i].bookOId = handled.about
  BY Zenon, <1>1, <1>2, <1>4 DEF IInv, MessageInv, FinishOK, StatusOf
<1>7. ~InWorker(i) /\ ~InStatus(i) /\ ~InNetwork(i)
  BY Zenon, <1>4, <1>5 DEF IInv, OneCarrier
<1>8. OthersKept(handled.id.index)
  BY Zenon, <1>1, <1>2, <1>4 DEF OthersKept
<1>9. /\ \A w \in Worker : \A k \in 1 .. Len(workerQueue'[w]) : EventOK(workerQueue[w][k])'
      /\ \A k \in 1 .. Len(statusQueue') : StatusOK(statusQueue[k])'
      /\ (npc = "cancel" => CancelOK)'
      /\ \A j \in Index : /\ InWorker(j)' <=> InWorker(j)
                          /\ InStatus(j)' <=> InStatus(j)
                          /\ InNetwork(j)' <=> InNetwork(j)
  BY Zenon, <1>1, <1>8, OthersFacts
<1>10. \A j \in Index : ~InGateway(j)' /\ ~Freeing(j)'
  BY Zenon, <1>1 DEF InGateway, Freeing
<1>11. \A j \in Index : j # i => (InUse(j)' <=> InUse(j)) /\ ~InGateway(j) /\ ~Freeing(j)
  BY Zenon, <1>2, <1>4 DEF InUse, InGateway, Freeing
<1>12. /\ InUse(i)' <=> handled.state \notin Closing
       /\ InUse(i) <=> handled.state \notin Closing
  BY Zenon, <1>4, <1>6, IdFacts DEF InUse, SameOrder
<1>13. IdsConserved'
  <2>a. \A x \in Id : pool[x] \in Nat /\ pool[x] <= 1
    BY Zenon, <1>1 DEF TypeOK, IInv, IdsConserved
  <2>1. CASE handled.state \in Closing
    <3>1. ~Free(i)
      BY Zenon, <1>4, <1>5, <2>1 DEF IInv, IdsConserved
    <3>2. \A x \in Id : x.index = i => pool[x] = 0
      BY <2>a, <3>1 DEF Free
    <3>3. pool'[id] = 1 /\ Free(i)' /\ \A x \in Id : x # id => pool'[x] = pool[x]
      BY <1>4, <2>1, <3>2 DEF Free
    <3>4. \A x \in Id : pool'[x] <= 1
      BY SMTT(30), <2>a, <3>3
    <3>5. \A x, y \in Id : x.index = y.index /\ pool'[x] > 0 /\ pool'[y] > 0 => x = y
      BY SMTT(30), <1>4, <3>2, <3>3 DEF IInv, IdsConserved
    <3>6. \A j \in Index : j # i => (Free(j)' <=> Free(j))
      BY Zenon, <1>4, <3>3 DEF Free
    <3> QED
      BY Zenon, <1>10, <1>11, <1>12, <2>1, <3>3, <3>4, <3>5, <3>6 DEF IInv, IdsConserved
  <2>2. CASE handled.state \notin Closing
    <3>1. \A j \in Index : Free(j)' <=> Free(j)
      BY Zenon, <1>4, <2>2 DEF Free
    <3>2. \A j \in Index : InUse(j)' <=> InUse(j)
      BY Zenon, <1>11, <1>12, <2>2
    <3>3. \A j \in Index : ~Freeing(j)
      BY Zenon, <1>5, <1>11, <2>2
    <3> QED
      BY Zenon, <1>4, <1>10, <2>2, <3>1, <3>2, <3>3 DEF IInv, IdsConserved
  <2> QED
    BY Zenon, <2>1, <2>2
<1>14. MessageInv'
  BY Zenon, <1>1, <1>9 DEF MessageInv
<1>15. QueuesDistinct' /\ OneCarrier'
  <2>1. QueuesDistinct'
    <3>1. QueuesDistinct /\ workerQueue' = workerQueue /\ statusQueue' = statusQueue
      BY Zenon, <1>1 DEF IInv
    <3> QED
      BY <3>1 DEF QueuesDistinct
  <2>2. OneCarrier'
    BY <1>9, <1>10, Zenon DEF IInv, OneCarrier
  <2> QED
    BY Zenon, <2>1, <2>2
<1>16. ASSUME NEW j \in Index, InUse(j)'
       PROVE  /\ InUse(j) /\ RecordOK(j)' /\ ToldOK(j)'
              /\ records'[j].externalOId = records[j].externalOId
  <2>1. InUse(j) /\ RecordOK(j) /\ ToldOK(j)
    BY Zenon, <1>11, <1>12, <1>16 DEF IInv, RecordInv, RepliesInv
  <2>2. CASE j = i
    <3>1. /\ handled.state \notin Closing /\ SameOrder(records'[i], records[i])
          /\ records[i].state = "New" /\ records'[i].state = "Accepted"
          /\ records'[i].bookOId = records[i].externalOId
      BY Zenon, <1>4, <1>6, <1>12, <1>16, <2>2
    <3>2. handled.state \in {"Accepted", "Partial"}
      BY Zenon, <1>4, <3>1 DEF StatusOf
    <3>3. RecordOK(i)'
      BY Zenon, <1>1, <1>7, <1>9, <1>10, <1>4, <2>1, <2>2, <3>1 DEF RecordOK, SameOrder
    <3>4. ToldOK(i)'
      BY Zenon, <1>1, <1>4, <1>5, <1>10, <2>1, <2>2, <3>1, <3>2 DEF ToldOK, SameOrder
    <3> QED
      BY Zenon, <2>1, <2>2, <3>1, <3>3, <3>4 DEF SameOrder
  <2>3. CASE j # i
    <3>1. records'[j] = records[j] /\ ~InGateway(j) /\ ~InGateway(j)'
      BY Zenon, <1>4, <1>10, <1>11, <2>3
    <3>2. RecordOK(j)'
      BY Zenon, <1>1, <1>9, <2>1, <3>1 DEF RecordOK
    <3>3. ToldOK(j)'
      BY Zenon, <1>1, <2>1, <3>1 DEF ToldOK
    <3> QED
      BY Zenon, <2>1, <3>1, <3>2, <3>3
  <2> QED
    BY Zenon, <2>2, <2>3
<1>17. RecordInv'
  BY Zenon, <1>1, <1>16 DEF IInv, RecordInv
<1>18. RepliesInv' /\ StatusToOwner' /\ Lifecycle'
  BY Zenon, <1>1, <1>16 DEF IInv, RepliesInv, StatusToOwner, Lifecycle
<1> QED
  BY Zenon, <1>13, <1>14, <1>15, <1>17, <1>18 DEF Rest

\* The flags of a shutdown are no part of the invariant.
LEMMA StopKeeps ==
    ASSUME IInv, UNCHANGED <<records, pool, network, workerQueue, statusQueue, gateway, history>>
    PROVE  Rest'
<1> USE DEF network, gateway, history
<1>1. /\ IdsConserved' /\ MessageInv' /\ QueuesDistinct' /\ OneCarrier'
      /\ \A j \in Index : /\ InWorker(j)' <=> InWorker(j)
                          /\ InStatus(j)' <=> InStatus(j)
                          /\ InGateway(j)' <=> InGateway(j)
                          /\ InUse(j)' <=> InUse(j)
  BY FlowFrame, Zenon
<1>2. RecordInv'
  BY <1>1, Zenon DEF IInv, RecordInv, RecordOK
<1>3. RepliesInv'
  BY <1>1, Zenon DEF IInv, RepliesInv, ToldOK
<1>4. StatusToOwner' /\ Lifecycle'
  BY Zenon DEF IInv, StatusToOwner, Lifecycle
<1> QED
  BY Zenon, <1>1, <1>2, <1>3, <1>4 DEF Rest

\* The invariant holds when the server starts.
LEMMA InitHolds == Init => IInv
<1> SUFFICES ASSUME Init PROVE IInv
  BY Zenon
<1>1. NoRecord \in RecordOf /\ NoRecord.systemOId = InvalidId /\ ~IsValid(InvalidId)
  BY Zenon, IdFacts DEF NoRecord, RecordOf
<1>2. \A i \in Index : records[i] = NoRecord /\ ~InUse(i)
  BY Zenon, <1>1 DEF Init, InUse
<1>3. TypeOK
  <2>1. records \in [Index -> RecordOf] /\ pool \in [Id -> Nat]
    BY Zenon, <1>1 DEF Init
  <2>2. NoCancel \in [id : Id \cup {InvalidId}, ticker : Ticker \cup {NoTicker}]
    BY Zenon DEF NoCancel
  <2>3. /\ workerQueue \in [Worker -> Seq(Event)] /\ statusQueue \in Seq(StatusOf)
        /\ orders \in Seq([client : Client, ticker : Ticker, price : Price])
        /\ replies \in [1 .. MAX_ORDERS -> Seq(ReplyOf)] /\ asked \subseteq Nat
    BY DEF Init
  <2> QED
    BY <2>1, <2>2, <2>3, Zenon DEF Init, TypeOK, RecordOf
<1>4. \A i \in Index : ~InWorker(i) /\ ~InStatus(i) /\ ~InNetwork(i) /\ ~InGateway(i) /\ ~Freeing(i)
  BY DEF Init, InWorker, InStatus, InNetwork, InGateway, Freeing
<1>5. IdsConserved
  <2>1. \A x \in Id : pool[x] = IF x.gen = 1 THEN 1 ELSE 0
    BY Zenon DEF Init
  <2>2. \A x, y \in Id : x.index = y.index /\ x.gen = y.gen => x = y
    BY DEF Id
  <2>3. \A i \in Index : Free(i)
    <3> SUFFICES ASSUME NEW i \in Index PROVE Free(i)
      BY Zenon
    <3> DEFINE x == [index |-> i, gen |-> 1]
    <3>1. x \in Id /\ x.index = i /\ x.gen = 1
      BY MaxGenAssumption DEF Id, Gen
    <3> HIDE DEF x
    <3>2. pool[x] > 0
      BY <2>1, <3>1
    <3> QED
      BY Zenon, <3>1, <3>2 DEF Free
  <2>4. \A x \in Id : pool[x] <= 1 /\ (pool[x] > 0 => x.gen = 1)
    BY <2>1
  <2>5. \A x, y \in Id : x.index = y.index /\ pool[x] > 0 /\ pool[y] > 0 => x = y
    BY <2>2, <2>4, Zenon
  <2> QED
    BY <1>2, <1>4, <2>3, <2>4, <2>5, Zenon DEF IdsConserved
<1>6. MessageInv
  BY DEF Init, MessageInv
<1>7. QueuesDistinct /\ OneCarrier
  BY <1>4 DEF Init, QueuesDistinct, OneCarrier
<1>8. RecordInv
  BY Zenon, <1>2 DEF Init, RecordInv
<1>9. RepliesInv
  BY <1>2, GatewayAssumption DEF Init, RepliesInv
<1>10. StatusToOwner /\ Lifecycle
  BY DEF Init, StatusToOwner, Lifecycle
<1> QED
  BY Zenon, <1>3, <1>5, <1>6, <1>7, <1>8, <1>9, <1>10 DEF IInv

\* Every step of the three threads keeps the invariant, given that a client asks
\* once for a cancel.
THEOREM Invariance == Spec => []IInv
<1>1. ASSUME IInv, [Next]_vars PROVE IInv'
  <2>1. Rest'
    <3>1. ASSUME NEW c \in Client, NEW t \in Ticker, NEW p \in Price,
                 RejectNew(c, t, p) \/ \E id \in Id : newOrder(c, t, p, id)
          PROVE  Rest'
      BY Zenon, <1>1, <3>1, RejectKeeps, NewKeeps
    <3>2. ASSUME NEW c \in Client, NEW t \in Ticker, NEW id \in Id,
                 CancelOnce(id, t), CancelCheck(c, id, t)
          PROVE  Rest'
      BY Zenon, <1>1, <3>2, CheckKeeps
    <3>3. CASE CancelPost
      BY Zenon, <1>1, <3>3, PostKeeps
    <3>4. ASSUME NEW w \in Worker, Match(w) \/ Cancel(w) PROVE Rest'
      BY Zenon, <1>1, <3>4, MatchKeeps, CancelKeeps
    <3>5. CASE GatewayReply
      BY Zenon, <1>1, <3>5, ReplyKeeps
    <3>6. CASE GatewayUpdate
      BY Zenon, <1>1, <3>6, UpdateKeeps
    <3>7. CASE GatewayFinish
      BY Zenon, <1>1, <3>7, FinishKeeps
    <3>8. CASE RequestStop \/ CloseGateway \/ UNCHANGED vars
      <4>1. UNCHANGED <<records, pool, network, workerQueue, statusQueue, gateway, history>>
        BY Zenon, <3>8 DEF RequestStop, CloseGateway, vars, queues
      <4> QED
        BY Zenon, <1>1, <4>1, StopKeeps
    <3> QED
      BY <1>1, <3>1, <3>2, <3>3, <3>4, <3>5, <3>6, <3>7, <3>8, Zenon DEF Next, NetworkNext, ServerNext
  <2>2. TypeOK'
    BY Zenon, <1>1, TypeKept
  <2> QED
    BY <2>1, <2>2, Zenon DEF Rest, IInv
<1> QED
  BY <1>1, InitHolds, PTL DEF Spec

\* The queues, the records and the places of the three threads keep their types.
THEOREM TypesKept == Spec => []TypeOK
<1>1. IInv => TypeOK
  BY Zenon DEF IInv
<1> QED
  BY <1>1, Invariance, PTL

\* Two open orders never share a record and no id is lost: an id is free once,
\* or its record is in use, or the gateway thread is about to release it.
THEOREM IdsAreConserved == Spec => []IdsConserved
<1>1. IInv => IdsConserved
  BY Zenon DEF IInv
<1> QED
  BY <1>1, Invariance, PTL

\* Events and statuses in flight belong to the order that owns the record they
\* name, so post(InternalOrderStatus) may look at the index only.
THEOREM InFlightBelongs == Spec => []InFlightIsCurrent
<1>1. IInv => InFlightIsCurrent
  BY Zenon DEF IInv, MessageInv, EventOK, StatusOK, InFlightIsCurrent
<1> QED
  BY <1>1, Invariance, PTL

\* Every status reaches the client that sent the order.
THEOREM OwnersAreTold == Spec => []StatusToOwner
<1>1. IInv => StatusToOwner
  BY Zenon DEF IInv
<1> QED
  BY <1>1, Invariance, PTL

\* The statuses of an order come in the order of its life: refused or filled, or
\* rested and then reported cancelled, once.
THEOREM LivesAreTold == Spec => []Lifecycle
<1>1. IInv => Lifecycle
  BY Zenon DEF IInv
<1> QED
  BY <1>1, Invariance, PTL

\* A cancel reaches the book with the id the book gave to that order.
THEOREM CancelsCarryBookId == Spec => []BookIdPublished
<1>1. IInv => BookIdPublished
  BY Zenon DEF IInv, MessageInv, EventOK, BookIdPublished
<1> QED
  BY <1>1, Invariance, PTL
-----------------------------------------------------------------------------
\* Record i was given to an order.
Given(i) == IsValid(records[i].systemOId)

\* What the clients of closed records were told: the invariant behind
\* ReusedOnlyOnceTold, on top of IInv.
EndInv ==
    /\ \A i \in Index : Given(i) =>
         /\ records[i].externalOId \in 1 .. Len(orders)
         /\ records[i].state = "Closed" => ToldItsEnd(i)
    /\ \A i, j \in Index :
         Given(i) /\ Given(j) /\ records[i].externalOId = records[j].externalOId => i = j
    /\ gpc = "update" /\ handled.state \in Closing => ToldItsEnd(handled.id.index)

\* The status the gateway thread handles names a record in use.
LEMMA HandledInUse ==
    ASSUME IInv, gpc = "update"
    PROVE  handled.id.index \in Index /\ InUse(handled.id.index)
<1>1. handled \in StatusOf /\ handled.id \in Id /\ handled.id.index \in Index /\ StatusOK(handled)
  BY Zenon DEF IInv, MessageInv, StatusOf, Id
<1> QED
  BY Zenon, <1>1, IdFacts DEF StatusOK, OwnRecord, InUse

\* A step that leaves the statuses of earlier orders and the order and state of
\* the records alone.
LEMMA EndFrame ==
    ASSUME IInv, EndInv, UNCHANGED gateway,
           \A n \in 1 .. Len(orders) : n \in 1 .. Len(orders') /\ replies'[n] = replies[n],
           NEW S \in SUBSET Index,
           \A i \in S : /\ SameOrder(records'[i], records[i])
                        /\ records'[i].state = "Closed" => records[i].state = "Closed",
           gpc = "update" => handled.id.index \in S
    PROVE  /\ \A i \in S : Given(i)' =>
                /\ records'[i].externalOId \in 1 .. Len(orders')
                /\ records'[i].state = "Closed" => ToldItsEnd(i)'
           /\ \A i, j \in S :
                Given(i)' /\ Given(j)' /\ records'[i].externalOId = records'[j].externalOId => i = j
           /\ gpc' = "update" /\ handled'.state \in Closing => ToldItsEnd(handled.id.index)'
<1>1. \A i \in S : /\ i \in Index /\ (Given(i)' <=> Given(i))
                   /\ records'[i].externalOId = records[i].externalOId
  BY Zenon DEF SameOrder, Given
<1>2. \A i \in S : Given(i) => (ToldItsEnd(i)' <=> ToldItsEnd(i))
  BY Zenon, <1>1 DEF EndInv, ToldItsEnd
<1>3. gpc' = gpc /\ handled' = handled
  BY Zenon DEF gateway
<1>4. gpc = "update" => Given(handled.id.index)
  BY Zenon, HandledInUse DEF InUse, Given
<1>5. \A i \in S : Given(i)' =>
         /\ records'[i].externalOId \in 1 .. Len(orders')
         /\ records'[i].state = "Closed" => ToldItsEnd(i)'
  BY Zenon, <1>1, <1>2 DEF EndInv
<1>6. \A i, j \in S :
         Given(i)' /\ Given(j)' /\ records'[i].externalOId = records'[j].externalOId => i = j
  BY Zenon, <1>1 DEF EndInv
<1>7. gpc' = "update" /\ handled'.state \in Closing => ToldItsEnd(handled.id.index)'
  BY Zenon, <1>2, <1>3, <1>4 DEF EndInv
<1> QED
  BY Zenon, <1>5, <1>6, <1>7

\* A step that leaves the records, the gateway thread and the replies alone.
LEMMA EndQuiet ==
    ASSUME IInv, EndInv, UNCHANGED <<records, gateway, orders, replies>>
    PROVE  EndInv'
<1>1. Index \in SUBSET Index /\ (gpc = "update" => handled.id.index \in Index)
  BY Zenon, HandledInUse
<1>2. /\ \A n \in 1 .. Len(orders) : n \in 1 .. Len(orders') /\ replies'[n] = replies[n]
      /\ \A i \in Index : /\ SameOrder(records'[i], records[i])
                          /\ records'[i].state = "Closed" => records[i].state = "Closed"
  BY Zenon DEF SameOrder
<1>3. UNCHANGED gateway
  BY Zenon
<1> QED
  BY Zenon, <1>1, <1>2, <1>3, EndFrame DEF EndInv

\* An order that arrives leaves earlier orders and their statuses alone.
LEMMA EarlierOrders ==
    ASSUME IInv, NEW c \in Client, NEW t \in Ticker, NEW p \in Price, Arrives(c, t, p)
    PROVE  \A n \in 1 .. Len(orders) : n \in 1 .. Len(orders') /\ n # NewId /\ n \in 1 .. MAX_ORDERS
<1>1. Len(orders) \in Nat /\ Len(orders') = Len(orders) + 1 /\ NewId = Len(orders) + 1 /\ NewId \in 1 .. MAX_ORDERS
  BY Zenon, ArrivesFacts DEF IInv
<1> QED
  BY <1>1, GatewayAssumption

\* A refused order has no record.
LEMMA EndReject ==
    ASSUME IInv, EndInv, NEW c \in Client, NEW t \in Ticker, NEW p \in Price, RejectNew(c, t, p)
    PROVE  EndInv'
<1>1. /\ TypeOK /\ Arrives(c, t, p) /\ UNCHANGED records /\ UNCHANGED gateway
      /\ Reply(NewId, c, InvalidId, "Rejected", NewId)
  BY Zenon DEF IInv, RejectNew
<1>2. NewId \in 1 .. MAX_ORDERS /\ NewId \in Nat
  BY <1>1, ArrivesFacts
<1>3. \A n \in 1 .. MAX_ORDERS : n # NewId => replies'[n] = replies[n]
  BY Zenon, <1>1, <1>2, ReplyFacts DEF ReplyEffect, Closing
<1>4. \A n \in 1 .. Len(orders) : n \in 1 .. Len(orders') /\ replies'[n] = replies[n]
  BY Zenon, <1>1, <1>3, EarlierOrders
<1>5. Index \in SUBSET Index /\ (gpc = "update" => handled.id.index \in Index)
  BY Zenon, HandledInUse
<1>6. \A i \in Index : /\ SameOrder(records'[i], records[i])
                       /\ records'[i].state = "Closed" => records[i].state = "Closed"
  BY Zenon, <1>1 DEF SameOrder
<1> QED
  BY Zenon, <1>1, <1>4, <1>5, <1>6, EndFrame DEF EndInv

\* A new order takes the record of an order whose client was told its end.
LEMMA EndNew ==
    ASSUME IInv, EndInv, NEW c \in Client, NEW t \in Ticker, NEW p \in Price, NEW id \in Id,
           newOrder(c, t, p, id)
    PROVE  /\ EndInv'
           /\ id.index \in Index /\ (Given(id.index) => ToldItsEnd(id.index))
           /\ \A i \in Index : i # id.index => records'[i] = records[i]
<1> DEFINE x == id.index
           S == Index \ {x}
<1>1. Arrives(c, t, p) /\ UNCHANGED gateway /\ UNCHANGED replies /\ x \in Index
  BY Zenon DEF newOrder, Id
<1>2. NewEffect(c, t, p, id)
  BY Zenon, NewFacts DEF IInv
<1>3. /\ records'[x].externalOId = NewId /\ records'[x].state = "New"
      /\ \A i \in Index : i # x => records'[i] = records[i]
  BY <1>2 DEF NewEffect
<1>4. Free(x)
  BY Zenon, <1>2 DEF NewEffect, Free
<1>5. ~InUse(x)
  BY Zenon, <1>1, <1>4 DEF IInv, IdsConserved
<1>6. Given(x) => ToldItsEnd(x)
  BY Zenon, <1>1, <1>5 DEF InUse, Given, EndInv
<1>7. NewId \in 1 .. Len(orders')
  <2>1. Len(orders) \in Nat /\ Len(orders') = NewId /\ NewId = Len(orders) + 1
    BY Zenon, <1>1, ArrivesFacts DEF IInv
  <2> QED
    BY <2>1
<1>8. \A n \in 1 .. Len(orders) : n \in 1 .. Len(orders') /\ replies'[n] = replies[n] /\ n # NewId
  BY Zenon, <1>1, EarlierOrders
<1>9. S \in SUBSET Index /\ (gpc = "update" => handled.id.index \in S)
  BY Zenon, <1>5, HandledInUse
<1>10. \A i \in S : /\ SameOrder(records'[i], records[i])
                    /\ records'[i].state = "Closed" => records[i].state = "Closed"
  BY Zenon, <1>3 DEF SameOrder
<1>11. /\ \A i \in S : Given(i)' =>
             /\ records'[i].externalOId \in 1 .. Len(orders')
             /\ records'[i].state = "Closed" => ToldItsEnd(i)'
       /\ \A i, j \in S :
             Given(i)' /\ Given(j)' /\ records'[i].externalOId = records'[j].externalOId => i = j
       /\ gpc' = "update" /\ handled'.state \in Closing => ToldItsEnd(handled.id.index)'
  BY Zenon, <1>1, <1>8, <1>9, <1>10, EndFrame
<1>12. \A i \in S : Given(i)' => records'[i].externalOId # NewId
  BY Zenon, <1>3, <1>8 DEF Given, EndInv
<1>13. \A i \in Index : i = x \/ i \in S
  BY Zenon
<1>14. \A i \in Index : Given(i)' =>
         /\ records'[i].externalOId \in 1 .. Len(orders')
         /\ records'[i].state = "Closed" => ToldItsEnd(i)'
  BY Zenon, <1>3, <1>7, <1>11, <1>13
<1> HIDE DEF S, x
<1>15. \A i, j \in Index :
         Given(i)' /\ Given(j)' /\ records'[i].externalOId = records'[j].externalOId => i = j
  BY Zenon, <1>3, <1>11, <1>12, <1>13
<1>16. EndInv'
  BY Zenon, <1>11, <1>14, <1>15 DEF EndInv
<1> QED
  BY Zenon, <1>1, <1>3, <1>6, <1>16 DEF x

\* The gateway thread tells the client of a record in use; what the clients of
\* closed records were told last stays.
LEMMA EndReply ==
    ASSUME IInv, EndInv, GatewayReply
    PROVE  EndInv'
<1>a. statusQueue \in Seq(StatusOf) /\ statusQueue # <<>>
  BY Zenon DEF IInv, TypeOK, GatewayReply
<1>b. PICK s \in StatusOf : s = Head(statusQueue)
  BY Zenon, <1>a, TailFacts
<1>c. PICK i : i = s.id.index
  BY Zenon
<1>d. PICK n : n = records[i].externalOId
  BY Zenon
<1>1. /\ TypeOK /\ gpc' = "update" /\ handled' = s
      /\ Reply(n, records[i].clientId, records[i].systemOId, s.state, s.about)
      /\ UNCHANGED <<records, orders>>
  BY Zenon, <1>b, <1>c, <1>d DEF IInv, GatewayReply
<1>2. s = statusQueue[1] /\ 1 \in 1 .. Len(statusQueue)
  BY Zenon, <1>a, <1>b, TailFacts
<1>3. /\ s.id \in Id /\ i \in Index /\ s.state \in Closing \cup {"Accepted", "Partial"}
      /\ s.about \in Nat /\ StatusOK(s)
  BY Zenon, <1>2, <1>c DEF StatusOf, Id, IInv, MessageInv
<1>4. records[i].systemOId = s.id /\ Given(i) /\ records[i].state # "Closed"
  BY Zenon, <1>c, <1>3, IdFacts DEF StatusOK, OwnRecord, Given
<1>5. n \in 1 .. Len(orders) /\ \A x \in 1 .. Len(orders) : x \in 1 .. MAX_ORDERS
  <2>1. n \in 1 .. Len(orders)
    BY Zenon, <1>3, <1>4, <1>d DEF EndInv
  <2>2. Len(orders) \in Nat /\ Len(orders) <= MAX_ORDERS
    BY DEF IInv, TypeOK, RepliesInv
  <2> QED
    BY <2>1, <2>2, GatewayAssumption
<1>6. records[i].clientId \in Client \cup {NoClient} /\ records[i].systemOId \in Id \cup {InvalidId}
  BY Zenon, <1>1, <1>3 DEF TypeOK
<1>7. ReplyEffect(n, records[i].clientId, records[i].systemOId, s.state, s.about)
  BY Zenon, <1>1, <1>3, <1>5, <1>6, ReplyFacts
<1>8. /\ \A x \in 1 .. MAX_ORDERS : x # n => replies'[x] = replies[x]
      /\ Len(replies[n]) \in Nat /\ Len(replies'[n]) = Len(replies[n]) + 1
      /\ replies'[n][Len(replies[n]) + 1].state = s.state
  BY <1>7 DEF ReplyEffect
<1>9. replies'[n] # <<>> /\ replies'[n][Len(replies'[n])].state = s.state
  BY <1>8
<1>10. s.state \in Closing => ToldItsEnd(handled.id.index)'
  BY Zenon, <1>1, <1>9, <1>c, <1>d DEF ToldItsEnd
<1>11. ASSUME NEW j \in Index, Given(j), records[j].state = "Closed" PROVE ToldItsEnd(j)'
  <2>1. j # i /\ records[j].externalOId # n /\ records[j].externalOId \in 1 .. MAX_ORDERS /\ ToldItsEnd(j)
    BY Zenon, <1>3, <1>4, <1>5, <1>11, <1>d DEF EndInv
  <2> QED
    BY Zenon, <1>1, <1>8, <2>1 DEF ToldItsEnd
<1>12. \A j \in Index : records'[j] = records[j] /\ (Given(j)' <=> Given(j))
  BY Zenon, <1>1 DEF Given
<1>13. \A j \in Index : Given(j)' =>
         /\ records'[j].externalOId \in 1 .. Len(orders')
         /\ records'[j].state = "Closed" => ToldItsEnd(j)'
  BY Zenon, <1>1, <1>11, <1>12 DEF EndInv
<1>14. \A j, k \in Index :
         Given(j)' /\ Given(k)' /\ records'[j].externalOId = records'[k].externalOId => j = k
  BY Zenon, <1>12 DEF EndInv
<1> QED
  BY Zenon, <1>1, <1>10, <1>13, <1>14 DEF EndInv

\* A record is closed after its client was told.
LEMMA EndUpdate ==
    ASSUME IInv, EndInv, GatewayUpdate
    PROVE  EndInv'
<1>1. PICK i : i = handled.id.index
  BY Zenon
<1>2. /\ i \in Index /\ SameOrder(records'[i], records[i])
      /\ \A j \in Index : j # i => records'[j] = records[j]
      /\ handled.state \notin Closing => records'[i].state = records[i].state
  BY Zenon, <1>1, UpdateFacts
<1>3. gpc = "update" /\ gpc' = "finish" /\ UNCHANGED <<orders, replies>>
  BY Zenon DEF GatewayUpdate, history
<1>4. handled.state \in Closing => ToldItsEnd(i)
  BY Zenon, <1>1, <1>3 DEF EndInv
<1>5. \A j \in Index : SameOrder(records'[j], records[j])
  BY Zenon, <1>2 DEF SameOrder
<1>6. \A j \in Index : /\ Given(j)' <=> Given(j)
                       /\ ToldItsEnd(j)' <=> ToldItsEnd(j)
                       /\ records'[j].externalOId = records[j].externalOId
  BY Zenon, <1>3, <1>5 DEF SameOrder, Given, ToldItsEnd
<1>7. \A j \in Index : Given(j)' =>
         /\ records'[j].externalOId \in 1 .. Len(orders')
         /\ records'[j].state = "Closed" => ToldItsEnd(j)'
  BY Zenon, <1>2, <1>3, <1>4, <1>6 DEF EndInv
<1>8. \A j, k \in Index :
         Given(j)' /\ Given(k)' /\ records'[j].externalOId = records'[k].externalOId => j = k
  BY Zenon, <1>6 DEF EndInv
<1>9. gpc' # "update"
  BY <1>3
<1> QED
  BY Zenon, <1>7, <1>8, <1>9 DEF EndInv

\* The second write leaves closed records closed and accepts others.
LEMMA EndFinish ==
    ASSUME IInv, EndInv, GatewayFinish
    PROVE  EndInv'
<1>1. PICK i : i = handled.id.index
  BY Zenon
<1>2. /\ i \in Index /\ \A j \in Index : j # i => records'[j] = records[j]
      /\ \/ records'[i] = records[i]
         \/ SameOrder(records'[i], records[i]) /\ records'[i].state = "Accepted"
  BY Zenon, <1>1, FinishFacts
<1>3. gpc' = "idle" /\ UNCHANGED <<orders, replies>>
  BY Zenon DEF GatewayFinish, history
<1>4. \A j \in Index : /\ SameOrder(records'[j], records[j])
                       /\ records'[j].state = "Closed" => records[j].state = "Closed"
  BY <1>2 DEF SameOrder
<1>5. \A j \in Index : /\ Given(j)' <=> Given(j)
                       /\ ToldItsEnd(j)' <=> ToldItsEnd(j)
                       /\ records'[j].externalOId = records[j].externalOId
  BY Zenon, <1>3, <1>4 DEF SameOrder, Given, ToldItsEnd
<1>6. \A j \in Index : Given(j)' =>
         /\ records'[j].externalOId \in 1 .. Len(orders')
         /\ records'[j].state = "Closed" => ToldItsEnd(j)'
  BY Zenon, <1>3, <1>4, <1>5 DEF EndInv
<1>7. \A j, k \in Index :
         Given(j)' /\ Given(k)' /\ records'[j].externalOId = records'[k].externalOId => j = k
  BY Zenon, <1>5 DEF EndInv
<1>8. gpc' # "update"
  BY <1>3
<1> QED
  BY Zenon, <1>6, <1>7, <1>8 DEF EndInv

\* EndInv holds in every reachable state.
LEMMA EndsAreTold == Spec => []EndInv
<1>1. Init => EndInv
  <2> SUFFICES ASSUME Init PROVE EndInv
    BY Zenon
  <2>1. \A i \in Index : ~Given(i)
    <3>1. NoRecord.systemOId = InvalidId /\ ~IsValid(InvalidId)
      BY Zenon, IdFacts DEF NoRecord
    <3> QED
      BY Zenon, <3>1 DEF Init, Given
  <2>2. gpc # "update"
    BY DEF Init
  <2> QED
    BY Zenon, <2>1, <2>2 DEF EndInv
<1>2. ASSUME IInv, EndInv, [Next]_vars PROVE EndInv'
  <2>1. ASSUME NEW c \in Client, NEW t \in Ticker, NEW p \in Price,
               RejectNew(c, t, p) \/ \E id \in Id : newOrder(c, t, p, id)
        PROVE  EndInv'
    BY Zenon, <1>2, <2>1, EndReject, EndNew
  <2>2. ASSUME NEW c \in Client, NEW t \in Ticker, NEW id \in Id, CancelCheck(c, id, t)
        PROVE  EndInv'
    BY Zenon, <1>2, <2>2, EndQuiet DEF CancelCheck, history
  <2>3. CASE CancelPost
    BY Zenon, <1>2, <2>3, EndQuiet DEF CancelPost
  <2>4. ASSUME NEW w \in Worker, Match(w) \/ Cancel(w) PROVE EndInv'
    BY Zenon, <1>2, <2>4, EndQuiet DEF Match, Cancel, Takes, history
  <2>5. CASE GatewayReply \/ GatewayUpdate \/ GatewayFinish
    BY Zenon, <1>2, <2>5, EndReply, EndUpdate, EndFinish
  <2>6. CASE RequestStop \/ CloseGateway \/ UNCHANGED vars
    BY Zenon, <1>2, <2>6, EndQuiet DEF RequestStop, CloseGateway, vars, history
  <2> QED
    BY <1>2, <2>1, <2>2, <2>3, <2>4, <2>5, <2>6, Zenon DEF Next, NetworkNext, ServerNext
<1> QED
  BY <1>1, <1>2, Invariance, PTL DEF Spec

\* A record passes to another order only after the client of its order was told
\* that the order is over.
THEOREM ReuseIsTold == Spec => ReusedOnlyOnceTold
<1> DEFINE Step == \A i \in Index :
             IsValid(records[i].systemOId) /\ records'[i].externalOId # records[i].externalOId
                 => ToldItsEnd(i)
<1>1. ASSUME IInv, EndInv, [Next]_vars PROVE Step
  <2>1. ASSUME NEW c \in Client, NEW t \in Ticker, NEW p \in Price, NEW id \in Id,
               newOrder(c, t, p, id)
        PROVE  Step
    BY Zenon, <1>1, <2>1, EndNew DEF Given
  <2>2. CASE UNCHANGED records
    BY Zenon, <2>2
  <2>3. CASE GatewayUpdate
    <3>1. \A j \in Index : records'[j].externalOId = records[j].externalOId
      BY Zenon, <1>1, <2>3, UpdateFacts DEF SameOrder
    <3> QED
      BY Zenon, <3>1
  <2>4. CASE GatewayFinish
    <3>1. \A j \in Index : records'[j].externalOId = records[j].externalOId
      BY Zenon, <1>1, <2>4, FinishFacts DEF SameOrder
    <3> QED
      BY Zenon, <3>1
  <2>5. \/ \E c \in Client, t \in Ticker, p \in Price, id \in Id : newOrder(c, t, p, id)
        \/ UNCHANGED records \/ GatewayUpdate \/ GatewayFinish
    BY <1>1, Zenon DEF Next, NetworkNext, ServerNext, RejectNew, CancelCheck, CancelPost, Match,
       Cancel, Takes, GatewayReply, RequestStop, CloseGateway, vars
  <2> QED
    BY Zenon, <2>1, <2>2, <2>3, <2>4, <2>5
<1>2. IInv /\ EndInv /\ [Next]_vars => [Step]_vars
  BY Zenon, <1>1
<1> QED
  BY <1>2, Invariance, EndsAreTold, PTL DEF Spec, ReusedOnlyOnceTold
=============================================================================
