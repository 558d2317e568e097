---------------------------- MODULE TradeEngine -----------------------------
(***************************************************************************)
(* The client's TradeEngine (client/src/execution/trade_engine.hpp) against*)
(* the server's gateway.  The worker thread places orders and cancels; the *)
(* network thread handles the statuses, which name an order by the client's*)
(* id and carry the system id a cancel has to name.                        *)
(*                                                                         *)
(* The server answers as OrderGateway does: an order gets at most one first*)
(* status, and after Accepted or Partial one more if a cancel arrives, and *)
(* not so early that it is dropped; an order it drops (price beyond the    *)
(* book, unknown ticker, full book) gets none.  Orders are known by their  *)
(* ordinal n, which the code does not have and only the properties use.    *)
(***************************************************************************)
EXTENDS SlotId, Sequences

CONSTANTS
  IDS,          \* ids of the client's pool: indices 1 .. IDS
  SYSTEM_IDS,   \* ids of the server's pool
  CANCELS,      \* capacity of toCancel_ (1024 in the program)
  MAX_PLACED    \* bound: orders placed

EngineConstants == {IDS, SYSTEM_IDS, CANCELS, MAX_PLACED} \subseteq Nat

ASSUME EngineAssumption == EngineConstants

VARIABLES
  wpc,        \* worker: top of the loop, between sendCancel and sendNew, done
  trading, tstop,
  freeIds,       \* free ids of idPool_
  torders,     \* orders_: the order, its id, and sysOId
  toCancel,   \* indices queued for the worker
  stuck,      \* a status handler called TradeEngine::stop and joins the worker
  placed,     \* history: orders placed
  cancelled,  \* history: how many cancels were sent for each order
  tclosed,     \* history: orders whose closing status was handled
  up, down,   \* messages to the server, statuses to the client
  systemPool, trecords,   \* the gateway's free ids, and its records in use
  systemId    \* history: the system id given to each order

client == <<wpc, trading, tstop, freeIds, torders, toCancel, stuck, placed, cancelled, tclosed>>
server == <<systemPool, trecords, systemId>>
engineVars == <<client, server, up, down>>

EngineId(n) == [index : 1..n, gen : Gen]
NoOrder == [n |-> 0, id |-> InvalidId, sysOId |-> InvalidId]
Final == {"Full", "Cancelled", "Rejected"}

UpMessage == [action : {"New", "Cancel"}, id : EngineId(IDS) \cup EngineId(SYSTEM_IDS), n : 1..MAX_PLACED]
DownStatus == [n : 1..MAX_PLACED, id : EngineId(IDS), sysOId : EngineId(SYSTEM_IDS) \cup {InvalidId},
               state : {"Accepted", "Partial"} \cup Final]

\* Of a record: no status sent, one sent and not yet stored, stored, a cancel
\* at the book, the last status sent.
RecordState == {"New", "Accepting", "Accepted", "Cancelling", "Closing"}

EngineTypeOK ==
  /\ wpc \in {"top", "new", "done"} /\ trading \in BOOLEAN /\ tstop \in BOOLEAN /\ stuck \in BOOLEAN
  /\ freeIds \subseteq EngineId(IDS) /\ systemPool \subseteq EngineId(SYSTEM_IDS)
  /\ torders \in [1..IDS -> [n : 0..placed, id : EngineId(IDS) \cup {InvalidId},
                            sysOId : EngineId(SYSTEM_IDS) \cup EngineId(IDS) \cup {InvalidId}]]
  /\ up \in Seq(UpMessage) /\ down \in Seq(DownStatus)
  /\ toCancel \in Seq(1..IDS) /\ Len(toCancel) <= CANCELS
  /\ placed \in 0..MAX_PLACED /\ tclosed \subseteq 1..placed
  /\ cancelled \in [1..MAX_PLACED -> Nat]
  /\ trecords \subseteq [order : UpMessage, id : EngineId(SYSTEM_IDS), state : RecordState]
  /\ systemId \in [1..MAX_PLACED -> EngineId(SYSTEM_IDS) \cup {InvalidId}]

EngineInit ==
  /\ wpc = "top" /\ trading = FALSE /\ tstop = FALSE /\ stuck = FALSE
  /\ freeIds = {Make(i, 1) : i \in 1..IDS}
  /\ torders = [i \in 1..IDS |-> NoOrder]
  /\ toCancel = <<>> /\ placed = 0 /\ tclosed = {}
  /\ cancelled = [n \in 1..MAX_PLACED |-> 0]
  /\ up = <<>> /\ down = <<>>
  /\ systemPool = {Make(i, 1) : i \in 1..SYSTEM_IDS}
  /\ trecords = {} /\ systemId = [n \in 1..MAX_PLACED |-> InvalidId]

-----------------------------------------------------------------------------
(* Commands *)

tradeStart ==
  /\ ~trading /\ trading' = TRUE
  /\ UNCHANGED <<wpc, tstop, freeIds, torders, toCancel, stuck, placed, cancelled, tclosed, server, up, down>>

tradeStop ==
  /\ trading /\ trading' = FALSE
  /\ UNCHANGED <<wpc, tstop, freeIds, torders, toCancel, stuck, placed, cancelled, tclosed, server, up, down>>

StopEngine ==
  /\ ~tstop /\ tstop' = TRUE
  /\ UNCHANGED <<wpc, trading, freeIds, torders, toCancel, stuck, placed, cancelled, tclosed, server, up, down>>

-----------------------------------------------------------------------------
(* The worker's tradeLoop *)

LoopEnds ==
  /\ wpc = "top" /\ tstop /\ wpc' = "done"
  /\ UNCHANGED <<trading, tstop, freeIds, torders, toCancel, stuck, placed, cancelled, tclosed, server, up, down>>

FaultySendCancelTwice ==
  /\ wpc = "top" /\ ~tstop /\ trading /\ toCancel # <<>>
  /\ LET r == torders[Head(toCancel)]
     IN  /\ cancelled[r.n] < 3
         /\ up' = Append(up, [action |-> "Cancel", id |-> r.sysOId, n |-> r.n])
         /\ cancelled' = [cancelled EXCEPT ![r.n] = @ + 1]
  /\ UNCHANGED <<wpc, trading, tstop, freeIds, torders, toCancel, stuck, placed, tclosed, server, down>>

sendCancel ==
  /\ wpc = "top" /\ ~tstop /\ trading
  /\ toCancel # <<>>
  /\ toCancel' = Tail(toCancel)
  /\ LET r == torders[Head(toCancel)]
     IN  /\ up' = Append(up, [action |-> "Cancel", id |-> r.sysOId, n |-> r.n])
         /\ cancelled' = [cancelled EXCEPT ![r.n] = @ + 1]
  /\ UNCHANGED <<wpc, trading, tstop, freeIds, torders, stuck, placed, tclosed, server, down>>

\* sendCancel finds its queue empty: sendNew follows, statuses may come between.
NothingToCancel ==
  /\ wpc = "top" /\ ~tstop /\ trading /\ toCancel = <<>>
  /\ wpc' = "new"
  /\ UNCHANGED <<trading, tstop, freeIds, torders, toCancel, stuck, placed, cancelled, tclosed, server, up, down>>

sendNew ==
  /\ wpc = "new" /\ placed < MAX_PLACED
  /\ \E id \in freeIds :
       /\ freeIds' = freeIds \ {id}
       /\ torders' = [torders EXCEPT ![id.index] = [n |-> placed + 1, id |-> id, sysOId |-> id]]
       /\ up' = Append(up, [action |-> "New", id |-> id, n |-> placed + 1])
  /\ placed' = placed + 1
  /\ wpc' = "top"
  /\ UNCHANGED <<trading, tstop, toCancel, stuck, cancelled, tclosed, server, down>>

\* No id left: stop() joins nothing, being on the worker itself, and the loop ends.
OutOfIds ==
  /\ wpc = "new" /\ freeIds = {}
  /\ wpc' = "done"
  /\ UNCHANGED <<trading, tstop, freeIds, torders, toCancel, stuck, placed, cancelled, tclosed, server, up, down>>

-----------------------------------------------------------------------------
(* post(OrderStatus), on the network thread *)

ReleaseOwn(id) == freeIds \cup {NextGen(id)}

\* A stop request, or an id or record that is not valid: the latter calls
\* stop(), which joins the worker and so holds up the network thread.
StatusIgnored(s) ==
  /\ tstop \/ ~IsValid(s.id) \/ ~IsValid(torders[s.id.index].sysOId)
  /\ stuck' = ~tstop
  /\ UNCHANGED <<torders, toCancel, freeIds, tclosed>>

\* Accepted or Partial: the record learns the system id; of the accepted orders
\* every other one, by chance, is queued to be cancelled, if the queue has room.
StatusOpens(s) ==
  /\ ~tstop /\ IsValid(s.id) /\ IsValid(torders[s.id.index].sysOId)
  /\ torders' = [torders EXCEPT ![s.id.index].sysOId = s.sysOId]
  /\ \/ s.state = "Accepted" /\ Len(toCancel) < CANCELS /\ toCancel' = Append(toCancel, s.id.index)
     \/ s.state \in {"Accepted", "Partial"} /\ UNCHANGED toCancel
  /\ UNCHANGED <<freeIds, tclosed, stuck>>

StatusCloses(s) ==
  /\ ~tstop /\ IsValid(s.id) /\ IsValid(torders[s.id.index].sysOId)
  /\ s.state \in Final
  /\ torders' = [torders EXCEPT ![s.id.index].sysOId = s.sysOId]
  /\ freeIds' = ReleaseOwn(s.id)
  /\ tclosed' = tclosed \cup {s.n}
  /\ UNCHANGED <<toCancel, stuck>>

HandleStatus ==
  /\ ~stuck /\ down # <<>>
  /\ down' = Tail(down)
  /\ StatusIgnored(Head(down)) \/ StatusOpens(Head(down)) \/ StatusCloses(Head(down))
  /\ UNCHANGED <<wpc, trading, tstop, placed, cancelled, server, up>>

-----------------------------------------------------------------------------
(* The server *)

Status(m, sysOId, state) == [n |-> m.n, id |-> m.id, sysOId |-> sysOId, state |-> state]

Receive(action) == up # <<>> /\ Head(up).action = action /\ up' = Tail(up)

\* No system id left, or price 0.
GatewayRejects ==
  /\ Receive("New")
  /\ down' = Append(down, Status(Head(up), InvalidId, "Rejected"))
  /\ UNCHANGED <<client, server>>

GatewayAccepts ==
  /\ Receive("New")
  /\ \E id \in systemPool :
       /\ systemPool' = systemPool \ {id}
       /\ trecords' = trecords \cup {[order |-> Head(up), id |-> id, state |-> "New"]}
       /\ systemId' = [systemId EXCEPT ![Head(up).n] = id]
  /\ UNCHANGED <<client, down>>

\* The gateway handles one answer of the book at a time, on its own thread.
GatewayIdle == \A r \in trecords : r.state \notin {"Accepting", "Closing"}

\* The first status of an order, if it gets one, and the answer to its cancel.
\* The client is told first ...
BookAnswers ==
  /\ GatewayIdle
  /\ \E r \in trecords : \E state \in {"Accepted", "Partial"} \cup Final :
       /\ \/ r.state = "New" /\ state \in {"Accepted", "Partial", "Full"}
          \/ r.state = "Cancelling" /\ state \in {"Cancelled", "Rejected"}
       /\ down' = Append(down, Status(r.order, r.id, state))
       /\ trecords' = (trecords \ {r}) \cup
                        {[r EXCEPT !.state = IF state \in Final THEN "Closing" ELSE "Accepting"]}
  /\ UNCHANGED <<client, up, systemPool, systemId>>

\* ... and then the record is updated, or closed and its id released.
GatewayUpdates ==
  /\ \E r \in trecords :
       \/ /\ r.state = "Accepting"
          /\ trecords' = (trecords \ {r}) \cup {[r EXCEPT !.state = "Accepted"]}
          /\ UNCHANGED systemPool
       \/ /\ r.state = "Closing"
          /\ trecords' = trecords \ {r}
          /\ systemPool' = systemPool \cup {NextGen(r.id)}
  /\ UNCHANGED <<client, up, down, systemId>>

\* A cancel is passed to the book; one that names no accepted record is dropped,
\* also when the client was told of the order but the record does not say so yet.
\* (The state stays Accepted in the code: there is no second cancel to tell.)
GatewayCancels ==
  /\ Receive("Cancel")
  /\ LET named == {r \in trecords : r.id = Head(up).id /\ r.state = "Accepted"}
     IN  trecords' = (trecords \ named) \cup {[r EXCEPT !.state = "Cancelling"] : r \in named}
  /\ UNCHANGED <<client, down, systemPool, systemId>>

EngineNext ==
  \/ tradeStart \/ tradeStop \/ StopEngine
  \/ LoopEnds \/ sendCancel \/ NothingToCancel \/ sendNew \/ OutOfIds
  \/ HandleStatus
  \/ GatewayRejects \/ GatewayAccepts \/ BookAnswers \/ GatewayUpdates \/ GatewayCancels

EngineSpec == EngineInit /\ [][EngineNext]_engineVars

-----------------------------------------------------------------------------
(* What the properties are about: messages, statuses and queued indices.      *)
Elements(s) == {s[k] : k \in 1..Len(s)}
OncePerOrder(s) == \A k, l \in 1..Len(s) : s[k].n = s[l].n => k = l

\* Order n is open and holds the client's id, and its record is valid.
Holds(n, id) ==
  /\ n \in 1..placed /\ n \notin tclosed /\ id \in EngineId(IDS)
  /\ torders[id.index].n = n /\ torders[id.index].id = id /\ IsValid(torders[id.index].sysOId)

\* The client was told that the server has the order; a status on its way is
\* the last one sent for its record.
Told(r) == r.state \in {"Accepting", "Accepted"}
Fits(s, r) == IF s.state \in Final THEN r.state = "Closing" ELSE Told(r)
HasAccepted(n) == \E r \in trecords : r.order.n = n /\ Told(r)

(* A cancel names the order it is meant for by the system id the server gave  *)
(* it, although the record it is read from is written by the network thread   *)
(* and its index may be reused; the server still has that order.              *)
CancelNamesItsOrder ==
  /\ \A m \in Elements(up) : m.action = "Cancel" => m.id = systemId[m.n] /\ HasAccepted(m.n)
  /\ \A i \in Elements(toCancel) :
       /\ i \in 1..IDS /\ torders[i].sysOId = systemId[torders[i].n] /\ HasAccepted(torders[i].n)

(* No order is cancelled twice: what the gateway relies on.                   *)
CancelledOnce ==
  /\ \A n \in 1..MAX_PLACED : cancelled[n] \in {0, 1} /\ (n > placed => cancelled[n] = 0)
  /\ \A m \in Elements(up) : m.action = "New" => cancelled[m.n] = 0
  /\ \A r \in trecords : r.state = "New" => cancelled[r.order.n] = 0
  /\ \A s \in Elements(down) : s.state = "Accepted" => cancelled[s.n] = 0
  /\ \A i \in Elements(toCancel) : cancelled[torders[i].n] = 0

(* Every status on its way to the client finds the record of its own order,   *)
(* valid: the handler never takes the path that joins the worker from the     *)
(* network thread.                                                            *)
StatusFindsItsOrder ==
  /\ ~stuck
  /\ \A m \in Elements(up) : m.action = "New" => Holds(m.n, m.id)
  /\ \A r \in trecords :
       r.order.n \in 1..placed /\ (r.state # "Closing" => Holds(r.order.n, r.order.id))
  /\ \A s \in Elements(down) :
       /\ Holds(s.n, s.id)
       /\ s.state \notin Final => s.sysOId = systemId[s.n] /\ HasAccepted(s.n)

(* An order is in one place at a time: a message on its way to the server, a  *)
(* record the book has to answer, a status on its way to the client, or an    *)
(* index queued to be cancelled.                                              *)
InOnePlace ==
  /\ OncePerOrder(up) /\ OncePerOrder(down)
  /\ \A k, l \in 1..Len(toCancel) : toCancel[k] = toCancel[l] => k = l
  /\ \A m \in Elements(up) :
       /\ \A s \in Elements(down) : m.n # s.n
       /\ \A i \in Elements(toCancel) : m.n # torders[i].n
       /\ \A r \in trecords : m.n = r.order.n => m.action = "Cancel" /\ Told(r)
  /\ \A s \in Elements(down) :
       /\ \A i \in Elements(toCancel) : s.n # torders[i].n
       /\ \A r \in trecords : s.n = r.order.n => Fits(s, r)
  /\ \A i \in Elements(toCancel) : \A r \in trecords : torders[i].n = r.order.n => Told(r)

(* Every index of idPool_ is free exactly once or held by one open order:     *)
(* acquired by the worker, released by the network thread, never lost.        *)
EngineIdsConserved ==
  /\ \A i \in 1..IDS :
       LET free == {id \in freeIds : id.index = i}
       IN  IF torders[i].n # 0 /\ torders[i].n \notin tclosed THEN free = {}
           ELSE \E id \in freeIds : free = {id}
  /\ \A i, j \in 1..IDS : torders[i].n = torders[j].n /\ torders[i].n # 0 => i = j

\* The gateway gives an id to one record at a time.
SystemIdsConserved ==
  /\ \A r, q \in trecords : r.order.n = q.order.n \/ r.id.index = q.id.index => r = q
  /\ \A r \in trecords : r.id = systemId[r.order.n] /\ \A id \in systemPool : id.index # r.id.index
  /\ \A id, jd \in systemPool : id.index = jd.index => id = jd

\* An id of the pool is free once or held by one open order.  A cancel names the
\* order it is meant for by the system id the server gave it, once, although
\* another thread writes the record it is read from and its index may be reused.
\* Every status on its way finds the valid record of its own order, so the
\* handler never joins the worker from its own thread.
EngineInv ==
  /\ EngineTypeOK /\ EngineIdsConserved /\ SystemIdsConserved /\ InOnePlace
  /\ CancelNamesItsOrder /\ CancelledOnce /\ StatusFindsItsOrder
=============================================================================
