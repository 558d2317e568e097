--------------------------- MODULE LimitOrderBook ---------------------------
(***************************************************************************)
(* What an order book promises, without nodes, lists, masks or caches: a   *)
(* set of resting orders and price-time priority.  An incoming order       *)
(* trades with the best resting order of the other side, the earliest one  *)
(* among those at the best price, until it is filled or nothing crosses;   *)
(* what remains then rests, unless the book holds Capacity orders.         *)
(*                                                                         *)
(* Ids are ordinals, so the earlier of two orders has the smaller id.      *)
(*                                                                         *)
(* A book may be misled once: it may answer Cancelled for an order that    *)
(* does not rest.  Whatever it does from then on is allowed.               *)
(***************************************************************************)
EXTENDS Integers, FiniteSets

CONSTANTS Prices, Quantities, Capacity

VARIABLES
    resting,    \* set of [id, side, price, qty]
    incoming,   \* the order being matched; id 0 when there is none
    nextId,     \* ordinal of the next order
    report,     \* id and outcome the last finished request reported
    broken      \* an order was cancelled that did not rest

lobVars == <<resting, incoming, nextId, report, broken>>

None == [id |-> 0, side |-> "Buy", price |-> 1, quantity |-> 0, remaining |-> 0]
NoReport == [id |-> 0, fill |-> 0, state |-> "None"]
Report(id, fill, state) == [id |-> id, fill |-> fill, state |-> state]

Crosses(o, r) ==
    /\ r.side # o.side
    /\ IF o.side = "Buy" THEN r.price <= o.price ELSE r.price >= o.price

\* r has priority over q, both resting on the same side
Before(r, q) ==
    \/ r.price = q.price /\ r.id <= q.id
    \/ IF r.side = "Buy" THEN r.price > q.price ELSE r.price < q.price

IsBest(r) == \A q \in resting : q.side = r.side => Before(r, q)

Submit(s, p, q) ==
    /\ incoming = None
    /\ incoming' = [id |-> nextId, side |-> s, price |-> p, quantity |-> q, remaining |-> q]
    /\ nextId' = nextId + 1
    /\ report' = NoReport
    /\ UNCHANGED resting

Refuse ==
    /\ incoming = None
    /\ nextId' = nextId + 1
    /\ report' = NoReport
    /\ UNCHANGED <<resting, incoming>>

Trade(r) ==
    LET q == IF incoming.remaining < r.qty THEN incoming.remaining ELSE r.qty
    IN  /\ incoming # None
        /\ incoming.remaining > 0
        /\ Crosses(incoming, r)
        /\ IsBest(r)
        /\ incoming' = [incoming EXCEPT !.remaining = @ - q]
        /\ resting' = (resting \ {r}) \cup
                      (IF r.qty = q THEN {} ELSE {[r EXCEPT !.qty = @ - q]})
        /\ UNCHANGED <<nextId, report>>

Finish ==
    /\ incoming # None
    /\ incoming' = None
    /\ UNCHANGED nextId
    /\ LET o == incoming
           fill == o.quantity - o.remaining
       IN  \/ /\ o.remaining = 0
              /\ report' = Report(o.id, o.quantity, "Full")
              /\ UNCHANGED resting
           \/ /\ o.remaining > 0
              /\ \A r \in resting : ~Crosses(o, r)
              /\ Cardinality(resting) < Capacity
              /\ resting' = resting \cup
                   {[id |-> o.id, side |-> o.side, price |-> o.price, qty |-> o.remaining]}
              /\ report' = Report(o.id, fill, IF fill = 0 THEN "Accepted" ELSE "Partial")
           \/ /\ o.remaining > 0
              /\ \A r \in resting : ~Crosses(o, r)
              /\ Cardinality(resting) = Capacity
              /\ report' = Report(o.id, 0, "InternalError")
              /\ UNCHANGED resting

Cancel(id) ==
    /\ incoming = None
    /\ \/ \E r \in resting : r.id = id /\ resting' = resting \ {r}
          /\ report' = Report(id, 0, "Cancelled")
       \/ /\ \A r \in resting : r.id # id
          /\ report' = Report(id, 0, "Rejected")
          /\ UNCHANGED resting
    /\ UNCHANGED <<incoming, nextId>>

\* The answer to a cancel that ends the promise.
Misled(id) ==
    /\ incoming = None
    /\ \A r \in resting : r.id # id
    /\ report' = Report(id, 0, "Cancelled")
    /\ broken' = TRUE

LobInit ==
    /\ resting = {}
    /\ incoming = None
    /\ nextId = 1
    /\ report = NoReport
    /\ broken = FALSE

Request ==
    \/ \E s \in {"Buy", "Sell"}, p \in Prices, q \in Quantities : Submit(s, p, q)
    \/ Refuse
    \/ \E r \in resting : Trade(r)
    \/ Finish
    \/ \E id \in 1 .. nextId - 1 : Cancel(id)

LobNext ==
    \/ ~broken /\ Request /\ UNCHANGED broken
    \/ ~broken /\ \E id \in 1 .. nextId - 1 : Misled(id)
    \/ broken /\ broken'

LobSpec == LobInit /\ [][LobNext]_lobVars
=============================================================================
