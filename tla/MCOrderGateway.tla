--------------------------- MODULE MCOrderGateway ---------------------------
(***************************************************************************)
(* OrderGateway for TLC, with the liveness TLC alone checks.               *)
(***************************************************************************)
EXTENDS OrderGateway

\* One worker serves every traded ticker.
OneWorker == [t \in Traded |-> CHOOSE w \in Worker : TRUE]

\* Without the contract: a client may ask again.
AnyCancelSpec ==
    Init /\ [][ \/ NetworkNext \/ ServerNext
                \/ \E c \in Client, id \in Id, t \in Ticker :
                     records[id.index].ticker = t /\ CancelCheck(c, id, t)]_vars

\* An order for a traded ticker at a price within bounds is answered, and so is
\* a cancel the gateway passed on, unless the server stops.
Answered ==
    \A n \in 1 .. MAX_ORDERS :
        /\ (n <= Len(orders) /\ orders[n].ticker \in Traded /\ orders[n].price < MAX_TICKS)
               ~> (replies[n] # <<>> \/ stop)
        /\ n \in asked ~> (Len(replies[n]) = 2 \/ stop)
=============================================================================
