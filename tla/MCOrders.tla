------------------------------ MODULE MCOrders ------------------------------
(***************************************************************************)
(* The life of an order at both ends, one at a time.  The server's         *)
(* OrderGateway with its workers: records, several clients and every kind  *)
(* of order; ids, more orders than ids; answers, queues of one entry and   *)
(* threads that keep running.  client: the client's TradeEngine.           *)
(***************************************************************************)
EXTENDS MCOrderGateway, TradeEngine

VARIABLE part

allVars == <<part, vars, engineVars>>

One == {CHOOSE c \in Client : TRUE}
Records == INSTANCE OrderGateway WITH MAX_ORDERS <- 2
Ids == INSTANCE OrderGateway WITH Client <- One, Ticker <- Traded, Price <- {1}
Answers == INSTANCE OrderGateway WITH Client <- One, QUEUE_SIZE <- 1, MAX_ORDERS <- 2

OrdersInit == part \in {"records", "ids", "answers", "client"} /\ Init /\ EngineInit

Gateway(p, A) == part = p /\ A /\ UNCHANGED <<part, engineVars>>

OrdersNext ==
    \/ Gateway("records", Records!Next) \/ Gateway("ids", Ids!Next) \/ Gateway("answers", Answers!Next)
    \/ part = "client" /\ EngineNext /\ UNCHANGED <<part, vars>>

\* The threads of the server keep running, and an internal error stops it.
OrdersSpec ==
    /\ OrdersInit /\ [][OrdersNext]_allVars
    /\ WF_allVars(Gateway("answers", Answers!CancelPost))
    /\ \A w \in Worker : WF_allVars(Gateway("answers", Answers!Match(w) \/ Answers!Cancel(w)))
    /\ WF_allVars(Gateway("answers", Answers!GatewayReply \/ Answers!GatewayUpdate \/ Answers!GatewayFinish))
    /\ WF_allVars(Gateway("answers", error /\ Answers!RequestStop))

-----------------------------------------------------------------------------
\* An order for a traded ticker at a price within bounds is answered, and so is
\* a cancel the gateway passed on, unless the server stops.
OrdersAreAnswered == part = "answers" => Answered
=============================================================================
