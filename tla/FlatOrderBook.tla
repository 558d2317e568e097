--------------------------- MODULE FlatOrderBook ---------------------------
(***************************************************************************)
(* The other order book: a heap of orders for each side, and a matching    *)
(* loop that reports to the order just added only.  A heap is the set of   *)
(* its orders; its top is one of the best price, and the standard library  *)
(* does not say which.  While matching, the only steps are the iterations  *)
(* of the loop.                                                            *)
(***************************************************************************)
EXTENDS Naturals, FiniteSets, FiniteSetsExt

CONSTANTS
  Prices, Quantities,
  MAX_BOOK_ORDERS,    \* orders of a side
  MAX_ORDERS          \* bound: orders added

VARIABLES
  book,       \* side -> set of orders
  matching,   \* match() runs
  added,      \* history: the orders added, by id
  current,    \* id of the order of the running or last add()
  traded,     \* history: quantity traded, by id
  told        \* history: quantity the statuses of its add() told it

vars == <<book, matching, added, current, traded, told>>
Ids == 1..MAX_ORDERS

Init ==
  /\ book = [s \in {"Buy", "Sell"} |-> {}] /\ matching = FALSE
  /\ added = <<>> /\ current = 0 /\ traded = [i \in Ids |-> 0] /\ told = [i \in Ids |-> 0]

Full(s) == Cardinality(book[s]) >= MAX_BOOK_ORDERS

\* An order of a full side is rejected.
Add(s, p, q) ==
  LET n == Cardinality(DOMAIN added) + 1 IN
  /\ ~matching /\ n \in Ids /\ current' = n
  /\ added' = [i \in 1..n |-> IF i = n THEN [side |-> s, quantity |-> q, in |-> ~Full(s)] ELSE added[i]]
  /\ IF Full(s) THEN UNCHANGED <<book, matching>>
     ELSE /\ book' = [book EXCEPT ![s] = @ \cup {[id |-> n, quantity |-> q, price |-> p]}]
          /\ matching' = TRUE
  /\ UNCHANGED <<traded, told>>

\* compareBids and compareAsks: what may be at the top.
Tops(s) == {o \in book[s] : \A r \in book[s] : IF s = "Buy" THEN r.price <= o.price ELSE r.price >= o.price}

Crosses(bid, ask) == bid.price >= ask.price

FaultyUnfilled(S, o, q) == IF o.quantity = q THEN S \ {o} ELSE S

\* The order is filled by q, and popped once it has no quantity.
Filled(S, o, q) ==
  IF o.quantity = q THEN S \ {o} ELSE (S \ {o}) \cup {[o EXCEPT !.quantity = @ - q]}

\* Whether the order gets the status of a match.
Reported(o) == o.id = current

Match ==
  /\ matching
  /\ \E bid \in Tops("Buy"), ask \in Tops("Sell") :
       LET q == Min({bid.quantity, ask.quantity}) IN
       /\ Crosses(bid, ask)
       /\ book' = [s \in {"Buy", "Sell"} |->
                     IF s = "Buy" THEN Filled(book[s], bid, q) ELSE Filled(book[s], ask, q)]
       /\ traded' = [i \in Ids |-> traded[i] + (IF i \in {bid.id, ask.id} THEN q ELSE 0)]
       /\ told' = [i \in Ids |-> told[i] + (IF \E o \in {bid, ask} : o.id = i /\ Reported(o) THEN q ELSE 0)]
  /\ UNCHANGED <<matching, added, current>>

MatchDone ==
  /\ matching /\ matching' = FALSE
  /\ \A bid \in Tops("Buy"), ask \in Tops("Sell") : ~Crosses(bid, ask)
  /\ UNCHANGED <<book, added, current, traded, told>>

Next == Match \/ MatchDone \/ \E s \in {"Buy", "Sell"}, p \in Prices, q \in Quantities : Add(s, p, q)

\* add() returns; orders need not come.
Spec == Init /\ [][Next]_vars /\ WF_vars(Match \/ MatchDone)

-----------------------------------------------------------------------------
\* Orders have their type and a side keeps its limit.
TypeOK ==
  /\ matching \in BOOLEAN /\ current \in 0..MAX_ORDERS
  /\ \A s \in {"Buy", "Sell"} :
       /\ \A o \in book[s] : o.id \in Ids /\ o.price \in Prices /\ o.quantity \in Nat
       /\ Cardinality(book[s]) <= MAX_BOOK_ORDERS

\* Between calls no bid reaches an ask.
NotCrossed ==
  ~matching => \A bid \in book["Buy"], ask \in book["Sell"] : bid.price < ask.price

\* An accepted order's quantity is what it traded and what rests of it, and the
\* buyers have bought what the sellers have sold.
QuantityConserved ==
  /\ \A i \in DOMAIN added :
       added[i].in => added[i].quantity = traded[i] + SumSet({o.quantity : o \in {o \in book[added[i].side] : o.id = i}})
  /\ LET total(s) == MapThenSumSet(LAMBDA i : traded[i], {i \in DOMAIN added : added[i].side = s})
     IN  total("Buy") = total("Sell")

\* When its call returns, the added order was told of all it traded.
ToldOfItsTrades == ~matching /\ current # 0 => told[current] = traded[current]

\* Safety: a side keeps its limit, no bid reaches an ask between calls, what
\* was bought was sold, and an order is told of what it traded when it came.
Inv == TypeOK /\ NotCrossed /\ QuantityConserved /\ ToldOfItsTrades
=============================================================================
