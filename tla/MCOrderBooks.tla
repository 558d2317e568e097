---------------------------- MODULE MCOrderBooks ----------------------------
(***************************************************************************)
(* The two order books for TLC, one at a time: part says which, and for    *)
(* the book of price levels which bounds its orders have.  lists: prices   *)
(* in two words of a mask, as many orders as it takes to fill the book and *)
(* reuse a node.  prices: every price, fewer orders.  The run ends with the *)
(* first stale cancel, from which on the free stack can grow for ever.     *)
(***************************************************************************)
EXTENDS PriceLevelOrderBook

VARIABLES
    part,
    book, matching, added, current, traded, told    \* FlatOrderBook

flatVars == <<book, matching, added, current, traded, told>>
allVars == <<part, vars, flatVars>>

Flat == INSTANCE FlatOrderBook WITH
    Prices <- {1, 2}, Quantities <- {1, 2, 3}, MAX_BOOK_ORDERS <- 2, MAX_ORDERS <- 4

BooksInit == part \in {"lists", "prices", "flat"} /\ Init /\ Flat!Init

Levels(A) == ~stale /\ A /\ UNCHANGED <<part, flatVars>>
Heaps(A) == part = "flat" /\ A /\ UNCHANGED <<part, vars>>

BooksNext ==
    \/ part = "lists" /\ Levels(Next) /\ order'.price <= 2
    \/ part = "prices" /\ Levels(Next) /\ nextOrder' <= MAX_ORDERS
    \/ Heaps(Flat!Next)

AddSteps == MatchBest \/ Fill \/ PostFull \/ restOrder \/ BookFull

\* A call of either add() runs to its end.
BooksSpec ==
    /\ BooksInit /\ [][BooksNext]_allVars
    /\ WF_allVars(Levels(AddSteps /\ UNCHANGED stale))
    /\ WF_allVars(Heaps(Flat!Match \/ Flat!MatchDone))

-----------------------------------------------------------------------------
\* The loops of match() end in both books, in the one of price levels as long as
\* no stale handle was cancelled: every call of add() returns.
AddReturns == ((pc # "idle" /\ ~stale) \/ matching) ~> (pc = "idle" /\ ~matching)

\* FlatOrderBook: a side keeps its limit and no bid reaches an ask between
\* calls; an accepted order's quantity is what it traded and what rests of it,
\* buyers have bought what sellers sold, and the order added last was told of all
\* it traded.
FlatBookInv == Flat!Inv
=============================================================================
