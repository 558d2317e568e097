\* Three nodes, three price levels in two words of a mask.
SPECIFICATION BooksSpec
CONSTANTS
    MAX_TICKS = 4
    MAX_BOOK_ORDERS = 4
    WORD_BITS = 2
    MAX_QTY = 2
    MAX_ORDERS = 4
    MaxGen = 2
INVARIANTS
    BookInv FlatBookInv
PROPERTIES
    AddReturns PriceTimePriority ImplementsLimitOrderBook
\* The bounds on the number of orders stop the books.
CHECK_DEADLOCK FALSE
