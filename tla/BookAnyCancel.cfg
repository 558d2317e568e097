\* Any posted handle may be cancelled at any time, also after its order was filled.
SPECIFICATION Spec
CONSTANTS
    MAX_TICKS = 3
    MAX_BOOK_ORDERS = 3
    WORD_BITS = 2
    MAX_QTY = 2
    MAX_ORDERS = 3
    MaxGen = 2
PROPERTIES
    CancelledWasResting
CHECK_DEADLOCK FALSE
