\* A store buffer of one entry and a queue of two.
SPECIFICATION WakeUpsSpec
CONSTANTS
    Capacity = 2
    STORE_BUFFER = 1
    MAX_POSTS = 3
INVARIANTS
    NoLostWakeUp ReactorInv
PROPERTIES
    MessagesDelivered StopComesThrough
\* A consumer or a reactor may sleep for ever once the bounded posts are done.
CHECK_DEADLOCK FALSE
