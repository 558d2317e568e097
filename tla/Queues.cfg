\* Two slots, gone around more than twice; messages of one size, as LfqRunner
\* sends them, and one that is too large.  Two messages fill the ring of bytes.
SPECIFICATION QueuesSpec
CONSTANTS
    SlotCount = 2
    Body = {1, 2}
    Size = {1, 3}
    MAX_DATA_SIZE = 2
    BufferSize = {0, 2}
    MAX_WRITES = 5
    BUFFER_SIZE = 4
    SIZE = 2
    TurboMessage = {1, 2}
    MAX_TURBO_WRITES = 5
INVARIANTS
    ReadsInOrder TurboInv SessionInv
PROPERTIES
    ImplementsFifo TurboImplementsFifo QueuesGoOn
\* The bounds on the numbers of messages and of sessions stop the queues.
CHECK_DEADLOCK FALSE
