SPECIFICATION Spec
CONSTANTS
    SlotCount = 2
    Body = {1, 2}
    Size = {1, 2}
    MAX_DATA_SIZE = 2
    BufferSize = {0, 2}
    MAX_WRITES = 5
INVARIANTS
    ReturnsSizeRead
CHECK_DEADLOCK FALSE
