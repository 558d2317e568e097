\* Three ids in a ring of four slots; the stack holds two, fresh ids come in
\* chunks of two, and generations wrap after two reuses.
SPECIFICATION WireSpec
CONSTANTS
    CAPACITY = 4
    LOCAL_CACHE_SIZE = 2
    FRESH_CHUNK_SIZE = 2
    MaxGen = 2
    Thread = {t1, t2}
    PoolSize = 2
    MAX_OPS = 8
    MAX_MESSAGES = 4
INVARIANTS
    IssuedOnce NoIdLost BufferPoolInv FramingInv CodecInv
PROPERTIES
    ReleaseFailsBesideAPop BegunEnds
\* The bounds on operations and messages stop the buffer pool and the stream.
CHECK_DEADLOCK FALSE
