\* Two ids for three orders: records are reused, ids run out.  In the
\* client ids of both sides are reused and cancels wait behind one another.
SPECIFICATION OrdersSpec
CONSTANTS
    CAPACITY = 3
    MaxGen = 2
    Client = {c1, c2}
    NoClient = NoClient
    Ticker = {t1, t2}
    NoTicker = NoTicker
    Traded = {t1}
    Worker = {w1}
    workerOf <- OneWorker
    MAX_TICKS = 2
    Price = {0, 1, 2}
    QUEUE_SIZE = 2
    MAX_ORDERS = 3
    IDS = 2
    SYSTEM_IDS = 2
    CANCELS = 1
    MAX_PLACED = 3
INVARIANTS
    IdsConserved StatusToOwner EngineInv
PROPERTIES
    ReusedOnlyOnceTold OrdersAreAnswered
\* The bounds on the numbers of orders and the stops end the run.
CHECK_DEADLOCK FALSE
