\* Two clients share one record in turn, and may ask twice for a cancel.
SPECIFICATION AnyCancelSpec
CONSTANTS
    CAPACITY = 2
    MaxGen = 2
    Client = {c1, c2}
    NoClient = NoClient
    Ticker = {t1}
    NoTicker = NoTicker
    Traded = {t1}
    Worker = {w1}
    workerOf <- OneWorker
    MAX_TICKS = 2
    Price = {1, 2}
    QUEUE_SIZE = 2
    MAX_ORDERS = 2
INVARIANTS
    StatusToOwner
\* The bound on the number of orders and the stop of the server end the run.
CHECK_DEADLOCK FALSE
