\* Every process with at most two errors, three events of the client, two
\* telemetry messages, three commands of the feed, three starts of Kafka.
\* The feed has trends of one to three steps and late timers that overrun them.
SPECIFICATION ProcessesSpec
CONSTANTS
    FeedTickers = {A}
    MIN_DURATION_US = 1
    MAX_DURATION_US = 3
    BASE = 5
    MAX_RATE = 1
    MAX_TIME = 3
    MAX_COMMANDS = 3
    Topics = {1, 2}
    CONSUME_CHUNK = 2
    MAX_STARTS = 3
    MAX_IN = 3
    MAX_OUT = 2
INVARIANTS
    ServerInv ClientInv MonitorInv FeedInv KafkaInv
PROPERTIES
    ProcessesComeUp ToldProcessEnds WaitingIsTaken
\* Processes end, and the bounds stop the others.
CHECK_DEADLOCK FALSE
