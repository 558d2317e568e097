---------------------------- MODULE KafkaAdapter ----------------------------
(***************************************************************************)
(* The Kafka adapter: start() with its four steps, each of which may fail, *)
(* the poll timer, produce() and stop().  Its owner calls it on the system *)
(* context, the thread of the timer too.  librdkafka is external: a create *)
(* or subscribe may fail, a flush delivers some of the queue.              *)
(***************************************************************************)
EXTENDS Naturals, Sequences, FiniteSets

CONSTANTS
  Topics,          \* produceTopics_, as 1..n in the order of the configuration
  CONSUME_CHUNK,   \* messages of one poll
  MAX_STARTS,      \* calls of start()
  MAX_IN, MAX_OUT  \* messages of the broker, and calls of produce()

KafkaConstants ==
  /\ IsFiniteSet(Topics) /\ Topics = 1..Cardinality(Topics)
  /\ CONSUME_CHUNK \in Nat /\ MAX_STARTS \in Nat /\ MAX_IN \in Nat /\ MAX_OUT \in Nat

ASSUME KafkaAssumption == KafkaConstants

VARIABLES
  started,
  consumer, producer,   \* 0, or the number of the start() that created it
  produceTopicMap,      \* topic -> the producer its handle belongs to
  waits,                \* waits of timer_: "waiting", or its handler is queued
  chunk,                \* messages consumed by the running poll, or NoPoll
  broker, consumed,     \* messages to consume, and consumed
  outq, produced,       \* messages in the producer's queue; calls of produce()
  kevents,               \* KafkaEvents posted
  starts,               \* calls of start()
  failing,              \* the last consume that was no timeout was an error
  leftover,             \* history: a start() failed at a later topic, and the handles
                        \* of the topics before it are in the map still
  nullProduce           \* produce() was called through the null producer_

handles == <<started, consumer, producer, produceTopicMap, leftover>>
traffic == <<broker, consumed, outq, produced>>
NoPoll == CONSUME_CHUNK + 1
kafkaVars == <<handles, waits, chunk, traffic, kevents, starts, failing, nullProduce>>

KafkaInit ==
  /\ started = FALSE /\ consumer = 0 /\ producer = 0 /\ produceTopicMap = <<>>
  /\ waits = <<>> /\ chunk = NoPoll
  /\ broker = 0 /\ consumed = 0 /\ outq = 0 /\ produced = 0 /\ kevents = 0 /\ starts = 0
  /\ failing = FALSE /\ leftover = FALSE /\ nullProduce = FALSE

\* timer_.cancel(): a handler that is already queued is not recalled.
cancelled(ws) == [i \in DOMAIN ws |-> IF ws[i] = "waiting" THEN "aborted" ELSE ws[i]]

\* schedulePoll; expires_after cancels the wait of before.
schedulePoll ==
  waits' = IF started' THEN Append(cancelled(waits), "waiting") ELSE waits

\* onFatalError.
onFatalError == kevents' = kevents + 1

-----------------------------------------------------------------------------
(* start() *)

\* The map once the topics below t have handles: insert keeps an entry.
Inserted(t) ==
  [u \in DOMAIN produceTopicMap \cup {u \in Topics : u < t} |->
     IF u \in DOMAIN produceTopicMap THEN produceTopicMap[u] ELSE starts']

\* It runs, or a consumer is left of an earlier run: an error in the log.
Refused == (started \/ consumer # 0) /\ UNCHANGED <<handles, waits, kevents>>

createConsumerFails == ~started /\ consumer = 0 /\ onFatalError /\ UNCHANGED <<handles, waits>>

\* The consumer just created is dropped.  There is no producer to refuse: it
\* never outlives the consumer (BothOrNone).
createProducerFails ==
  /\ ~started /\ consumer = 0
  /\ onFatalError /\ UNCHANGED <<handles, waits>>

startConsumeFails ==
  /\ ~started /\ consumer = 0 /\ producer = 0
  /\ onFatalError /\ UNCHANGED <<handles, waits>>

FaultyStartProduceFails ==
  /\ ~started /\ consumer = 0 /\ producer = 0
  /\ \E t \in Topics :
       produceTopicMap' = Inserted(t + 1) /\ leftover' = IF t > 1 THEN TRUE ELSE leftover
  /\ onFatalError /\ UNCHANGED <<started, consumer, producer, waits>>

\* The topics before the failing one keep their handles in the map.
startProduceFails ==
  /\ ~started /\ consumer = 0 /\ producer = 0
  /\ \E t \in Topics :
       produceTopicMap' = Inserted(t) /\ leftover' = IF t > 1 THEN TRUE ELSE leftover
  /\ onFatalError /\ UNCHANGED <<started, consumer, producer, waits>>

Run ==
  /\ ~started /\ consumer = 0 /\ producer = 0
  /\ started' = TRUE /\ consumer' = starts' /\ producer' = starts'
  /\ produceTopicMap' = Inserted(Cardinality(Topics) + 1)
  /\ schedulePoll /\ UNCHANGED <<kevents, leftover>>

StartAdapter ==
  /\ chunk = NoPoll /\ starts < MAX_STARTS /\ starts' = starts + 1
  /\ Refused \/ createConsumerFails \/ createProducerFails \/ startConsumeFails
     \/ startProduceFails \/ Run
  /\ UNCHANGED <<chunk, traffic, failing, nullProduce>>

-----------------------------------------------------------------------------
(* stop() and produce() *)

\* stop() flushes until the producer's queue is empty, and keeps both clients.
stopAdapter ==
  /\ started' = FALSE /\ waits' = cancelled(waits)
  /\ produceTopicMap' = <<>> /\ leftover' = FALSE /\ outq' = 0
  /\ UNCHANGED <<consumer, producer>>

StopAdapter ==
  /\ chunk = NoPoll /\ stopAdapter
  /\ UNCHANGED <<chunk, broker, consumed, produced, kevents, starts, failing, nullProduce>>

\* A topic that is not in the map is an error in the log; of one that is there
\* the producer is taken for granted.
Produce ==
  /\ produced < MAX_OUT /\ produced' = produced + 1
  /\ \E t \in Topics :
       \/ t \notin DOMAIN produceTopicMap /\ UNCHANGED <<outq, kevents, nullProduce>>
       \/ /\ t \in DOMAIN produceTopicMap /\ producer = 0
          /\ nullProduce' = TRUE /\ UNCHANGED <<outq, kevents>>
       \/ /\ t \in DOMAIN produceTopicMap /\ producer # 0
          /\ (outq' = outq + 1 /\ UNCHANGED kevents) \/ (onFatalError /\ UNCHANGED outq)
          /\ UNCHANGED nullProduce
  /\ UNCHANGED <<handles, waits, chunk, broker, consumed, starts, failing>>

-----------------------------------------------------------------------------
(* The timer and its poll *)

PollExpire ==
  \E i \in DOMAIN waits :
    /\ waits[i] = "waiting" /\ waits' = [waits EXCEPT ![i] = "due"]
    /\ UNCHANGED <<handles, chunk, traffic, kevents, starts, failing, nullProduce>>

\* The handler of a wait: an aborted one does nothing, another polls.
OnPollTimer ==
  /\ chunk = NoPoll /\ waits # <<>> /\ Head(waits) # "waiting" /\ waits' = Tail(waits)
  /\ chunk' = IF Head(waits) = "due" THEN 0 ELSE NoPoll
  /\ UNCHANGED <<handles, traffic, kevents, starts, failing, nullProduce>>

\* One message of pollConsume, to the bus; its handler may stop the adapter.
pollConsume ==
  /\ chunk # NoPoll /\ chunk < CONSUME_CHUNK /\ started /\ broker > 0
  /\ broker' = broker - 1 /\ consumed' = consumed + 1 /\ chunk' = chunk + 1
  /\ failing' = FALSE
  /\ stopAdapter \/ UNCHANGED <<handles, waits, outq>>
  /\ UNCHANGED <<produced, kevents, starts, nullProduce>>

\* The chunk is full, the adapter stopped, there is no message ...
NothingMore == (chunk = CONSUME_CHUNK \/ ~started \/ broker = 0) /\ UNCHANGED failing

\* ... or the consume fails, whatever there is: an error in the log.
ConsumeFails == chunk < CONSUME_CHUNK /\ started /\ failing' = TRUE

FaultyPollEnd ==
  /\ chunk # NoPoll /\ (NothingMore \/ ConsumeFails)
  /\ chunk' = NoPoll /\ outq' \in 0..outq
  /\ UNCHANGED <<handles, waits, broker, consumed, produced, kevents, starts, nullProduce>>

\* The end of a poll: the queue of the producer is served, and the next poll
\* scheduled.
PollEnd ==
  /\ chunk # NoPoll /\ (NothingMore \/ ConsumeFails)
  /\ chunk' = NoPoll /\ outq' \in 0..outq
  /\ UNCHANGED handles /\ schedulePoll
  /\ UNCHANGED <<broker, consumed, produced, kevents, starts, nullProduce>>

\* External: a message arrives at a topic of the consumer.
Arrive ==
  /\ broker + consumed < MAX_IN /\ broker' = broker + 1
  /\ UNCHANGED <<handles, waits, chunk, consumed, outq, produced, kevents, starts, failing, nullProduce>>

Poll == OnPollTimer \/ pollConsume \/ PollEnd

\* A call through the null pointer ends the process.
KafkaNext ==
  ~nullProduce /\ (StartAdapter \/ StopAdapter \/ Produce \/ PollExpire \/ Poll \/ Arrive)

\* The clock advances and the context runs its handlers; the owner need not call.
KafkaSpec == KafkaInit /\ [][KafkaNext]_kafkaVars /\ WF_kafkaVars(PollExpire) /\ WF_kafkaVars(Poll)

-----------------------------------------------------------------------------
\* Every variable has its type, and no poll takes more than its chunk.
KafkaTypeOK ==
  /\ started \in BOOLEAN /\ failing \in BOOLEAN /\ leftover \in BOOLEAN /\ nullProduce \in BOOLEAN
  /\ {consumer, producer} \subseteq 0..MAX_STARTS
  /\ DOMAIN produceTopicMap \subseteq Topics /\ waits \in Seq({"waiting", "due", "aborted"})
  /\ chunk = NoPoll \/ chunk \in 0..CONSUME_CHUNK
  /\ {broker, consumed, outq, produced, kevents} \subseteq Nat /\ starts \in 0..MAX_STARTS
  /\ broker + consumed <= MAX_IN /\ outq <= produced /\ produced <= MAX_OUT

\* Whatever step of start() fails, the two clients exist together or not at
\* all, and while the adapter is started they do.
BothOrNone == consumer = producer /\ (started => consumer # 0)

\* One chain of polls at most: no start() adds a second to a handler that
\* stop() came too late to cancel.
OnePollChain ==
  /\ \A i, j \in DOMAIN waits : waits[i] # "aborted" /\ waits[j] # "aborted" => i = j
  /\ chunk # NoPoll => \A i \in DOMAIN waits : waits[i] = "aborted"

\* Between polls a started adapter has its next poll pending.
StartedPolls == started /\ chunk = NoPoll => \E i \in DOMAIN waits : waits[i] # "aborted"

\* A stopped adapter has nothing left in the producer's queue, and produce()
\* adds nothing to it.
FlushedOnceStopped == ~started => outq = 0

\* A started adapter has a handle for every topic it may be asked to produce to.
TopicsCovered == started => DOMAIN produceTopicMap = Topics

\* What produce() relies on when it finds a topic ("Not connected to the topic"
\* otherwise), unless a start() failed at a later topic and left handles behind:
\* the handle belongs to the producer there is, and there are handles only while
\* the adapter is started.  What is left behind stands beside a null producer
\* until the next start() succeeds, or is cleared by stop().
TopicsConnected ==
  IF leftover THEN started \/ producer = 0
  ELSE /\ DOMAIN produceTopicMap # {} => started
       /\ \A t \in DOMAIN produceTopicMap : produceTopicMap[t] = producer

\* produce() meets the null producer only through such a handle.
NullOnlyByLeftover == nullProduce => leftover

\* No poll was ever scheduled before the first successful start(), and no
\* later one succeeds.
FirstStart == consumer = 0 => waits = <<>> /\ chunk = NoPoll

\* Safety: a started adapter is whole, with one chain of polls and a handle for
\* every topic; a stopped one has nothing left to send; and handles without
\* their producer come only from a start() that failed at a later topic.
KafkaInv ==
  /\ KafkaTypeOK /\ BothOrNone /\ OnePollChain /\ StartedPolls /\ FirstStart
  /\ FlushedOnceStopped /\ TopicsCovered /\ TopicsConnected /\ NullOnlyByLeftover
=============================================================================
