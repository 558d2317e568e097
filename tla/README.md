# Verification of the trading platform

TLA+ models, TLC runs and TLAPS proofs kept beside the code of the trading
platform: the server that accepts orders, matches them and reports their
status, the client that sends them, the monitor, and the library of queues,
pools, transports and serializers they share. Paths below are relative to
`src/`.

## The system

A **client** sends orders and cancels to the **server** over TCP (Boost.Asio)
or, on one machine, over two queues in shared memory. In the server the network
thread hands an order to the `OrderGateway`, which gives it a system id and a
record and passes it, through the `Coordinator`, to the **worker** thread that
owns the book of its ticker. The book's statuses go back through the gateway's
own thread to the session of the client. A **monitor** reads telemetry from a
third shared-memory queue. In each process a *system thread* runs an
`io_context` with the control centre: start-up in the order components report
ready, commands, internal errors and shutdown.

Threads meet in a few places only, and those are what the modules are about:

| meeting place | threads | module |
|---|---|---|
| queue of a runner (`SequencedSPSC`) and its sleep (`LfqRunner`) | poster, runner thread | `SequencedSPSC`, `LfqRunner` |
| queue in shared memory (`ShmQueue`) and its sleep (`ShmReactor`) | writer of one process, reactor of the other | `ShmReactor`, `TrustedSession` |
| order records and ids (`OrderGateway`, `SlotIdPool`) | network, worker, gateway | `OrderGateway`, `SlotIdPool` |
| gateway's status queue | all workers, gateway | `WorkerStatuses` |
| client's order records and cancels (`TradeEngine`) | worker, network, system | `TradeEngine` |
| sessions (`NetworkSessionManager`) | network, system, gateway | `SessionServer`, `NetworkLogin` |
| pool of send buffers (`BufferPool`) | all that send | `BufferPool` |
| statistics of the monitor (`RttTracker`) | reactor, system | `Monitor` |
| the components themselves, at start and stop | all | `ServerControl`, `ClientControl` |

## Modules

One module per component: its variables are the component's state, its actions
the operations, at the grain at which other threads can see them. Where two
threads share memory each load and store that matters is a step; where a
component is confined to one thread a handler is one step.

| module | models | grain |
|---|---|---|
| `SlotId` | `common/src/id/slot_id.hpp`: index and generation, and the generation's wrap | operators |
| `SlotIdPool` | `common/src/id/slot_id_pool.hpp`: local stack, ring and fresh ids | each access to the ring |
| `PriceLevelOrderBook` | `server/.../price_level_order_book.hpp`: nodes, level lists, masks, best-price caches, node ids | one iteration of `match` |
| `LimitOrderBook` | abstract: a set of resting orders under price-time priority | one trade |
| `FlatOrderBook` | `server/.../flat_order_book.hpp`: two heaps | one match |
| `OrderGateway` | `server/src/gateway/order_gateway.hpp` with `Coordinator::post`, the workers and their queues | each write of a record |
| `WorkerStatuses` | workers posting into the gateway's `SequencedSPSC` (`coordinator.hpp:51`) | each shared access |
| `SequencedSPSC`, `TurboSPSC` | `common/src/containers`: the two single-producer queues | each shared access |
| `Fifo` | abstract: a bounded FIFO queue | push, pop |
| `LfqRunner` | `common/src/runner/lfq_runner.hpp`: post, loop, stop, with a store buffer | each shared access |
| `BufferPool` | `buffer_pool.hpp` over `vyukov_mpmc.hpp` | each shared access |
| `StreamFraming` | `Channel::readHandler`, `SlidingBuffer`, both framers | one read of the stream |
| `DomainSerializer` | FlatBuffers and SBE serializers and converters | one message |
| `Channel` | `transport/channel.hpp` over TCP: both ends, pending reads and writes | one completion |
| `SessionServer` | `NetworkSessionManager`, `Authenticator`, `SessionBus`, `BoostIpcServer` | one call that other threads can see |
| `NetworkLogin` | composes `SessionServer` and `Channel` with the clients' `NetworkConnectionManager` | one handler |
| `ShmReactor` | `shm_reactor.cpp`, `shm_reader.cpp`, `shm_writer.hpp`, `shm_queue.hpp`, the futex | each shared access |
| `TrustedSession` | `shm_ptr.hpp`, `memory_utils.hpp`, the trusted session and connection managers | each step on a segment |
| `TradeEngine` | `client/src/execution/trade_engine.hpp`, against the gateway as it answers | one handler; the gateway's answer and its update of the record |
| `ServerControl`, `ClientControl` | the control centres, `SystemBus`, start and stop of every thread | one handler, one join |
| `Monitor` | `monitor/src`, `RttTracker`, `TelemetryAdapter`, `ConsoleReader` | each load and store of a statistic |
| `PriceFeed` | `server/src/price_feed.hpp` | one handler |
| `KafkaAdapter` | `common/src/adapters/kafka/kafka_adapter.hpp` | one poll, one step of start |

`PROJECT.json` maps every definition to the lines it translates. Operators named
`Faulty...` are not part of the specifications. Each stands before a definition
and is a version of it with a plausible mistake; put in its place, it makes the
property `PROJECT.json` names with it fail, which shows that the property says
something about that code.

What is abstracted: a message is its ordinal, a price a tick, a text its
length; logging and formatting are left out. Prices, quantities, latencies and
the outcomes of the network, the database and Kafka are chosen freely. Where the
code has undefined behaviour (`nsPerCycle` before it is set, `readers_.back()`
of an empty vector, bytes read past what arrived) the model chooses among the
outcomes, or records that the place was reached.

### MC modules

The components are checked in seven groups. An `MC` module has a variable `part`
that is chosen in the initial state and never changes: it says which component,
or which instance of it, runs. The others stay in their initial states. A group is
thus the disjoint union of its components' state graphs, and a property of a
component in it is what it would be alone. Components that interact are composed
in modules of their own: `NetworkLogin` (server, channels, clients),
`OrderGateway` (network, workers, gateway), `WorkerStatuses`, `TradeEngine`,
`TrustedSession`.

An `MC` module EXTENDS the components whose theorems are about the very formulas
the run checks, so that both tools read one definition, and INSTANCEs the others,
with small constants and variables of its own. Two components extended by one
module share its name space, which is why the definitions of `BufferPool`,
`LfqRunner`, `TurboSPSC`, `TradeEngine`, `PriceFeed` and `KafkaAdapter` carry a
prefix (`Pool...`, `Runner...`, `Turbo...`, `Engine...`, `Feed...`, `Kafka...`).
`MCOrderGateway` adds to the gateway what only TLC uses: liveness, and the
specification without the contract on cancels.

Most components state their safety properties one by one, each with its comment,
and conjoin them in one invariant that the runs check (`BookInv`, `FlatBookInv`,
`BufferPoolInv`, `FramingInv`, `CodecInv`, `TurboInv`, `SessionInv`, `EngineInv`,
`ReactorInv`, `ServerInv`, `ClientInv`, `MonitorInv`, `FeedInv`, `KafkaInv`). Where
such an invariant is proved it is inductive as the run checks it, or follows from
the inductive one: TLC looks at the formula the proof carries from step to step.
Of the gateway, the id pool, `SequencedSPSC` and `LfqRunner` the runs check the
theorems a reader asks for first; the others are left to TLAPS.

## Runs

Run one with `tlc -config X.cfg M`. Every passing run finishes in about two
minutes or less on two workers.

| run | module, cfg | states | what it checks |
|---|---|---|---|
| `order_books` | `MCOrderBooks`, `OrderBooks.cfg` | 392 199 | both books |
| `wire` | `MCWire`, `Wire.cfg` | 59 517 | ids, buffers, framing, serializers |
| `queues` | `MCQueues`, `Queues.cfg` | 258 514 | both queues, sessions over shared memory |
| `orders` | `MCOrders`, `Orders.cfg` | 684 123 | the gateway with a worker, the client's engine |
| `wake_ups` | `MCWakeUps`, `WakeUps.cfg` | 126 319 | `LfqRunner`, `ShmReactor` |
| `login` | `MCNetworkLogin`, `Login.cfg` | 1 171 198 | login, bind, loss, restart, faults |
| `processes` | `MCProcesses`, `Processes.cfg` | 153 864 | control centres, monitor, price feed, Kafka adapter |

**order_books.** The worker passes any cancel of a handle the book once posted:
also of an order that was filled since, and twice. The first cancel that is
accepted for an order that does not rest is recorded (`stale`); `book_stale_cancel`
shows it. Up to it nodes, lists, masks, caches and volumes of
`PriceLevelOrderBook` agree in every state, also between two iterations of `match`
(`BookInv`: `NodesAccountedFor`, `LevelsAreFifo`, `OccupancyExact`,
`BestPricesExact`, `HandlesNameTheirOrder` and more), and the book is never
crossed; trades respect price and time; every `add` returns.
`ImplementsLimitOrderBook` shows the book to implement the abstract one, the pool
that runs out included, and that the only step outside it is that answer to a
stale cancel (`broken` of `LimitOrderBook`). After it the run does not go on: a
node that is free twice makes the stack of free nodes grow without end. A stale
cancel of a node that was reused is refused by its generation, and that is checked
like every other step. Of `FlatOrderBook`: quantity is conserved, the book is not
crossed between calls, and the order just added was told of all it traded.
*Bounds:* three nodes, so the pool runs out and nodes are reused; three prices in
words of two bits, so the scan crosses a word; four orders of quantity one or two.

**wire.** No id is issued twice or lost while `acquire` and `release` run on two
threads. No buffer is handed out twice, and a `release` loses its buffer only
beside a pop of that very slot that is half way (`ReleaseFailsBesideAPop`). The
pool is lock-free: as long as threads are in it, some operation ends, though one
of them may retry for ever (`SomeOperationEnds` of `BegunEnds`). However TCP cuts
the stream, messages framed by `FixedSizeFramer` are posted once, in order, in the
end. What the serializers post is what was sent. *Bounds:* a ring of ids and a pool
of buffers that are gone around; messages longer and shorter than what a read
leaves; every action and state of the schema, texts at and over the width.

**queues.** `SequencedSPSC` and `TurboSPSC` implement `Fifo` although the copies
run beside the other thread, and neither stops for ever. A shared segment that a
process maps is the one its name denotes, also after a kill; with nobody running
and nobody killed no file is left, and no session is given the status of an
earlier one. Starts and exits of the two processes overlap freely. `SessionInv`
excepts what follows two windows that the code leaves open and the model records
in `raced` (see *Deviations*). *Bounds:* rings of two slots gone around twice; two
sessions with two files each and one kill.

**orders.** Open orders have distinct records and no id is lost; a status goes to
the client of its order; a record is reused only once its client was told the end;
an order for a traded ticker at a price within bounds is answered unless the
server stops; that the book's call returns is what `AddReturns` is for. In the
client a cancel names the order it was queued for, though indices are reused, and
no order is cancelled twice, which is what the gateway relies on. The gateway
tells the client of its order before it stores `Accepted` in the record, and the
model has the two as two steps: a cancel that is faster finds no accepted record
and is dropped, and the properties hold all the same. *Bounds:* two records and
three orders, so records are reused and run out; two clients; queues of one and
two entries; a price out of bounds and a ticker that is not traded.

**wake_ups.** Nobody need post, write or stop again. A consumer asleep in the
kernel with a message that was visible when `post` looked at `sleeping_` is about
to be woken, and `stop` comes through. Of the messages posted to `LfqRunner` all
are consumed but the last few that the store buffer may hold back, none without a
store buffer (`OnlyTheLastWait` of `MessagesDelivered`). `ShmReactor` has a gap
between its last poll and the store of `waitFlag`, in which a `notify` finds the
flag down and the loop then sleeps: the model counts what a `notify` found outside
the gap (`due`) and records a stop whose `notify` fell into it (`missed`). What is
due is polled and a stop comes through with a silent peer, unless it was missed;
then it comes through with the next message. In the server the loop runs on with
the vector that `stop` cleared only while `stop` waits in its join, and removes
nothing from it. *Bounds:* three posts, store buffers of one; a futex counter that
wraps after four or five, with any number of messages.

**login.** A session joins channels of one client process, both authenticated as
its user, or about to be by the handler that runs; a client that believes itself
authenticated is bound, and none of its orders is refused; statuses go to a
bound channel of their client. The handlers of login and bind are not one step:
the login response is out before its channel is authenticated, and the bound
channel is in the session before it is (`doing`, `HandlerGoesOn`), while reads of
the network thread and statuses of the gateway thread come in between. These are
checked for two users, for a client that is started again and with faults. For a
client alone a login without faults completes, a loss is noticed, and the session
of a client that goes away ends (`LostSessionEnds`). *Bounds:* two users, or one
whose client is started twice; one client with two faults among failed connects,
accepts, writes, database answers and an empty buffer pool; a user without
credentials.

**processes.** The network of server and client starts only behind all
it delivers to, and an order finds its worker; at a stop nothing is destroyed
before the threads that call it have ended; a process that is told to end does,
unless the notify of the stop fell into the gap of its reactor and its peer never
writes again (`Oversleeps`). The client writes no order through a null channel
unless a loss was handled; after one, `reset` can clear the channel between the
worker's test and its use, and `nullWrite` records it. The monitor never uses
`nsPerCycle` before it is measured and its statistics are exact as long as
`logRtt` and the statistics handler do not overlap; telemetry is received unless
it fell into the reactor's gap and no more is written. Price feed and Kafka
adapter survive starts and stops that race their timers; every step of the
adapter's `start` may fail, and `KafkaInv` names what a failure at the second topic
leaves behind (`leftover`). *Bounds:* one worker over shared memory, where `main`
allows no more, and two over Boost with five tickers and with one; two internal
errors; three events of the client; trends of one to three steps; two topics and
three starts of the adapter.

`CHECK_DEADLOCK FALSE` stands in all cfgs, because the systems do stop: the bounds on
messages and orders are reached, processes end. That nobody waits for ever is
stated as liveness instead.

### Runs that are violated

Five runs have one property each, taken from a comment, a log line or a test,
that the code does not keep. `PROJECT.json` quotes the line.

| run | what happens |
|---|---|
| `book_stale_cancel` | a released node keeps its generation, so a cancel with the handle of a filled order is accepted until the node is reused |
| `gateway_any_cancel` | two cancels of one order in flight: the second is answered to whoever has the record by then |
| `spsc_two_sizes` | `read` returns the size from a slot it has already given back; with messages of two sizes it can be another's |
| `worker_statuses_two` | two workers write to the gateway's single-producer queue and one status overwrites the other |
| `login_null_downstream` | a client lost between login and bind makes the clean-up call through a null `downstreamChannel` |

The first one the program reaches: a resting order that is filled gets no status
of its own, so the client may cancel it, and the passing run of the book therefore
allows any cancel and promises what holds up to the first stale one. What avoids the next
three is provided outside the component, and the passing runs take it from there:
the client cancels an order once (`CancelledOnce` of `TradeEngine`, which is the
contract `CancelOnce` of the gateway), `LfqRunner` sends messages of one type, and
the configuration files have one worker (and `main` refuses several over shared
memory).

### Deviations seen while modelling

These were met in the models; each is either outside what a passing property
claims, or named in it as an exception.

- `network_session_manager.hpp:174`: the event of an upstream channel lost before
  `authenticate` names no client, so the session inserted for it stays, and the
  user is refused as already authorized; `LostSessionEnds` has it as its exception.
- `network_session_manager.hpp:231`: each channel of an ended session reports its
  own loss, and the second report ends whatever session its user has by then: a
  half-built one through the null channel of `login_null_downstream`, a complete
  one as if its own channel were lost.
- `network_session_manager.hpp:128`: a status for an earlier process of a client
  goes to the later one, if that is bound.
- `boost_network_client.hpp:86`, `boost_network_server.hpp:104`: a failed connect
  or accept is not tried again; `NoClientHangs` is stated without them.
- `shm_queue.hpp:40`: `wait` raises `waitFlag` and sleeps without looking at the
  queue or the stop token again; a message or a stop just before waits for the next
  message. `++futexCounter` is not atomic: with the client's `reset` as a third
  notifier the futex can get back a value a waiter has loaded, so the promises
  about sleep are stated for the server.
- `shm_reactor.cpp:70`: `stop` clears `readers_` under the loop, which goes on with
  the element past the end; after the client's `reset` it can take `back()` of the
  empty vector (`emptyPop`).
- `memory_utils.hpp:71`: a process that looks for the file while another is about
  to construct the queue in it, or to unlink it, works with a segment whose count
  is reset or whose name is gone.
- `shm_ptr.hpp:50,56`: the last process counted unlinks the file although another
  has opened it and is not counted yet. `SessionInv` excepts both windows (`raced`).
- `vyukov_mpmc.hpp:55`: a push beside an unfinished pop fails, and the pool takes
  that for a double release and loses the buffer.
- `dummy_framer.hpp:38`: with SBE the first half of a message is an error;
  `CutsAreHarmless` is about the fixed-size framer.
- `sbe_converter.hpp:40,70`: no case for Modify, Cancel and the state Cancelled.
- `price_feed.hpp:53`: durations drawn in microseconds are counted down in
  nanoseconds, so a trend lasts a thousandth of what its comment says.
- `kafka_adapter.hpp:184`: with two topics, a `start` that fails at the second
  leaves the first in the map without its producer: `produce` then calls through a
  null pointer (`nullProduce`), and after a `start` that succeeds it uses the handle
  of the producer that is gone. `TopicsConnected` names it.
- `turbo_spsc.hpp:34`: that the ring is a multiple of the message, without which a
  message would run over its end, is not checked; it is so in the queue's only use.
- `boost_network_server.hpp:81`: `running_` is set inside the network thread; a
  stop before that neither stops nor joins it, and it outlives the session
  manager. The client over Boost does not join its network thread before the
  engine is destroyed. `SessionsOutliveNetwork` and `EngineOutlivesNetwork` are
  stated for shared memory.
- `order_gateway.hpp:132`: a cancel that is faster than the gateway's store of
  `Accepted` is dropped with a log line. `price_level_order_book.hpp:82` and
  `coordinator.hpp:115` drop an order without a status, and its record stays open.

## Fairness

Weak fairness only, with one exception, and only of what the operating system or
the event loop runs by itself. Nobody has to type, send, connect, fail or stop.

| run | fair | why |
|---|---|---|
| `order_books` | the steps of a call of `add`, up to a stale cancel | a thread inside a call is scheduled |
| `wire` | each thread inside a pool operation; the delivery of sent bytes | the same; TCP |
| `queues` | both ends inside a call; the reader polls with each buffer size; the byte queue's writer tries again | the runner's loop; `while (!write)` of the benchmark |
| `orders` | worker, gateway and the second half of a cancel; a stop after an internal error | runner loops; `ControlCenter` subscribes to `InternalError` |
| `wake_ups` | loop, notify and stop sequences; the store buffer drains | threads run; hardware. No peer has to write |
| `login` | handlers of server and client of one client without faults | `io_context::run` |
| `processes` | the system thread, each other thread, expiry of timers | the same |

The exception is strong fairness of the monitor's `HandleCall`: its `io_context`
is a FIFO queue of calls, while the timer that shows the statistics is an action
beside it, so the queue's head must not be passed over for ever.

## Proofs

TLAPS checks the theorems for every value of the constants: any number of
ticks, nodes, slots, records, clients, workers, posts and orders. `tlapm M.tla`
on a `...Proofs` module checks all of its obligations. A theorem about a property
of a run names the very definition the run's cfg names. `ServerKeepsItsOrder` and
`ClientKeepsItsOrder` are the exceptions: the run checks the server at three and
the client at two sets of constants, and its `ServerInv` and `ClientInv` conjoin
the instances of what the theorems prove.

| module | theorems | inductive invariant |
|---|---|---|
| `PriceLevelOrderBookProofs`, with lemmas in `BookLevelProofs` | types, nodes shared by no two places, FIFO levels, exact masks, exact best prices, never crossed, price-time priority; all of `BookInv`; it implements `LimitOrderBook`; each up to a stale cancel, and the refinement through it | `TypeOK`, `NodesAccountedFor`, `LevelsAreFifo`, `OccupancyExact`, `BestPricesExact`, `NotCrossed`, `CallInv`; then `HandlesNameTheirOrder`, `VolumeLabelled` |
| `SlotIdPoolProofs` | types, no id issued twice, none lost, `acquire` fails only when all are in use | `TypeOK`, `IssuedOnce`, `NoIdLost`, `CallInv` |
| `SequencedSPSCProofs` | `SequencedSPSC`: types, reads in order, copies on different slots, refusal means full; it implements `Fifo` | `TypeOK`, `SlotInv`, `ReadsInOrder` |
| | `LfqRunner`: types, no lost wake-up, `stop` joins an awake thread | `RunnerTypeOK`, `WaitInv`, `NoLostWakeUp`, `JoinsAwakeThread` |
| | `TurboSPSC`: no byte copied by both sides, reads whole and in order; it implements `Fifo` | `TurboCore` |
| `OrderGatewayProofs` | types, ids conserved, what is in flight belongs, statuses to their owner, the life of an order, cancels carry the book's id, reuse only once told | `TypeOK`, `IdsConserved`, `MessageInv`, `QueuesDistinct`, `OneCarrier`, `RecordInv`, `RepliesInv`, `StatusToOwner`, `Lifecycle` |
| `TradeEngineProofs` | the client's ids and the server's are conserved, a status finds its order, a cancel names the order it is for, and is sent once | `EngineInv`, carried by `InOnePlace` |
| `BufferPoolProofs` | every buffer is in one place, so two messages never share one; a release fails only beside a pop that has taken the index of that slot and not yet given it back | `BufferPoolInv`: `PoolTypeOK`, `SlotsInv`, `EveryBufferOnce` |
| `ProcessProofs` | server: no event lost, the network starts last, orders find their worker, what is used outlives its users | `ServerInv`, carried by `StartsInOrder`, `StopsInOrder` |
| | client: the same order of start and stop, orders have a channel until a loss is handled | `ClientInv`, carried by `StepsInOrder` |
| | price feed: its chain of timer waits neither breaks nor forks, published prices stay in reach | `FeedInv` |
| | Kafka adapter: consumer and producer both or none, one chain of polls, a handle for every topic when started, flushed when stopped, and where handles without a producer come from | `KafkaInv`, carried by `FirstStart`, `TopicsConnected` |

*Why the strengthenings.* A step of the book is either one that cancels only what
rests (`LawfulNext`) or sets `stale` (`LawfulUntilStale`); the invariant is kept by
the former and the disjunction `stale \/ IInv` by all. In the book the properties hold between calls, while
`match` and `cancel` pass through states in which a level is being emptied;
`CallInv` says what holds there of the order being matched and of the level it
matches with. The masks are exact only because a level's list is empty exactly
when its ends are 0, hence the lists are part of the invariant; that the best
price found by the scan is the best one is a lemma on scans of a sequence of words
(`BookLevelProofs`). `VolumeLabelled` states the sum of a level without recursion,
by labels on its nodes that add up along the list. The
refinement needs two more facts: a cancel finds the node of the order it was made
for, which is what `HandlesNameTheirOrder` says of the generations in the handles,
and a node that is appended or unlinked changes the set of resting orders by that
one order, because no two of them have the same id; the step that sets `stale` is
the one the abstract book allows to answer `Cancelled` and to stop being a book
(`StaleMisleads`). In the pool an id is on the
local stack, in the ring, fresh, held or in one of two calls: `CallInv` says which
of these the half-finished calls account for. In the queue `SlotInv` ties each
slot's sequence number to both indices and to where each thread is. It also gives
the refinement: by it the slots between the indices hold the messages written and
not read yet (`QueueOfSlots`), so storing a sequence number appends to the abstract
queue, releasing a slot removes its head, and every other step leaves it alone
(`FifoStep`). In the gateway the difficulty is the network thread, which checks a
record, then uses it, while the gateway thread closes it: `OneCarrier` (one message
at most is under way for an open record) and `QueuesDistinct` exclude the cases in
which it would be reused in between, and `RecordInv` relates the record to what its
client was told. In the runner `WaitInv` says that the flag is up, and the futex
value known, from before the last look at the queue until the thread is awake.

In the client's engine the message, the record, the status and the queued cancel
of an order replace one another; that there is one of them at a time
(`InOnePlace`) is what keeps its index from being freed twice. In the buffer pool
any number of threads push and pop at once: `SlotsInv` gives each position between
`head_` and `tail_`, and each one still free, the sequence number its slot must
have or the one thread that is about to store it, so that two threads never win
the same position. A full ring then needs a pop in progress by counting: the
releasing thread holds a buffer, so at most `PoolSize - 1` can be in the ring. In
the control centres the safety of each shutdown step depends on how far both the
main thread and the others are; `StartsInOrder`, `StopsInOrder` and `StepsInOrder`
say it. For the adapter, that a stopped one has nothing to flush is kept by no step
on its own: it needs that a handle beside a producer exists only while it is
started, and that a second `start` never gets past a consumer that is there
(`FirstStart`). In the engine's proof the gateway's two steps are the states
`Accepting` and `Closing` of a record: what the client was told of is `Told`, and a
cancel may find it before `Accepted` is stored.
In the byte queue everything is a multiple of the message size, so a position in
the ring is one of `BUFFER_SIZE \div SIZE` cells and the argument is that of slots.

*Assumptions.* Those named in the modules, each an `ASSUME` that TLC evaluates on
the bounded instances: capacities are positive (`BookAssumption`, `PoolAssumption`,
`QueueAssumption`, `RunnerAssumption`, `GatewayAssumption`, `EngineAssumption`),
generations wrap at `MaxGen`, a pool has at least two buffers (`BufferAssumption`),
the byte ring is a multiple of the message (`TurboAssumption`), trends last at
least one microsecond and no price falls below zero within the time the model lasts
(`FeedAssumption`), topics are numbered (`KafkaAssumption`). `ServerConstants` and
`ClientConstants` (bounds are numbers) are hypotheses of their theorems, because the
run has several instances; `ProcessAssumption` states them of those. The theorems
on the book assume nothing of the cancels. Those on the gateway hold under
`CancelOnce`, which is part of its `Spec` and is what `EngineKeepsItsOrders` proves
of the client; `gateway_any_cancel` shows what happens without it.

*Only model-checked.* All liveness properties: fairness is out of the prover's
reach. And the modules not named in the table: `FlatOrderBook`, `WorkerStatuses`,
`TrustedSession`, `ShmReactor`, the network login with `SessionServer` and its
channels, the monitor, `StreamFraming` and `DomainSerializer`, the last of which is
defined by recursion.

Leaves that are a matter of cases and UNCHANGED name Zenon, which settles them at
once where the translation to SMT takes long; arithmetic, sequences and chains of
equalities are left to SMT. Most leaves take a fraction of a second. `tlapm` needs
one to twelve minutes for a module, and about half an hour for `ProcessProofs`.

## Not modelled

- **Queries and tables of the database** (`adapters/postgres`): login and the load
  of the tickers are modelled as their callers see them, with failures; the table
  readers and writers are called by nothing.
- **Console and Kafka texts of commands**: a command is an action of the component
  it addresses.
- **`MessageBus`, `BusHub` and the bus adapters**: a post is a call of the one
  handler and is in the action of its caller; they have no state after start-up.
- **`StreamBus`, `CtxRunner`**: not in use.
- **Datagram transport**: the server drops the transport it is given, so no price
  is ever sent on it.
- **Configuration, logging, `main`, benchmarks, dummy adapters**: sequential
  parsing, output and measurement.
- **Weak memory beyond the store buffer of `LfqRunner`**: the other modules
  interleave their shared accesses; the code's acquire and release orders are what
  justifies it. The plain fields two threads share (`upstreamChannel_`,
  `RttTracker`) are split into load and store where the value matters.
- **`AtomicHashMap` (folly)**: `insert` fails for a key that is there and `erase`
  removes it; that erased keys use up its capacity is not modelled.
- **Wrap of 32- and 64-bit counters** (`nextFreeIdx_`, sequence numbers): out of the
  reach of any run; generations and the futex counter, whose wrap matters, wrap.
