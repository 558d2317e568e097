------------------------------ MODULE Monitor ------------------------------
(***************************************************************************)
(* The monitor process (monitor/src): its control centre and console on    *)
(* the system thread, the telemetry adapter on the thread of the           *)
(* ShmReactor, and the latency statistics both threads work on without a   *)
(* lock.  Another process writes telemetry into the shared queue.          *)
(*                                                                         *)
(* The statistics are memory cells that are loaded and stored one by one:  *)
(* sum and size of every bucket; the maximum, which is only shown, is left *)
(* out.  Of the reactor's wait, whose steps are those of ShmReactor, two   *)
(* places are left: the gap behind its last poll, where a notify is lost,  *)
(* and its sleep, which a notify ends.                                     *)
(***************************************************************************)
EXTENDS Naturals, Sequences, FiniteSets, FiniteSetsExt

CONSTANTS
  Capacity,      \* messages the telemetry queue holds
  Ranges,        \* RTT_RANGES: where the buckets begin, ascending
  Latencies,     \* latencies that occur, in ns; 0 stands for other telemetry
  MAX_MESSAGES,  \* telemetry messages written
  MAX_INPUTS     \* lines typed

VARIABLES
  calls,         \* handlers queued on the system context
  subscribed,    \* events with a subscriber
  sys,           \* the system thread: what it does
  readyMask, nsPerCycle, stopReq,
  inputs,        \* lines typed so far
  queue,         \* the telemetry queue
  reactor,       \* the reactor's thread
  rtt, loaded,   \* its locals in logRtt: the sample, and the cell as loaded
  cells,         \* sGlobalStats
  snap, at,      \* the statistics handler: snapshot, and the cell it is at
  written, dropped,         \* history: messages produced, and those refused
  received, logged, reported,   \* history: messages taken, samples in, samples shown
  raced          \* history: logRtt and the statistics handler overlapped

statVars == <<cells, snap, at, reported>>
logVars == <<reactor, rtt, loaded, received, logged>>
linkVars == <<queue, written, dropped>>
sysVars == <<calls, subscribed, sys, readyMask, nsPerCycle, stopReq, inputs>>
vars == <<sysVars, linkVars, logVars, statVars, raced>>

\* Bucket b keeps its sum in cell 2b + 1 and its size in cell 2b + 2.
RangeCount == Len(Ranges) + 1
Cell == 1..(2 * RangeCount)
Zero == [c \in Cell |-> 0]

\* The reactor's places inside logRtt.
Logging == {"loadSum", "storeSum", "loadSize", "storeSize"}

getRange(ns) == Cardinality({i \in DOMAIN Ranges : ns >= Ranges[i]})

volume(s) == FoldSet(LAMBDA b, n : n + s[2 * b + 2], 0, 0..(RangeCount - 1))

-----------------------------------------------------------------------------
(* Console commands: the parsers of client, server and monitor in turn *)

clientParse(cmd) == IF cmd \in {"s+", "s-", "t+", "t-", "q"} THEN <<<<"client", cmd>>>> ELSE <<>>
serverParse(cmd) == IF cmd \in {"p+", "p-", "t+", "t-", "q"} THEN <<<<"server", cmd>>>> ELSE <<>>
parse(cmd) ==
  clientParse(cmd) \o serverParse(cmd) \o (IF cmd = "q" THEN <<<<"monitor", cmd>>>> ELSE <<>>)

Shutdown == <<"monitor", "q">>

\* The constructor subscribes and posts the calibration, start() adds the
\* telemetry reader before the system context runs; LatencyTracker has
\* subscribed on the market bus, so that bus_.run() finds every handler set.
Init ==
  /\ calls = <<<<"subscribe", "ready">>, <<"subscribe", "q">>, <<"calibrate", "">>>>
  /\ subscribed = {} /\ sys = "run" /\ readyMask = {} /\ nsPerCycle = 0 /\ stopReq = FALSE
  /\ inputs = 0 /\ queue = <<>> /\ reactor = "off" /\ rtt = 0 /\ loaded = 0
  /\ cells = Zero /\ snap = Zero /\ at = 1
  /\ written = 0 /\ dropped = 0 /\ received = 0 /\ logged = Zero /\ reported = Zero /\ raced = FALSE

-----------------------------------------------------------------------------
(* The system thread *)

inputCheck ==
  /\ sys = "run" /\ inputs < MAX_INPUTS /\ inputs' = inputs + 1
  /\ \E cmd \in {"q", "p+", "?"} : calls' = calls \o parse(cmd)
  /\ UNCHANGED <<subscribed, sys, readyMask, nsPerCycle, stopReq, linkVars, logVars, statVars, raced>>

OnSubscribe ==
  /\ sys = "run" /\ calls # <<>> /\ Head(calls)[1] = "subscribe"
  /\ subscribed' = subscribed \cup {Head(calls)[2]} /\ calls' = Tail(calls)
  /\ UNCHANGED <<sys, readyMask, nsPerCycle, stopReq, inputs, linkVars, logVars, statVars, raced>>

Calibrate ==
  /\ sys = "run" /\ calls # <<>> /\ Head(calls)[1] = "calibrate"
  /\ nsPerCycle' = 1 /\ calls' = Append(Tail(calls), <<"ready", "Time">>)
  /\ UNCHANGED <<subscribed, sys, readyMask, stopReq, inputs, linkVars, logVars, statVars, raced>>

\* post(ComponentReady): with Time alone the reactor is started.
OnReady ==
  /\ sys = "run" /\ calls # <<>> /\ Head(calls)[1] = "ready" /\ "ready" \in subscribed
  /\ calls' = Tail(calls) /\ readyMask' = readyMask \cup {Head(calls)[2]}
  /\ reactor' = IF readyMask' = {"Time"} /\ reactor = "off" THEN "started" ELSE reactor
  /\ UNCHANGED <<subscribed, sys, nsPerCycle, stopReq, inputs, linkVars, rtt, loaded, received, logged, statVars, raced>>

\* ShmQueue::notify, by its effect: who sleeps is woken, who is not asleep yet
\* does not notice.
notify == reactor' = IF reactor = "asleep" THEN "poll" ELSE reactor

\* Commands for the other programs have no subscriber here.  stop() requests the
\* stop, and reactor_.stop() notifies ...
OnCommand ==
  /\ sys = "run" /\ calls # <<>> /\ Head(calls)[1] \in {"client", "server", "monitor"}
  /\ calls' = Tail(calls)
  /\ IF Head(calls) = Shutdown /\ "q" \in subscribed
       THEN stopReq' = TRUE /\ sys' = "join" /\ notify
       ELSE UNCHANGED <<stopReq, sys, reactor>>
  /\ UNCHANGED <<subscribed, readyMask, nsPerCycle, inputs, linkVars, rtt, loaded, received, logged,
                 statVars, raced>>

\* ... and joins the reactor's thread if there is one.
Join ==
  /\ sys = "join" /\ reactor \in {"off", "ended"}
  /\ sys' = "stopped"
  /\ UNCHANGED <<calls, subscribed, readyMask, nsPerCycle, stopReq, inputs, linkVars, logVars, statVars, raced>>

\* The statistics timer expires: the handler takes a snapshot cell by cell.
StatsTimer ==
  /\ sys = "run" /\ sys' = "snap" /\ at' = 1
  /\ raced' = (raced \/ reactor \in Logging)
  /\ UNCHANGED <<calls, subscribed, readyMask, nsPerCycle, stopReq, inputs, linkVars, logVars, cells, snap, reported>>

getStats ==
  /\ sys = "snap"
  /\ LET s == [snap EXCEPT ![at] = cells[at]]
     IN  IF at < Len(cells) THEN snap' = s /\ at' = at + 1 /\ UNCHANGED <<sys, reported>>
         ELSE /\ at' = 1 /\ snap' = Zero
              /\ sys' = IF volume(s) = 0 THEN "run" ELSE "reset"
              /\ reported' = IF volume(s) = 0 THEN reported ELSE [c \in Cell |-> reported[c] + s[c]]
  /\ UNCHANGED <<calls, subscribed, readyMask, nsPerCycle, stopReq, inputs, linkVars, logVars, cells, raced>>

FaultyReset ==
  /\ sys = "reset"
  /\ cells' = [cells EXCEPT ![at] = 0]
  /\ IF at < Len(cells) - 1 THEN at' = at + 1 /\ UNCHANGED sys ELSE at' = 1 /\ sys' = "run"
  /\ UNCHANGED <<calls, subscribed, readyMask, nsPerCycle, stopReq, inputs, linkVars, logVars, snap, reported, raced>>

reset ==
  /\ sys = "reset"
  /\ cells' = [cells EXCEPT ![at] = 0]
  /\ IF at < Len(cells) THEN at' = at + 1 /\ UNCHANGED sys ELSE at' = 1 /\ sys' = "run"
  /\ UNCHANGED <<calls, subscribed, readyMask, nsPerCycle, stopReq, inputs, linkVars, logVars, snap, reported, raced>>

-----------------------------------------------------------------------------
(* The thread of the reactor *)

ReportIpc ==
  /\ reactor = "started" /\ reactor' = "poll"
  /\ calls' = Append(calls, <<"ready", "Ipc">>)
  /\ UNCHANGED <<subscribed, sys, readyMask, nsPerCycle, stopReq, inputs, linkVars, rtt, loaded, received, logged, statVars, raced>>

\* LatencyTracker::post keeps latencies only.
kept(msg) == msg # 0

\* A message is read and posted on the market bus.
Receive ==
  /\ reactor = "poll" /\ ~stopReq /\ queue # <<>>
  /\ queue' = Tail(queue) /\ received' = received + 1
  /\ rtt' = Head(queue) * nsPerCycle
  /\ reactor' = IF kept(Head(queue)) THEN "loadSum" ELSE "poll"
  /\ raced' = (raced \/ (kept(Head(queue)) /\ sys \in {"snap", "reset"}))
  /\ UNCHANGED <<sysVars, written, dropped, loaded, logged, statVars>>

\* One half of s.sum += rtt or s.size += 1.
LoadCell(from, to, c) ==
  /\ reactor = from /\ reactor' = to
  /\ loaded' = cells[c]
  /\ UNCHANGED <<sysVars, linkVars, rtt, received, logged, statVars, raced>>

StoreCell(from, to, c, n) ==
  /\ reactor = from /\ reactor' = to
  /\ cells' = [cells EXCEPT ![c] = loaded + n]
  /\ logged' = [logged EXCEPT ![c] = @ + n]
  /\ UNCHANGED <<sysVars, linkVars, rtt, loaded, received, snap, at, reported, raced>>

logRtt ==
  LET b == getRange(rtt)
  IN  \/ LoadCell("loadSum", "storeSum", 2 * b + 1)
      \/ StoreCell("storeSum", "loadSize", 2 * b + 1, rtt)
      \/ LoadCell("loadSize", "storeSize", 2 * b + 2)
      \/ StoreCell("storeSize", "poll", 2 * b + 2, 1)

\* The idle passes are used up: the queue was empty at the last poll, or a stop
\* request broke the pass off.
SpinEnds ==
  /\ reactor = "poll" /\ (queue = <<>> \/ stopReq) /\ reactor' = "gap"
  /\ UNCHANGED <<sysVars, linkVars, rtt, loaded, received, logged, statVars, raced>>

FallAsleep ==
  /\ reactor = "gap" /\ reactor' = "asleep"
  /\ UNCHANGED <<sysVars, linkVars, rtt, loaded, received, logged, statVars, raced>>

EndLoop ==
  /\ reactor = "poll" /\ stopReq /\ reactor' = "ended"
  /\ UNCHANGED <<sysVars, linkVars, rtt, loaded, received, logged, statVars, raced>>

-----------------------------------------------------------------------------
(* The process that produces telemetry; its writer gives up on a full queue *)

PostTelemetry ==
  /\ written < MAX_MESSAGES /\ written' = written + 1
  /\ \/ /\ Len(queue) < Capacity /\ \E l \in Latencies : queue' = Append(queue, l)
        /\ notify /\ UNCHANGED dropped
     \/ Len(queue) = Capacity /\ dropped' = dropped + 1 /\ UNCHANGED <<queue, reactor>>
  /\ UNCHANGED <<sysVars, rtt, loaded, received, logged, statVars, raced>>

HandleCall == OnSubscribe \/ Calibrate \/ OnReady \/ OnCommand
SystemStep == HandleCall \/ Join \/ getStats \/ reset
ReactorStep == ReportIpc \/ Receive \/ logRtt \/ SpinEnds \/ FallAsleep \/ EndLoop
Next == inputCheck \/ StatsTimer \/ SystemStep \/ ReactorStep \/ PostTelemetry

\* Both threads run; nobody has to type or send anything.  The context runs
\* its handlers in the order they were queued: the timer, which queues itself
\* again, cannot keep a queued call waiting for ever.
Spec == Init /\ [][Next]_vars /\ WF_vars(SystemStep) /\ SF_vars(HandleCall) /\ WF_vars(ReactorStep)

-----------------------------------------------------------------------------
\* Every variable has its type; a sample being logged is one of the latencies.
TypeOK ==
  /\ sys \in {"run", "snap", "reset", "join", "stopped"}
  /\ reactor \in {"off", "started", "poll", "gap", "asleep", "ended"} \cup Logging
  /\ readyMask \subseteq {"Time", "Ipc"} /\ queue \in Seq(Latencies) /\ Len(queue) <= Capacity
  /\ {cells, snap, logged, reported} \subseteq [Cell -> Nat] /\ at \in Cell
  /\ reactor \in Logging => getRange(rtt) < RangeCount

\* The reactor's thread converts cycles to nanoseconds only after the system
\* thread has measured nsPerCycle, which has no value before.
CalibratedBeforeUse == received > 0 => nsPerCycle = 1

\* No telemetry disappears: what was produced was refused at a full queue,
\* is in the queue, or has been received.
TelemetryConserved == written = dropped + Len(queue) + received

\* As long as logRtt and the statistics handler never overlapped, the reports
\* are exact: what was shown and what is still in the table is what was
\* logged, in every bucket, sums and sizes.
ExactWithoutOverlap ==
  ~raced /\ sys \in {"run", "join", "stopped"} /\ reactor \notin Logging =>
    \A c \in Cell : reported[c] + cells[c] = logged[c]

\* Every sample is counted in the bucket whose range it lies in.
BucketsHoldTheirRange ==
  reactor \notin Logging =>
    \A b \in 0..(RangeCount - 1) :
      LET n == logged[2 * b + 2]
          sum == logged[2 * b + 1]
      IN  /\ b > 0 => sum >= n * Ranges[b]
          /\ (b < RangeCount - 1 /\ n > 0) => sum < n * Ranges[b + 1]

\* When stop() has returned nobody touches the statistics any more: control
\* centre, tracker and adapter are destroyed next.
QuietAfterStop == sys = "stopped" => reactor \in {"off", "ended"}

\* The monitor comes up, or is shut down first.
IsUp == readyMask = {"Time", "Ipc"} \/ stopReq

\* A typed q ends the monitor, whatever the other parsers make of it.
ToldToEnd == \E k \in DOMAIN calls : calls[k][1] # "subscribe" /\ calls[k][2] = "q"
Ended == sys = "stopped"

\* The reactor sleeps over what came in its gap, until the next notify.
Oversleeps == reactor = "asleep"

\* Safety: the statistics shown are those of the telemetry sent.
Inv ==
  /\ TypeOK /\ CalibratedBeforeUse /\ TelemetryConserved /\ BucketsHoldTheirRange
  /\ ExactWithoutOverlap /\ QuietAfterStop
=============================================================================
