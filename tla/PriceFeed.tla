------------------------------ MODULE PriceFeed ------------------------------
(***************************************************************************)
(* The server's price feed (server/src/price_feed.hpp): commands start and *)
(* stop it, a timer on the system context lets every ticker follow its     *)
(* local trend, and changed prices are posted.                             *)
(*                                                                         *)
(* The context runs its handlers in order; a wait that has expired is a    *)
(* queued handler that cancel() no longer reaches.  Time passes between    *)
(* handlers in nanoseconds.  A price is kept in halves of the unit that is *)
(* posted, so that rounding matters.                                       *)
(***************************************************************************)
EXTENDS Integers, Sequences

CONSTANTS
  FeedTickers,           \* the tickers of the database
  MIN_DURATION_US, MAX_DURATION_US,   \* shortest and longest trend
  BASE,              \* price of every ticker in the database
  MAX_RATE,          \* fastest change of price, in halves per unit of time
  MAX_TIME,          \* nanoseconds the model lasts
  MAX_COMMANDS       \* commands typed

\* A price cannot fall below zero within the time the model lasts.
FeedConstants ==
  /\ MIN_DURATION_US \in Nat \ {0} /\ MAX_DURATION_US \in Nat
  /\ BASE \in Nat /\ MAX_RATE \in Nat /\ MAX_TIME \in Nat /\ MAX_COMMANDS \in Nat
  /\ MAX_RATE * MAX_TIME <= 2 * BASE

ASSUME FeedAssumption == FeedConstants

VARIABLES
  now,         \* getTimestampNs
  calls,       \* handlers queued on the system context
  armed,       \* priceUpdateTimer_ has a pending wait
  updating,    \* updating_
  trend,       \* Fluctuation of each ticker
  published,   \* history: the price last posted
  commands     \* commands typed so far

feedVars == <<now, calls, armed, updating, trend, published, commands>>

Rates == (-MAX_RATE)..MAX_RATE
Durations == MIN_DURATION_US..MAX_DURATION_US

FeedInit ==
  /\ now = 0 /\ calls = <<>> /\ armed = FALSE /\ updating = FALSE /\ commands = 0
  /\ trend \in [FeedTickers -> [price : {2 * BASE}, rate : Rates, duration : Durations, lastUpdate : {0}]]
  /\ published = [t \in FeedTickers |-> BASE]

\* std::round of the price; prices stay positive.
getPrice(f) == (f.price + 1) \div 2

-----------------------------------------------------------------------------
(* One ticker *)

\* The trend goes on for the time since the last update, at most to its end.
Advance(f) ==
  LET timeDelta == now - f.lastUpdate
      delta == IF f.duration > timeDelta THEN timeDelta ELSE f.duration
  IN  [f EXCEPT !.price = @ + f.rate * delta, !.duration = @ - delta]

\* When it is over another one is drawn: randomize.
Updates(f) ==
  LET g == Advance(f)
  IN  IF g.duration = 0 THEN [price : {g.price}, rate : Rates, duration : Durations, lastUpdate : {now}]
      ELSE {[g EXCEPT !.lastUpdate = now]}

\* update() returns whether the price differs from that of the database.
Changed(f) == getPrice(f) # BASE

\* updatePrices: every ticker is updated, every changed price posted.
updatePrices ==
  /\ trend' \in {f \in [FeedTickers -> UNION {Updates(trend[t]) : t \in FeedTickers}] :
                   \A t \in FeedTickers : f[t] \in Updates(trend[t])}
  /\ published' = [t \in FeedTickers |-> IF Changed(trend'[t]) THEN getPrice(trend'[t]) ELSE published[t]]

-----------------------------------------------------------------------------
(* Handlers of the system context *)

FaultySchedule(on) == armed' = (on /\ ~armed)
\* expires_after cancels the pending wait, whose handler then does nothing.
schedulePriceUpdate(on) == armed' = IF on THEN TRUE ELSE armed

startFeed ==
  /\ calls # <<>> /\ Head(calls) = "start" /\ calls' = Tail(calls)
  /\ updating' = TRUE /\ schedulePriceUpdate(TRUE)
  /\ UNCHANGED <<now, trend, published, commands>>

stopFeed ==
  /\ calls # <<>> /\ Head(calls) = "stop" /\ calls' = Tail(calls)
  /\ armed' = FALSE /\ updating' = FALSE
  /\ UNCHANGED <<now, trend, published, commands>>

\* The handler of the wait.
OnFeedTimer ==
  /\ calls # <<>> /\ Head(calls) = "timer" /\ calls' = Tail(calls)
  /\ updatePrices /\ schedulePriceUpdate(updating)
  /\ UNCHANGED <<now, updating, commands>>

\* The wait expires: its handler is queued and can no longer be cancelled.
FeedExpire ==
  /\ armed /\ armed' = FALSE /\ calls' = Append(calls, "timer")
  /\ UNCHANGED <<now, updating, trend, published, commands>>

\* p+ and p- on the console.
Command ==
  /\ commands < MAX_COMMANDS /\ commands' = commands + 1
  /\ \E c \in {"start", "stop"} : calls' = Append(calls, c)
  /\ UNCHANGED <<now, armed, updating, trend, published>>

Elapse ==
  /\ now < MAX_TIME /\ now' = now + 1
  /\ UNCHANGED <<calls, armed, updating, trend, published, commands>>

Handle == startFeed \/ stopFeed \/ OnFeedTimer
FeedNext == Handle \/ FeedExpire \/ Command \/ Elapse

\* The context runs what is queued, and a wait expires.
FeedSpec == FeedInit /\ [][FeedNext]_feedVars /\ WF_feedVars(Handle) /\ WF_feedVars(FeedExpire)

-----------------------------------------------------------------------------
\* Every variable has its type; a trend never outlasts what was drawn for it.
FeedTypeOK ==
  /\ now \in 0..MAX_TIME /\ armed \in BOOLEAN /\ updating \in BOOLEAN /\ commands \in 0..MAX_COMMANDS
  /\ calls \in Seq({"start", "stop", "timer"}) /\ published \in [FeedTickers -> Nat]
  /\ trend \in [FeedTickers -> [price : Nat, rate : Rates, duration : 1..MAX_DURATION_US, lastUpdate : 0..now]]

Timers == {k \in DOMAIN calls : calls[k] = "timer"}

\* A running feed never dies: as long as updating_ is set a wait is pending or
\* the handler of one is queued, however starts, stops and expiries mix.
FeedAlive == updating => armed \/ Timers # {}

\* The price posted last is the current one after every update, except that a
\* price which is back at that of the database is not posted.
PublishedOrBase == \A t \in FeedTickers : getPrice(trend[t]) \in {published[t], BASE}

\* A price has moved no further than the fastest trend takes it.
PriceWithinReach == \A t \in FeedTickers : trend[t].price >= 2 * BASE - MAX_RATE * trend[t].lastUpdate

\* Safety: the feed goes on as long as it is wanted, and what it posted is true.
FeedInv == FeedTypeOK /\ FeedAlive /\ PublishedOrBase /\ PriceWithinReach
=============================================================================
