# Verification of the MACD trading bot

TLA+ specifications of the bot in `src/` (C++20, Boost.Asio/Beast), TLC
configurations that check them on small instances, and TLAPS proofs of what
matters most for every instance. `PROJECT.json` lists the components, the runs,
a mutant for every checked property, the source lines of every definition, the
hazards, the findings and the theorems.

Contents: [the system](#the-system) · [modules](#modules) ·
[how the code became actions](#how-the-code-became-actions) · [runs](#runs) ·
[fairness](#fairness) · [proofs](#proofs) · [findings](#findings) ·
[what is not modelled](#what-is-not-modelled) · [plan](#plan)

## The system

The bot takes one-minute bars of a stock from Alpaca's WebSocket stream,
consolidates them into five-minute bars, computes EMA, ATR and MACD on those,
and is meant to trade on what they say through Alpaca's REST interface. It is a
reactor: one thread runs one `io_context`, so nothing runs in parallel and
every difficulty is one of *order*: what happens between two suspension points
of a coroutine, or between an operation and its callback.

    Alpaca stream --frames--> WebSocketSession --on_websocket_frame--> AlpacaWSMarketFeed
                                                                            | signal, per bar
    IndicatorEngine <--signal, per aggregated bar-- BarAggregator <---------+
         | signal, per bar once ready
         v
    (Strategy, TradeEngine: described in README.md, not written yet)
         |
    alpaca_trade_client --co_await request()--> async_rest_client --HTTP(S)--> Alpaca REST

| Component | State | Operations | Hard behaviours |
|---|---|---|---|
| **async_rest_client** (`src/async_rest_client`) | task queue, `_is_processing`, `_connection_state`, `_current_origin`, `_is_tls`, a plain and a TLS stream | `request()`, `connect()`, the detached coroutine `process_queue()`, `graceful_shutdown()`, the destructor | one connection shared by all requesters; switching hosts; a deadline set at connect time; coroutines that resume each other inside a call; exceptions in a detached coroutine |
| **WebSocketSession** (`src/src`) | `_connected`, `_should_reconnect`, `_write_queue`, `_ping_timer`, `_ws` | `start()`, `stop()`, `send()`, one callback per operation, `fail()`/`reconnect()` | several outstanding operations that all fail when the link does; one write at a time; stale callbacks; reconnecting on the same SSL object |
| **AlpacaWSMarketFeed** | `_authenticated`, `_subscribed_symbols`, the session, a signal | `start()`, `stop()`, `subscribe_to_bars()`, `on_websocket_frame()` | a login dialogue interleaved with the owner's calls; subscribers that throw; frames after `stop()` |
| **BarAggregator**, `Bar` | `_current_aggregated_bar`, `_bars_in_current_window`, `_last_input_bar`, a signal | `on_bar()` | gaps in the feed, several symbols, a subscriber that throws in the middle of `on_bar()` |
| **EMA, ATR, MACD** | a running value and a counter per average | `write()`, `read()`, `is_ready()` | warm-up counters that run at different paces, one average fed by two others |
| **IndicatorEngine**, registry, registrar | indicators by name, their snapshots, a signal | constructor, `on_bar()` | "all ready" over indicators that need different numbers of bars; later configurations that replace earlier ones |
| **alpaca_trade_client** | none but the REST client's | one coroutine per REST call, all through `make_api_request()` | a request whose outcome is unknown; lists decoded all or nothing; orders and positions that change between two requests |
| **Broker data** | none | `value_to()` and `value_from()` per struct, `enum_mapping` | enum values and fields the decoder does not know; two lists of keys kept by hand |
| **Utils, Logger** | none | time stamps, CSV, log sinks | time stamps cut to the minute |

What makes them correct, in one line each:

- async_rest_client: every request is answered once, in order, from the host it
  names, and no request waits for a loop that is not running.
- WebSocketSession: messages leave in the order of `send()`, one write at a
  time; a session that is not connected is trying to be; a stopped one rests.
- AlpacaWSMarketFeed: a subscription is sent exactly when the server will take
  it, whenever the owner asked; bars arrive in order.
- BarAggregator: every accepted bar is in exactly one aggregated bar, which says
  of its bars what an OHLCV bar should.
- IndicatorEngine: ready with exactly the bar the slowest indicator needs, one
  update per bar from then on, and the values the textbook gives.
- Aggregator and engine together: the engine's bars are the summaries of the
  accepted minutes, even after a subscriber has thrown through both.
- alpaca_trade_client: nothing is done twice, and a result says what the broker
  did: a value is all of it, an `http_error` that it did nothing, and only a
  `network_error` leaves it open.
- Broker data: what is read can be written, and read again as the same.

## Modules

| Module | Models | Instance for TLC | Proofs |
|---|---|---|---|
| `RequestService` | what `async_rest_client` promises its requesters: one queue, answers in order, once each (abstract specification) | through `AsyncRestClient` | `AsyncRestClientProofs` |
| `BrokerCalls` | what `alpaca_trade_client` promises its callers: each call carried out once at most, and results that say whether it was (abstract specification) | through `TradeClient` | `TradeClientProofs` |
| `AsyncRestClient` | `async_rest_client.cpp`, `typed_task.hpp`, `base_task.hpp`; implements `RequestService` | `MCAsyncRestClient` | `AsyncRestClientProofs` |
| `WebSocketSession` | `WebSocketSession.cpp` | `MCWebSocketSession` | `WebSocketSessionProofs` |
| `AlpacaWSMarketFeed` | `AlpacaWSMarketFeed.cpp`; EXTENDS `WebSocketSession`, whose peer becomes Alpaca's stream | `MCAlpacaWSMarketFeed` | `AlpacaWSMarketFeedProofs` |
| `BarAggregator` | `BarAggregator.hpp`, `isConsecutive()` of `Bar.hpp` | `MCBarAggregator`, `MCPipeline` | `BarAggregatorProofs` |
| `IndicatorEngine` | `IndicatorEngine.hpp`, `IndicatorRegistry.hpp`, `EMA.cpp`, `ATR.cpp`, `MACD.cpp` | `MCIndicatorEngine` | `IndicatorEngineProofs` |
| `Pipeline` | the two in one call chain, as `tests/TestIndicatorEngine.cpp` wires them; EXTENDS `BarAggregator`, has an INSTANCE of `IndicatorEngine` | `MCPipeline` | `PipelineProofs` |
| `BrokerJson` | `json_utils.cpp`, `enum_serialization.hpp`: the conversions of broker data, as tables of fields | through `TradeClient` | `BrokerJsonProofs` |
| `TradeClient` | `alpaca_trade_client.cpp` on top of `RequestService`; EXTENDS `BrokerJson`; implements `BrokerCalls` | `MCTradeClient` | `TradeClientProofs` |
| `Fractions` | exact fractions, in place of the indicators' doubles | through `IndicatorEngine` | `IndicatorEngineProofs` |

Three compositions carry the parts together: `AlpacaWSMarketFeed` is a session
with its owner and server, `Pipeline` an aggregator with its engine, and
`TradeClient` stands on `RequestService`, which `AsyncRestClient` implements, so
that the broker's calls need not be checked with the loop's suspension points
all over again.

The two abstract specifications are small, and each is what somebody who uses
the component may rely on: `RequestService` is for coroutines that await
`request()`, `BrokerCalls` for a coroutine that must decide whether to repeat a
call. The refinement mappings (`ImplementsRequestService`, `Promise`) map
histories and queues of the detailed models, never their control. Session and
feed have none: all that a channel would promise is that what comes out is what
was given, in that order, which `SentInOrder` and `BarsInOrder` say already.

Variables carry the names of the members they stand for (`isProcessing` for
`_is_processing`), actions those of the functions or callbacks (`OnSslHandshake`
for `on_ssl_handshake()`). Definitions marked *Mutant* are not part of the
model: each is a plausible mistake in the code, and putting it in the place of
the definition below it must break the property `PROJECT.json` names.

## How the code became actions

**One thread.** An action is the code from one suspension point to the next, or
one whole callback. Where the code calls into another coroutine without
suspending, the caller's place is kept and everybody else waits:

- `co_spawn(..., detached)` runs `process_queue()` inside `request()` up to its
  first suspension, before the requester has installed its handler. The
  requester is `"calling"` until `AsyncWait`.
- Answering a task resumes its requester inside the loop, before `pop_front()`:
  `pc[Loop] = "pop"`, and the requester may already make its next request.
- A signal calls its subscribers inside `on_bar()`: an exception of theirs
  leaves `on_bar()` before the lines after the emission (`EmitThrows`).

**AsyncRestClient.** `pc[c]` says where a caller (`Loop`, or a coroutine that
calls `connect()` itself) is suspended. A stream is a record of the origin its
socket leads to, whether exchanges can still succeed on it (`usable`) and
whether its SSL object is unused (`fresh`). The deadline is the event that makes
a stream unusable (`StreamExpires`); with `Faults = FALSE` it comes only while
the loop is idle, which is a network that answers in time. A response that is
left half read is folded into an unusable stream. Completions are delivered in
any order. `Destroy` is terminal: what a suspended coroutine does with a freed
client is undefined, and requests made from a cancelled task's answer are left
out. Verbs, headers and bodies do not occur.

**WebSocketSession.** The stream behaves as Boost documents it: operations of a
lost connection fail one by one; `async_connect` closes the socket first and
aborts what was outstanding on it (`aborted` counts the callbacks due). An SSL
object makes one handshake; `_ws` is never replaced, so a second attempt either
skips the handshake (if the first was done) and speaks to a peer that does not
know the session, or fails. The five seconds `reconnect()` sleeps on the loop
are part of `Fail`: nothing can happen meanwhile. The owner starts the session
once and stops it at most once, with empty `auth_msg` and `sub_msg`, as the feed
does. A close drops the frames it meets.

**AlpacaWSMarketFeed.** Messages and frames are records; a frame brings one or
two bars, numbered as published. The server side (greeting, authentication,
confirmed or refused subscriptions, bars) follows
`src/test-utils/historical_alpaca_ws_endpoint.py` and what the feed expects, and
is marked external. Frames are well formed, so the parse errors that
`on_websocket_frame()` logs do not occur. Two subscribers are connected;
`delivered` is the sequence of the calls of `Call(bar, throws)`, each with the
subscribers it reached: when the first throws on a bar the second is not called
with it.

**BarAggregator.** `Need` is `bars_needed`, the minutes of `Count` ticks of
`TimeUnit`, and `Unit` the minutes of one tick, so that `Unit` divides `Need`
(`UnitAssumption`): `Need = Unit = 3` is an "hour" bar of three minutes, whose
label may lie before the minute that opens its window. Prices are integers. The feed may have gaps, several
symbols, and (in order or not) any minute; as `Utils.cpp:25` cuts time stamps to
the minute, a feed in order may bring two bars of the same minute. An exception, of `on_bar()` or of a
subscriber, goes to the feed, which logs it and goes on. `taken`, `sold`,
`bundles`, `begun` and `streak` are histories for the properties only.

**IndicatorEngine.** An EMA, an ATR and each of a MACD's three EMAs is a
*series* with a period, a counter and a value. `Construct` throws away the
engine when the registry does not know a name or a parameter is missing, and a
later configuration of a name replaces an earlier one. Values are exact
fractions, so rounding is out of reach; periods are positive (the code divides
by zero for 0). The unordered map's order does not matter, as no indicator
reads another. `configured`, `bars` and `heard` are histories.

**Pipeline.** The engine is made first, then bars come. One action is the whole
call chain: `PassBar` is the aggregator's `EmitBar` with the engine's `OnBar` in
it, `PassThrows` the one out of which a subscriber of the engine throws, when
both have changed but the aggregator's window is not restarted. The engine
reads of an aggregated bar only its high, low and close (`Parts`).

**BrokerJson.** A conversion is its table: for each JSON key the kind of value
and whether the code asks for it with `at()` (required), skips it when absent or
null (optional), or when absent (`if_given`). Structs are functions on the keys
of the members that have a value. `Readable` says when `value_to()` does not
throw, `Decode` and `Encode` what the two directions give. Enumerations are
written out word by word, as the fallback of `order_class` and its empty word
matter. The legs of an order are one value, and so is the `body` of a
`position_closed` once it is known to be an order.

**TradeClient.** A call (`Calls`) is `make_api_request()` up to its suspension;
`Answered`, `Fails` and `Destroyed` are what follows, with `Result` for the
status check and the conversion. A call's number stands for its identity and is
the id of the order it creates. The broker is external: it carries out a
request, refuses it, or carries it out after the client has given up (`stray`;
given-up requests that only look are dropped, as they change nothing). Its orders
and positions are sets, sent in some order (`SetToSeq`). Orders
fill, cannot always be cancelled, and may take a status the client does not
know (`"held"`, which Alpaca documents and `enum_mapping` lacks). URLs,
credentials and wording do not occur.

## Runs

All runs pass or fail as `PROJECT.json` says, each in about two minutes or less with
two workers. "Distinct" is the number of distinct states.

| Run | Bounds | Distinct | Shows |
|---|---|---|---|
| `rest_core` | 2 requesters, 2 https origins and a plain one, faults, no other caller of `connect()` | 25 260 | types; no task without a loop (`NoIdleWaiter`); queue and waiters agree (`QueueMatchesWaiters`); requests reach their host, over TLS when they should (`RightPeer`); `RequestService` is implemented; everything is answered unless a shutdown throws (`AnsweredUnlessThrown`) |
| `rest_connect` | 2 requesters (symmetric), one https and one plain origin, a coroutine that calls `connect()` | 1 848 513 | with overlapping `connect()` calls the queue still matches its waiters (`QueueMatchesWaiters`), CONNECTING is always released (`NeverStuckConnecting`), and a `connect()` that is alone by the time it reads `_is_tls` again finds what its own URL asks for (`ConnectsAsAsked`) |
| `ws_session` | 2 messages, 3 sends, 2 faults | 58 369 | one write at a time, nothing stuck in the queue (`WriteInProgress`); order (`SentInOrder`); an attempt or its cause is always under way (`KeepsTrying`); attempts do not multiply (`FewAttempts`); a connected session reads and pings (`Listening`); messages are delivered (`Delivered`); `stop()` of a connected session comes to rest (`StopsForGood`), and during an attempt to connect it lets no other attempt follow (`StopEndsTrying`) |
| `feed` | 2 tickers, 2 subscriptions, 2 bars, 1 fault | 119 411 | no subscription before authentication, whenever the owner asks; the server hears of the latest subscription; bars in order, nothing twice and nothing left out, whoever throws (`BarsInOrder`) |
| `indicators` | 5 lists of configurations, 3 candles, 6 bars | 4 373 | ready with the bar that the slowest configuration in force needs (`ReadyOnTime`); one update per bar (`UpdatesEveryBar`); the values of EMA, ATR and of a MACD's three averages are the textbook averages of all bars so far (`MatchesTextbook`) |
| `pipeline` | 2 symbols, 2 candles, 7 minutes, windows of 3, unit of 3, 2 engines, throwing subscribers | 187 715 | accepted bars are partitioned into aggregated bars that summarise them (`BundlesPartition`); no minute missing or counted twice (`MinutesInARow`); labels in a row, none twice and none skipped (`LabelsEvenlySpaced`); the engine's bars are those summaries (`EngineBarsSummarise`); the first reading comes with the right minute (`FirstReading`); the moving averages are those of the closes of the minutes that complete a bar (`AveragesOfMinutes`) |
| `trade` | 2 callers with 3 calls and 1, 1 failure or refusal, orders of 1 symbol, every call | 1 147 583 | no call is carried out twice (`CarriedOutOnce`); the kinds of error are true (`ResultsTellTruth`); values are complete (`ValuesTellAll`); an order is found as an order or a position (`OrderIsFound`); what is read can be written (`ReadBack`); `BrokerCalls` is implemented (`ImplementsBrokerCalls`) |
| `rest_deadline`, `rest_shutdown_throw`, `rest_lost`, `bars_gap`, `ws_reconnect` | smallest that shows it | – | the [findings](#findings) |

*Why the bounds are enough.* Two requesters give every kind of overlap: one
answered and asking again while the other waits, both queued, both suspended in
`request()`; three origins give a switch from TLS to TLS, TLS to plain and back.
Three messages fill the write queue behind a write under way; two faults lose a
connection and then the attempt that follows. Seven minutes hold two whole
windows of three, opened at any of the three minutes of a tick, a gap, and a window that a throwing subscriber has spoiled
and then grows. Six bars take every series through its warm-up in both orders
of a MACD's periods and two to five bars beyond; one list has two EMAs, of which
the one that is replaced would be ready first. In `pipeline` both engines
are ready with the second aggregated bar (in one of them, only its slower
indicator needs the second), so the window that is spoiled can come before the
first reading or with it. Three calls of one coroutine are "buy, list orders, list positions",
steps 2 and 3 of `TestAlpacaTradeClientIntegration.cpp`; the other's one call cleans up in between or buys as well; the one failure may meet any of the
four, and its request may arrive at any later time. The broker states one
optional key of every kind and leaves the others out. `MaxSent`, `MaxInbox`,
`MaxFaults`, `MaxBars`, `MaxAsked`, `MaxTime`, `MaxCalls` and `MaxFailures` bound the environment, not
the code; `CHECK_DEADLOCK FALSE` is there because the system may stop: the
client is destroyed, the session stopped, the feed's bounded input used up.

*Observed while modelling*, not against any document:

- `FewAttempts` and, in the feed, `SubscribesAuthenticated` are weaker than they
  look because a reconnect never succeeds (`ws_reconnect`): they are about first
  connections and failing later ones. Were `_ws` replaced on reconnecting, both
  would be violated in the model (with `tls' = "fresh"` in `OnResolve`):
  `_authenticated` is not reset on a lost connection, and the failures of a lost
  connection's operations start attempts of their own that then succeed.
- `stop()` during an attempt to connect cancels nothing: if the attempt succeeds
  the session is connected and reads on, in spite of `stop()` (the second half of
  `StopEndsTrying`). `stop()` of a
  connected one leaves the read outstanding: a bar that is on its way is still
  delivered.
- A non-empty `auth_msg` or `sub_msg` would be written twice at a time:
  `on_handshake()` calls `send()`, which starts a write, and then flushes the
  queue. Every caller in the repository passes empty ones.
- `RightPeer` is for a client whose `connect()` nobody calls from outside. Such a
  call may take CONNECTING while the loop is suspended in `graceful_shutdown()`,
  which then sets the state to NOT_CONNECTED and `_is_tls` to false under it; two
  `connect()` calls are under way, and the loop may send over the stream that the
  other one's `_is_tls` names. `ConnectsAsAsked` is what holds in any case.
- A feed out of order may have a minute counted twice, as `isConsecutive()` takes
  the minute before as well: `MinutesInARow` is for a feed in order. Positions
  listed before orders may miss an order filled in between: `OrderIsFound` is for
  orders listed first, as the integration test does.
- A call whose answer cannot be read has been carried out all the same:
  `json_parse_error` is no reason to repeat it (`ResultsTellTruth` says so).

## Fairness

Only `rest_core`, `rest_shutdown_throw`, `ws_session`, `ws_reconnect` and `feed` assume fairness, all of it weak:

- `LoopStep`, `ConnectStep(x)`: the coroutines suspend only in network
  operations, each of which completes (resolving gives up by itself, the rest is
  under the stream's deadline), and the loop runs what is ready.
- `AsyncWait(r)`: the requester is running, it has not suspended yet.
- In the session one condition per operation: it succeeds or fails, because of
  its deadline, Boost's idle timeout or the loss of the link. *Which* of the two
  is never assumed. `PeerReceives`, `ServerReceives` and `ServerGreets` say that
  a peer whose link is up reads what it is sent and answers.

Nothing is assumed of owners, requesters, faults, the deadline or the market.

## Proofs

Every theorem is about every value of the constants, under the assumptions
named in the modules: origins and the two special values are distinct
(`OriginAssumption`, `LoopAssumption`, `FaultsAssumption`), bounds are natural
numbers (`SessionAssumption`, `NeedAssumption`, `MaxBarsAssumption`), a window is
a number of ticks (`UnitAssumption`), `NoBar`
is no bar, candles are records of integers whose closes are not negative
(`CandleAssumption`; ATR takes -1 for "no close yet"), periods are positive
(`EngineAssumption`, `ConfigsAssumption`), callers make calls that exist
(`UsesAssumption`). Every safety property of every passing run is a theorem, and
so are the two refinements. Four findings are theorems too: what a run shows of one behaviour
(`rest_deadline`, `rest_shutdown_throw`, `bars_gap`, `ws_reconnect`) is proved
of all (`DeadConnectionIsKept`, `DeadLoopAnswersNobody`, `GapIsFinal` with
`GapSilencesEngine`, `LossIsFinal` with `FeedLossIsFinal`): there is no way back, but for
`rest_deadline` a request for another host.

**AsyncRestClientProofs.**
`TypeCorrect` and `NoTaskWithoutLoop` need `QueueControl`: which phases of the
loop imply a non-empty queue, and that the flag is set exactly while the loop
has not returned. `QueueHoldsTheWaiters` adds `QueueMatchesWaiters`, itself
inductive on top of them: its only hard step is the window between an answer
and `pop_front()`, when the answered requester may queue again
(`AppendNew`, `TailOfInjective`). `ConnectingIsReleased` is inductive with "a connector
suspended in `connect()` stays there until one of its exits", also when several
callers overlap. The same invariant, `HeldByItsUrl`, says of the caller that holds
CONNECTING that `_is_tls` is its own (`ByItsUrl`), unless another one is inside
`connect()` too: `ConnectsByItsUrl`. `RequestsReachTheirHost` and `Refinement` hold when nobody
calls `connect()` behind the loop's back (`Connector = {}`) and, for the
second, no host name is refused; the invariants are `OneConnection` (state,
origin, `_is_tls` and the streams agree at every suspension point) and
`CallersQueued` (a requester that is about to wait still has its task).
`Refinement` then maps `Request` to `Submit` or `Reject`, an answer to
`Answer`, `Destroy` to `CancelAll` and all else to a stutter.
`DeadLoopAnswersNobody` is an action property, from the same invariants: no step
leaves the phase "threw" or clears the flag. `DeadConnectionIsKept` is one too, for
`Connector = {}`: while the client is CONNECTED over a stream that is no longer
usable, every step keeps it so (`StaysDead`) unless a request for another
origin is at the front of the queue.

**WebSocketSessionProofs.** One invariant, `SessionInv`, proved part by part:
`FirstAttempt`, `OneHandshake` (the SSL object's history decides which
operations can be outstanding), `ConnectedOnly`, `OneWrite`, `KeepsTrying`. From
it `OneWriteAtATime`, `NeverGivesUp` and `AlwaysListening`. `MessagesInOrder`
adds where each message is: received, on its way, or in the write queue, whose
front is both when a write is under way; the three together are what was sent.
`AttemptsStayFew` counts outstanding operations (`CountOperations`) and needs
that an attempt is alone (`AttemptAloneStep`). The steps are those of `AnyNext`,
in which the peer and the owner do as they like: this is what makes the session's
invariant hold inside the feed. `StoppedMakesNoAttempt`
is what no fairness is needed for in `StopEndsTrying`: after `stop()` the number of
attempts under way (`Trying`) does not grow, and rest is for good. `LossIsFinal` rests on `Spent`, which a step never ends: the SSL object has made
its handshake, and a handshake under way is another one, so that no attempt
gets beyond it.

**AlpacaWSMarketFeedProofs.** `FeedIsSession`: every step of the feed is a step
of a session with some owner and some peer, so `SessionInv` carries over
(`SessionInFeed`). `SubscribesAfterAuth`: before the first connection nothing is
on its way (`Early`), after its loss nothing reaches a server again (`Over`), in
between either nobody has heard of the authentication and only the credentials
are on their way (`Silent`), or the server has authenticated the connection:
`AuthFirst`. `BarsAreInOrder`: bars delivered, bars in
the inbox and bars still to be published are numbered one after the other; as
frames carry one bar or two and a throw costs no later bar of its frame, the
numbering is stated by *marks*, the number reached after each frame, which
avoids recursion (`BarsInv`). `FeedRunsSession` brings the session's
specification, and with it what is proved of its steps, into the feed;
`StreamEndsForGood` is about `Cut`, a stream whose one connection is over, to
which the server publishes no more.

**BarAggregatorProofs.** `Partition`: `BundlesPartition` is inductive together
with the types, "an open window has a bar" and "no bundle ends after `begun`";
the work is in the three lemmas on a summary that is kept, opened or extended.
`NoMinuteMissing`: `RowInv` adds that the last accepted bar is not newer than
what the feed has delivered, which is what makes the symmetric
`isConsecutive()` go one way only. `GapIsFinal` (for a feed in order): when the
feed has passed the minute that `on_bar()` waits for, no later bar is consecutive,
and nothing is ever accepted or emitted again. `LabelsAreEven` counts: the n-th
accepted bar is `n - 1` minutes after the first (`MinutesCount`), so that windows
open `Need` minutes apart; `Unit` divides `Need`, and moving a minute by `Need`
moves the minute it is cut to by as much (`CastMoves`).

**IndicatorEngineProofs.** The counters of the series are functions of the number
of bars: `Counters` says that each is the number of inputs it has seen up to
its period, ATR's one bar late, the signal line's later by the longer of the
other two periods. It is inductive with the shape of the configuration
(`Shape`), and gives readiness in terms of the periods (`CountersTell`).
`ConfiguredInv` says which configuration each period comes from, and that the last
one of a name is in force (`LastIsInForce`), which makes it `ReadyInTime`, in terms of
the list the engine was made from; with `HeardInv` (one call for every bar
that was enough) it gives `EveryBarIsHeard`.

`ReadingsAreTextbook` is the longest argument of the project. It starts from
`Fractions`: a quotient has one fraction, with the least denominator
(`Operations`), and the laws of a field follow for these (`PlusAssociates`,
`Commute`, `Distributes`, `Inverses`). The textbook side is written with recursive functions
over the bars (`Total`, `Power`, `Average`); a *chain* is a sequence that starts
like such a function and goes on like it, two chains agree (`ChainsAgree`, by the
least number at which they would not) and one exists (`ChainExists`), so that
each recursive function has the value of its recurrence without induction over data. From that
come the recurrences of the code: one more term of the mean while the counter
runs, the exponential step for EMA, Wilder's for ATR afterwards
(`AverageMean`, `AverageSmoothed`, `AverageWilder`). `TextbookInv` says that every series
holds the average of its own inputs; for the signal line these are the
differences of two other series, from the bar on at which both are full.

**PipelineProofs.** `AggregatorInPipeline` and `EngineInPipeline`: a behaviour of
the composition is one of each part, so what is proved of the parts holds in it.
Of the two together, `EngineGetsSummaries` has the invariant that the engine's
bars are the bundles, and one more while a throw has left the window full
(`PassTogether` is the step in which both move). `FirstReadingOnTime` puts
`CountersTell` and the counting of minutes (`BarsAndMinutes`) together,
`ReadingsOfMinutes` the engine's `ReadingsAreTextbook` and the summaries' closes: the
moving averages are stated of the accepted minutes, with no aggregated bar in between.
`GapSilencesEngine` is `GapIsFinal` carried through the call chain.

**TradeClientProofs.** The invariant `Inv` is about call numbers (`Numbers`): every
call that is pending, given up, carried out or finished has its own, none above
`calls`. A pending one has been carried out only if it is the oldest and
its answer is there, a stray one never (`AnswerKnown`).
From it `EachCallAtMostOnce` and `ResultsAreTrue`. `ValuesAreComplete` and
`OrdersAreFound` need `History`, which relates results to the broker's log: what
an entry of the log brought fits its call (`Fitting`, from `CarriedOutFits`), the
answer that is due is the entry of the oldest call (`Answering`), a caller's next
call begins after the entry of the one before (`Ordered`), and an order that
nothing removes is among the open orders or a position, as every later listing
shows (`Found`). `ValueTells` says what a value tells of the answer it was read
from; for the fields it needs, the tables have no conversion in the way
(`PlainTexts`). `UsesRequestService` says that
the client uses the REST client as `RequestService` allows, so that its own
refinement and that of `AsyncRestClient` fit together. `KeepsPromise` is the
refinement of `BrokerCalls`: the log's entries are the calls carried out
(`DoneIsLogged`, `CarriesOutOnce`), the diaries' those that have returned
(`ReturnsTrue`), and `PromiseStep` goes through the actions. `WhatIsReadIsWritten` needs
no history: it follows from `RoundTrip` and the three tables having no field of
kind null.

**BrokerJsonProofs.** `RoundTrip` is about any table: what `Decode` gives of a
readable object, `Encode` writes so that it is readable and decodes to the same.
Its core is that an enumerator's word leads back to it (`WordReadBack`), for
which all words of an enumeration differ (`WordsDiffer`), and none of an
`order_class` is the empty word of the fallback.

**Only model-checked.** All liveness (`AnsweredUnlessThrown`, `Delivered`,
`StopsForGood`, `StopEndsTrying`, `SubscriptionHeard`): temporal reasoning under fairness and
ENABLED are beyond the prover.

## Findings

Each is a run whose property states what the repository's documents or tests
say, and a counterexample that follows the code.

1. `rest_deadline`: the 30 s deadline set in `connect()` is never cleared, and a
   timed-out exchange leaves the client CONNECTED: from 30 s after connecting
   every request fails, on a network without faults.
2. `rest_shutdown_throw`: switching hosts after that deadline makes
   `graceful_shutdown()` throw out of the detached loop with `_is_processing`
   set: no request is ever answered again.
3. `rest_lost`: a `connect()` that fails without suspending frees the task
   before its requester waits on it.
4. `bars_gap`: after one missing minute `on_bar()` throws on every later bar.
5. `ws_reconnect`: a lost connection is never replaced, as the SSL stream is
   used again.

## What is not modelled

- Utils' CSV reader: parsing of test data. `notional_order`'s `value_to()` and the
  `value_from()` of `order_deleted` and `position_closed`: nothing calls them.
- The choice of hosts, endpoints and URLs.
- Strategy and TradeEngine: described in `src/README.md`, no code exists.
- Logger, test utilities, build and CI: no part in the program's logic. The
  historical endpoint is used as the description of the server.
- `concepts.hpp`, `formatter.hpp`: compile-time checks and log formatting.
- Floating point, lifetimes of freed objects, durations (the five-second sleep
  that blocks the loop, the 15 s of the heartbeat) and calls the owners in this
  repository do not make (starting a session twice, a non-empty `auth_msg`, a
  period of 0).

## Plan

In the order of construction, most important first.

1. `RequestService`, `AsyncRestClient` – runs `rest_*`, types, invariants,
   refinement. *Done.*
2. `BarAggregator` – run `bars_gap` and, within `Pipeline`, `pipeline`. *Done.*
3. `WebSocketSession` – runs `ws_*`. *Done.*
4. `AlpacaWSMarketFeed` on top of it – run `feed`. *Done.*
5. `Fractions`, `IndicatorEngine` – run `indicators`. *Done.*
6. `Pipeline`, aggregator and engine in one call chain – run `pipeline`. *Done.*
7. `BrokerJson` and `TradeClient` on `RequestService` – run `trade`. *Done.*
8. Theorems on every safety property. *Done.*
9. `BrokerCalls`, what the broker's calls promise, and that it is implemented –
   run `trade` and a theorem. *Done.*
10. Theorems on the findings: what is lost is lost for good. *Done.*
11. What a shared flag, a replaced configuration, a cut label and a late `stop()`
    must leave alone: `ConnectsAsAsked`, `ReadyOnTime`, `LabelsEvenlySpaced`,
    `StopEndsTrying`. *Done.*

Left, in this order:

1. Overlapping `connect()` calls while `graceful_shutdown()` is suspended (it
   resets the state somebody else has taken).
2. The feed in front of the pipeline, in one model: frames, bars, readings.
3. Strategy and TradeEngine, when there is code for them.
