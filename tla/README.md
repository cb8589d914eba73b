# Verification of Binance Momentum Lab

TLA+ models of the concurrent and stateful parts of `src/BinanceMomentumLab` (a Python
asyncio application that scans Binance perpetuals, follows their market data, emits
research signals, trades them on a paper account and, in DEMO mode, sends orders to the
demo exchange), TLC runs over them, abstract specifications that three of them are shown
to implement, and TLAPS proofs that their safety properties and these implementations
hold for every value of the constants.

Paths below are relative to
`src/BinanceMomentumLab/src/binance_momentum_lab/` unless they start with `tests/` or
are called "the README", which is `src/BinanceMomentumLab/README.md`.

## 1. The system

| Component | State | Operations | Talks to |
|---|---|---|---|
| Market sessions `market_data/websocket.py` | connection, attempt, one task per route | start, stop, connect, receive, back off, rotate | puts messages on the service's queue, reports to the health |
| Market service `market_data/service.py` | bounded queue, sessions, consumer task, reporter task, update lock | start, `update_symbols`, `_consume`, stop | writer, books, listeners (strategy, paper) |
| Health `market_data/health.py` | status per route and per book | connected, observe, disconnected, gap, synced, staleness | read by the risk check and the dashboard |
| Deduplication `market_data/deduplication.py` | bounded ordered set of event keys | accept | consumer |
| Order book `order_book.py`, `book_manager.py` | levels, last update, buffer, fetch task per symbol | on_depth, initialize, apply, reset | REST snapshot, health |
| Raw writer `market_data/parquet.py` | bounded queue, batch | write, flush by size or time, one file per date and symbol, stop | consumer, files |
| Candidates, scanner, runtime `candidates.py`, `scanner.py`, `runtime.py` | candidate set, last scan | periodic scan, notify listeners | REST client, market service, strategy, store |
| REST client `binance/client.py` | used weight | GET with a bounded retry on 418/429 | exchange |
| Feature engine `strategy/features.py` | windows of trades, bars, quotes, anchor | ingest, prune, snapshot | strategy service |
| Strategy `state_machine.py`, `service.py` | context per symbol | process one closed bar, emit signals | signal listeners, store |
| Paper service `paper/service.py` | latest markets, funding times | on_event, on_signal | strategy, health, books, broker |
| Paper broker `paper/broker.py` | orders, positions, fills, account, markets, funding events | submit_entry, submit_reduce_only, on_market, emergency_close_all, reset | risk manager, store |
| Risk manager `paper/risk.py` | emergency stop, pause, day, losses, cooldown | evaluate_entry, record_closed_trade, reset | broker |
| Demo client and adapter `demo_trading/client.py`, `service.py` | lock per order key, `positions_in_sync` | place, query, cancel, reconcile, on_user_event | exchange, store |
| User stream `demo_trading/user_stream.py` | listenKey, connection, healthy | receive, keepalive, renew, reconnect | demo adapter |
| Store `storage.py` | DuckDB tables behind one thread lock | upserts, reset_paper | everyone |
| API and dashboard `api/` | application state | pause, resume, reset, emergency stop, views | all of the above |

Interaction. Everything runs on one event loop; `asyncio.to_thread` moves the store's
writes, the writer's flush and the paper account's reset to worker threads. A message
passes session -> queue -> consumer -> writer queue, book, then the listeners in
order (strategy, which may emit a signal that the paper service handles within the same
call, then paper). The consumer is one task: a listener that raises ends it. So is each
session, the reporter and the writer, and whoever awaits a dead one gets its exception.

What is hard here: two bounded queues in a row and tasks that may die; a
shutdown and a symbol update that overlap; depth events against a snapshot that is
older or newer; partial fills, exits and an entry's remainder in one pass over the
orders; controls pressed while orders are in their latency; a reset in another thread;
HTTP requests whose outcome is unknown, and retries of them; a process that ends between
two statements to the store, or with an order on its way.

What makes each component correct: the ledger balances and nothing ever reverses or
reopens a position (broker); limits are applied to what will be open (risk); a
synchronized book is the exchange's book (books); no accepted event is lost on its way and a
shutdown ends (pipeline); signals are complete, paired and have a stop on the losing
side (strategy); an order key executes once and the local positions follow the stream
(demo).

## 2. Modules

| Module | Models | Instance | Proofs |
|---|---|---|---|
| `PaperBroker` | `paper/broker.py`, `paper/risk.py`, `paper/service.py`, controls of `api/app.py` | `MCPaperBroker` | `PaperBrokerProofs` |
| `TradeLedger` | abstract: what the paper account promises | | |
| `PaperLedger` | the refinement from `PaperBroker` to `TradeLedger` | `MCPaperBroker` | `PaperBrokerProofs` |
| `PaperResetRace` | extends `PaperBroker`: `reset` as the steps of a worker thread | `MCPaperResetRace` | |
| `PaperStore` | extends `PaperResetRace`: the paper tables of `storage.py`, statement by statement, and restarts | `MCPaperStore` | `PaperStoreProofs` |
| `OrderBookSync` | `order_book.py`, `book_manager.py`, `deduplication.py`, with an exchange | `MCOrderBookSync` | `OrderBookSyncProofs` |
| `BookMirror` | abstract: what a synchronized book promises | | |
| `BookMirrored` | the refinement from `OrderBookSync` to `BookMirror` | `MCOrderBookSync` | `OrderBookSyncProofs` |
| `StrategyStateMachine` | `strategy/state_machine.py`, the call in `strategy/service.py` | `MCStrategyStateMachine` | `StrategyProofs` |
| `UserDataStream` | `demo_trading/user_stream.py`, with the exchange's listenKey | in `DemoTrading` | `DemoTradingProofs` |
| `DemoTrading` | composes `UserDataStream` with `demo_trading/client.py` (`place_order`, `query_order`) and `demo_trading/service.py`, with an exchange | `MCDemoTrading` | `DemoTradingProofs` |
| `MarketPipeline` | `websocket.py`, `service.py`, `parquet.py`, route status of `health.py` | `MCMarketPipeline` | `MarketPipelineProofs` |
| `EventLog` | abstract: what the pipeline promises about accepted events; the refinement is in `MarketPipeline` | | `MarketPipelineProofs` |
| `RestClient` | the retry loop of `binance/client.py`, for requests under way at the same time | in `CandidateFeed` | `CandidateFeedProofs` |
| `CandidateFeed` | `runtime.py`, `candidates.py` and its two listeners, their requests through `RestClient`, the klines of `strategy/features.py`, with an exchange | `MCCandidateFeed` | `CandidateFeedProofs` |
| `Induction` | no code: lemmas on intervals, iteration and sums that the proofs cite | | |

### PaperBroker

Variables carry the code's attribute names (`orders`, `positions`, `account`,
`_funding_events`, ...). A handler without an `await` is atomic, with one exception
made for readability: the loop of `on_market` takes one step per scheduled order.
`tick` holds its local state (quote, remaining liquidity, orders to visit) and every
other handler waits until it is `Idle`.

- `OnSignal`, `DropSignal`: `on_signal` with `evaluate_entry` and `submit_entry`.
- `OnMarkPrice`, `OnMarket`, `OnMarketBackward`: `on_event`; the last is the exception
  for an event older than its predecessor, which ends the consumer (`consuming`).
- `SkipOrder`, `RefuseOrder`, `StarveOrder`, `FillEntry`, `ReducePosition`,
  `ClosePosition`: the ways one iteration of the loop can end.
- `EmergencyCloseAll`, `PauseEntries`, `ResumeEntries`, `Reset`: the API's controls.

Identities. The code derives an order's id from a string by `uuid5`; the model's id is
the tuple of what that string contains, so two orders share an id exactly when the
code's do (a protective order is named by the entry and the position's quantity, a time
stop by the opening time). Decimals become integers and divisions round down; one
visible level per side; a constant slippage rate.

### TradeLedger and PaperLedger

`TradeLedger` knows no orders, quotes or risk checks: each symbol has at most one open
trade with a signed exposure, and every step that books money books it on the cash and
on the trade that earned or cost it (`Trade`, `Close`, `Fund`), or restarts a flat
account (`Restart`). `PaperLedger` maps a symbol's exposure to its position with the
sign of its side, and the trade's result to `realized_pnl + funding_pnl`. A step that
reversed a position, touched two symbols, or booked a fee or a funding payment on one
side only would be none of the ledger's.

### PaperResetRace

`reset_paper` calls `broker.reset` in a thread. `StartReset` is the check for open
positions, then one step per attribute that is cleared, interleaved with every action
of `PaperBroker`; `OrderGone` is the `KeyError` of an order that is cleared between
the sort and its turn.

### PaperStore

Every handler of the broker saves rows while it runs; DuckDB commits each statement by
itself. A handler is a step in memory that leaves its `script`, the statements it
executes before it returns, and `Save` executes one. A script has up to five stages, which
are executed in turn; rows that the code saves in the order of a dictionary form one stage,
of which any is next. There are three scripts: `ExecutionSaves` is `_execute` (the orders it
protects or cancels, the position, the executed order, the fill, and behind the loop's last
order the account's snapshot), `MarketSaves` is `on_market` up to its loop (the funded
position, the time stop, and the snapshot if the loop has no orders), `OrderSaves` the
submission of entries and exits. `Written` is the statement's
effect: orders, positions and account snapshots replace their row, a position that is
closed deletes it, a fill whose key exists is dropped. `ResetStep` is the reset thread,
which holds the store's lock for its one transaction. `Crash` ends the process between
any two statements; the new one starts with an empty memory and does not read these
tables. `ghosts`, `base`, `raced` and `collided` are history variables.

### OrderBookSync and BookMirror

The exchange keeps the sequence of its updates, one price level each, and the book
after every one of them (`books`); `Publish` bundles the unpublished ones into a depth
event with `U`, `u`, `pu`, which the stream may deliver twice and loses with the
connection. A snapshot is the exchange's book at the time of serving. `initialize` is
split into the installation and one step per replayed event (`at`, `bridge`); no other
handler runs between, since the code does not await there.

`BookMirror` is the promise to the other components: the book shows a state the exchange
was in or none, and never one older than a state it has shown. `BookMirrored` adds the
history variable `shown`, the update at which the book was last synchronized, and hides
the book in the middle of `initialize`.

### StrategyStateMachine

One action per outcome of `process()`. A bar is a price, a VWAP or none, a CVD or none,
and `flow`: whether the remaining conditions that the present state asks for (taker
ratio, return, volume, open interest, spread) hold. Each state asks for one such group,
so one Boolean is enough. `longs`, `shorts` and `blind` are history variables.

### UserDataStream and DemoTrading

`UserDataStream` is the stream's receiving task (`link` is where `_run` stands), the
health flag and the keepalive. `frames` are the events on the open connection; closing
it loses them. The exchange lets the key expire at any time, announces that on the open
connection only, and accepts a connection with an expired key without sending anything
on it. A renewal that raises leaves the old key in place.

`DemoTrading` extends it. A call of `place_order` is one action per request it awaits;
`holder` are the locks per order key. `Boot`, `Started`, `StartFails` and `Down` are the
adapter's start and stop, and stand for a process that dies as well: calls in flight
end, locks and frames are gone, a POST that was on its way may still arrive, and of the
whole state only `local` (the table `demo_positions`) is there at the next start. A POST may be executed or not, and be answered,
end in status 503 or raise; a request that the client has given up may stay `abandoned`
and `ArriveLate`. The handler runs inside the stream's `_receive`, so an exception of
its request closes the connection (`HandlerFails`), and the rotation cancels it
(`StreamRotates`). While the process is down orders that arrive late still execute.
`late`, `lost` and `missed` are history variables.

### MarketPipeline

`session[r]` is the session object of a route with its task's position; `queue` and
`writerQueue` hold numbered messages and the `Marker` (`None` in the code) of a
shutdown; a message gets its number when the queue takes it. `Incoming` is what the
exchange may send, all messages in the proofs. `service.pc` is where `update_symbols` or
`stop` stands. `Take`, `Write`,
`Listen` are the three awaits of an iteration of the consumer. Message kinds: `fresh`,
`late` (out of order or stale for its stream, so that the route becomes degraded) and
`noise` (what the parser or the deduplicator drops).

A message belongs to a partition, the date and symbol of `_flush`. `FlushPartition` is one
pass of its loop: the file of the next partition, in the order of their first events in
the batch, with all events of that partition; `writer.done` are the partitions written.
`EndFlush` is the way back to `_run`. `FlushFails` may come before any partition or after
the last, keeps what has been written and leaves the rest of the batch where it is; a
file cut short is not counted as written.

Every task may die, and its exception is raised where it is awaited:

- a session (`SessionDies`), when `close()` raises in a handler or the delay overflows: it
  is a float times `2**attempt` before it is limited (`websocket.py:129`), and at attempt
  1024, with the default settings after some ten hours without a connection, the product
  raises. Its `stop` then raises, and so does the stop of one whose own `close()` raises
  (`StopRaises`). `gather` passes the first exception on: `UpdateFails` leaves the service
  without sessions, `StopFails` ends the shutdown before the marker;
- the consumer (`Listen`): `AwaitConsumer` raises;
- the reporter (`ReporterFails`), when the store does: `AwaitReporter` raises, before the
  writer is told to stop;
- the writer (`FlushFails`): `AwaitWriter` raises.

In `raised` nothing of the shutdown follows, and what the queues and the batch still hold
is flushed only as far as the tasks that are left do so.

`EventLog` is the promise about accepted events without queues or tasks: each is
accepted once, in one partition, the files of a partition grow by its next events in
order, and a normal stop comes after the last of all.

### CandidateFeed and RestClient

`scanner` is where the one scanner task stands: scanning, awaiting the market service,
awaiting the strategy service's klines ("seeding") or its open interest ("polling"), or
dead. `RestClient` holds the coroutines of a gather in `requests`: each waits for the
exchange, has its answer on the way back (computed at a minute of the exchange), sleeps
after a rate limit, or has none; meanwhile the consumer goes on ingesting closed bars
(`arriving`). A bar is its minute and whether its values are those
of the closed bar: the REST answer contains the bar that is still open, and
`seed_klines` marks it closed. `broken`, `cold` and `missed` are history variables; the
last are the minutes whose bar neither the stream nor a seed has brought.

## 3. Runs

| Run | Expect | Checks |
|---|---|---|
| `broker` | pass | `TypeOK`, `LedgerBalanced`, `PositionMatchesFills`, `RemainderHasPosition`, `UntouchedIsStopped`, `LeftoverExitIsPartial`, `EntryOutcomeFinal` |
| `time_stop` | pass | `TimeStopCloses` (liveness), `FundingChargedOnce`, `ImplementsLedger` (refinement, with funding) |
| `order_book` | pass | `TypeOK`, `HealthTellsSync`, `OneFetch`, `NoEventLeftOut`, `GapStartsFetch`, `ImplementsMirror` (refinement) |
| `strategy` | pass | `TypeOK`, `SignalsPaired`, `LongAfterValidPullback`, `StopBehindEntry`, `FailedIgnitionIsFinal` |
| `demo_orders` | pass | `TypeOK`, `PlacedOnce`, `LocalFollowsRemote`, `HealthyStreamHears`, `CallsEnd` (liveness) |
| `pipeline` | pass | `TypeOK`, `EventsInOrder`, `NothingBehindMarker`, `StopEnds` and `FilesNeverStall` (liveness), `ImplementsLog` (refinement) |
| `candidate_feed` | pass | `TypeOK`, `WindowInOrder`, `AnnouncedIsFollowed`, `FollowedIsWarm`, `GapsAreMissed`, `ScanEnds` (liveness) |
| `paper_store` | pass | `TablesFollowMemory`, `OneFillTorn` |
| `emergency_entry` | violation | `EmergencyOnlyReduces` |
| `average_down` | violation | `StopEndsEntry` |
| `funding_shared` | violation | `FundingCharged` |
| `reset_race` | violation | `ResetOnlyFlat` |

### What the passing runs show

- The ledger: cash is the initial balance plus what was realized, and what was realized
  is the sum over closed trades and open positions, through partial fills, averaging,
  funding, emergency exits and resets. Fills net out to the position, so no exit
  reverses one. A partially filled entry dies with its position. The stops of a
  position cover what its entry filled until an exit fills. An exit that survives its
  position is the one that closed it, half filled. Step by step the broker implements
  `TradeLedger`: what a fill or a funding books on the cash it books on the trade of the
  same symbol, and the result the risk manager learns of is all that the trade has booked.
- The tables: between two handlers they show the orders, the positions and the balance of
  the memory. Wherever the process ends, the fills in the table net out to the row of the
  position, except for the one fill whose statement comes next: the position is saved
  before its fill. The position rows of a former process stay until their symbol trades
  again or a reset. The statement ends where a second fill has the identity of a saved one
  (`collided`: a time stop that is issued again under its old identity and fills the same
  quantity at the same time), which the table drops, or where the reset thread has run
  beside a handler that was saving (`raced`).
- The book: whatever the stream loses, repeats or delays, a synchronized book is the
  exchange's book at the update it names. On a stream that repeats nothing it has seen
  every accepted event. A repeated event that the deduplicator has forgotten may stand in
  the buffer behind newer ones, bridge an older snapshot and leave the newer events out;
  the book is then behind until the next event, whose `pu` does not fit, but it is never
  wrong. Through any number of gaps and snapshots it shows a past state of the exchange,
  never an older one than it has shown.
- The pipeline: for each date and symbol the written, batched and queued events are
  always, in order, exactly what the queue accepted, also when a flush has failed between
  two partitions. Across partitions there is no such order: a batch A1, B1, A2 is written
  as A1, A2 and then B1, and a failure between the two leaves B1 out. `stop` returns
  normally only after all are written. Whatever the queues hold when it begins, it returns or
  raises, unless the consumer or the writer has died: it raises what ended a session, what
  a session's `close()` raises, or what ended the reporter. Behind such a raise no marker is
  put and the writer is not stopped; the project states this as the code's behaviour. Before
  and during a shutdown that does not raise, the files keep growing until every accepted
  event is in them, by batches, by the flush interval, or at the marker.
- The strategy: one long, at most one short after it, per cycle. An ignition that failed
  before its long signal is final: BREAKDOWN and DISTRIBUTION alternate and the short
  signal needs a divergence reason that only CONTINUATION sets. The symbol stays silent
  until a restart; the project states this as the code's behaviour.
- Demo orders: the lock, the query before a post and the query after a 503 keep a key
  to one execution; only a request that the exchange receives after the client has given
  it up escapes them (`late` counts these, TLC finds the second execution when they are
  counted too). A restart, which drops the locks, adds no other way. The local position
  follows the events that are delivered, through expired keys, rotations, reconnections
  and restarts: an event that was lost is made good by the next one, and by nothing else;
  the comparison at the start only notes the difference and the stream starts anyway. The stream is not called healthy while the
  exchange is silent for a reason the client was told of and has not dealt with; the
  exceptions are a notice that was lost with its connection, and a renewal that failed:
  then the old key is used again and the silent connection is reported healthy.
- The candidates: between two scans both listeners follow the recorded set. If the
  market service could not replace its sessions, the stream is off and stays off, while
  the next scan reports `healthy`, until the candidates change: the same set is not
  announced again. A symbol is warm when the scanner goes on unless its seed failed,
  which is not repeated. The window of klines stays ordered and bounded whatever seeds
  and bars overlap, and it lacks only bars that nobody delivered: those of a lost
  connection and of the time a symbol was not followed, which nothing asks for again
  unless the symbol is seeded anew. A scan that has found new candidates ends, however
  often the exchange limits its requests. What
  is not true and not claimed: a seed that was served before a bar closed and arrives
  after it puts the open bar back.

### What the violations show

1. `emergency_entry`: `emergency_close_all` adds exits for open positions and does not
   touch pending entries. One in its latency fills after the stop.
2. `average_down`: remaining orders are cancelled only when a position reaches zero. A
   stop that fills in part leaves the entry's remainder working, which then adds to the
   losing position.
3. `funding_shared`: the funding event's id is the funding time without the symbol, and
   the set of ids is common to all symbols. The second symbol is not charged.
4. `reset_race`: the reset's check and its clearing run in a thread; an entry can fill
   in between and its position survives the reset of the account.

### Bounds

| Run | Bounds | Why they are enough |
|---|---|---|
| `broker` | 1 symbol, 2 signals, 4 quotes, 4 instants, quantity up to 2, 1 emergency stop | an entry in two parts, a partial exit, a second entry against the leftovers of the first, a cooldown and a day change; positions of different symbols share only the account and the risk state |
| `time_stop` | 1 symbol, 1 signal, quantity 3, 3 instants, events up to 1 late, 2 funding times | the time stop is cut by thin quotes and issued again; times are announced again and backwards |
| violations of the broker | as small as the trace allows, 1 or 2 symbols | a violation needs no larger bound |
| `order_book` | 2 prices, 3 updates, 3 events on the way, 1 repeat, dedup window 2 | events of one and of several updates, bridge in any place of the buffer, gap while buffering, replay and apply, a repeat inside and outside of the window. Prices are symmetric |
| `strategy` | 5 prices, 3 CVDs, cooldown 3 bars, gaps up to 2 | pullbacks of 25, 33, 50, 67 percent and more around the ratios 30 and 50 |
| `demo_orders` | 3 calls, 2 keys; expiries and restarts are not bounded | an order, its retry at the same time or later, and a close, each before, during and after an expiry and a restart |
| `pipeline` | 1 route, 2 partitions in turn, 8 messages of which the first is late and the last may be noise, queue 1, batch 3 (writer queue 6), attempts up to 1 | two events of a partition around one of the other in a batch, a flush by size, by time and at the marker that fails between the two; the marker waits for the full queue while the consumer waits for the full writer's queue; a session can still hold a message when the marker is put; every task can die before and after. Updates of the candidates, and messages that a rotation or a stop takes from a session before the queue has room, are not bounded. The queues do not tell routes apart |
| `paper_store` | 1 symbol, 2 long signals, a quote that fills 2 at the entry and 1 at an exit, 2 instants, quantity 3, 1 emergency stop, 1 crash | an entry in two fills, exits in several, a second entry, each with a crash behind any statement; a second crash starts from tables of the same shape. `CONSTRAINT NoRace` cuts the behaviours after a race with the reset, of which the properties say nothing |
| `candidate_feed` | 2 symbols, 3 minutes after the first, window 2, seeds of 2, 1 retry | the benchmark and a symbol that comes, leaves and returns; bars that leave the window; a seed older and newer than the stream's bar |

Named bounds in the modules: `MaxTime`, `MaxDelay`, `MaxQuantity`, `MaxEmergencies`,
`MaxUpdate`, `MaxStream`, `MaxRepeats`, `MaxGap`, `MaxMessages`,
`MaxMinute`, `MaxCrashes`. `MaxRetries` is a setting of the code, and
`MaxAttempt` is no bound but 1024, the first exponent whose power of two is no float; the
run puts a small number in its place.
`MaxQuantity` must not be below what `position_size` can return; the instances are
chosen so.

`CHECK_DEADLOCK FALSE` stands where the system really stops: all calls of `DemoTrading`
have ended, the service of `MarketPipeline` has stopped, has raised or hangs behind a dead task, and
the scanner's task of `CandidateFeed` has ended because its error handler raised.

### Fairness

- `time_stop`: weak fairness of the loop of `on_market`, a plain `for` loop. Strong
  fairness of a current quote that can fill any order (`AmpleMarket`): it is an
  assumption about the exchange (strong, because other handlers may run between), and
  the property allows for the consumer's death.
- `candidate_feed`: weak fairness of `Update`, the steps of the scanner's task behind a
  change and of the coroutines it waits for. A request ends with the HTTP timeout and a
  pause after a rate limit ends; the exchange may limit every attempt.
- `demo_orders`: weak fairness of every step of a call that has begun. The HTTP client
  has a timeout, so a request is answered or raises. A process that goes down ends its
  calls. Nothing is assumed of callers, the
  stream or the exchange.
- `pipeline`: weak fairness of the consumer, the writer, the steps of `stop`
  and the end of a session that is stopped (`EndSession`, also by raising): ready asyncio
  tasks run, and a connection's close has a timeout. Sessions are not fair; nothing
  ever has to arrive.

## 4. Proofs

Every invariant and every action property of the passing runs is proved for all values of
the constants; so are the three refinements. Nothing is
assumed but the named `ASSUME`s of the modules, which TLC evaluates in each run:
`SettingsAssumption` and `DataAssumption` (the broker's parameters are naturals, signals
and quotes have their types), `StrategyAssumption` (prices are positive, the ratios are
percentages, the cooldown is not empty), `CallsAssumption` (a call has a key),
`PipelineAssumption` (queue and batch are not empty, a first attempt has a delay),
`IncomingAssumption` (what arrives are messages), `BookAssumption` (the deduplicator
remembers at least one key), `FeedAssumption` (the benchmark is a symbol, window and seed
are not empty), `CrashAssumption` (the bound of restarts is a natural). Each invariant below
was first checked by TLC on the instance of its run.

| Module | Theorem | States |
|---|---|---|
| `PaperBrokerProofs` | `TypeCorrect` | `TypeOK` |
| | `LedgerInvariant` | the inductive invariant `LedgerInv` |
| | `FillsMatchPositions`, `OneEntryPerPosition` | `PositionMatchesFills`, `RemainderHasPosition` |
| | `LeftoverExitsArePartial` | `LeftoverExitIsPartial` |
| | `EntryOutcomeStands`, `FundingIsChargedOnce` | the action properties `EntryOutcomeFinal`, `FundingChargedOnce` |
| | `BrokerImplementsLedger` | the refinement `ImplementsLedger` |
| | `AccountBalances` | `LedgerBalanced` |
| | `UntouchedPositionIsStopped` | `UntouchedIsStopped` |
| `PaperStoreProofs` | `StoreInvariant` | the inductive invariant `StoreInv` |
| | `TablesShowMemory`, `TornByOneFill` | `TablesFollowMemory`, `OneFillTorn` |
| `OrderBookSyncProofs` | `BookTypeCorrect`, `HealthIsSync`, `FetchesAreSingle` | `TypeOK`, `HealthTellsSync`, `OneFetch` |
| | `GapsAreFetched` | the action property `GapStartsFetch` |
| | `NothingIsLeftOut` | `NoEventLeftOut` |
| | `BookIsAMirror` | the refinement `ImplementsMirror` |
| `MarketPipelineProofs` | `PipelineTypeCorrect`, `EventsKeepOrder`, `MarkerIsLast` | `TypeOK`, `EventsInOrder`, `NothingBehindMarker` |
| | `PipelineIsALog` | the refinement `ImplementsLog` |
| `StrategyProofs` | `StrategyTypeCorrect`, `SignalsArePaired` | `TypeOK`, `SignalsPaired` |
| | `LongsFollowValidPullbacks`, `StopsAreBehindEntries` | `LongAfterValidPullback`, `StopBehindEntry` |
| | `FailedIgnitionStays` | the action property `FailedIgnitionIsFinal` |
| `DemoTradingProofs` | `DemoTypeCorrect`, `OrdersPlacedOnce` | `TypeOK`, `PlacedOnce` |
| | `StoredPositionFollows`, `StreamHealthIsTrue` | `LocalFollowsRemote`, `HealthyStreamHears` |
| `CandidateFeedProofs` | `FeedTypeCorrect`, `WindowStaysOrdered` | `TypeOK`, `WindowInOrder` |
| | `CandidatesAreFollowed`, `FollowedHasKlines`, `OnlyMissedMinutesLack` | `AnnouncedIsFollowed`, `FollowedIsWarm`, `GapsAreMissed` |

### The arguments

The broker. `TypeOK` is inductive as it stands since it includes that the loop visits
only existing orders and has a quote while it runs. `LedgerInv` is the conjunction of
`EntriesEmitted`, `EntryBacksPosition`, `RemainderHasPosition`, `PositionMatchesFills` and
`CashIsRealized`. None of the parts but the last is inductive alone: that a fill keeps
`PositionMatchesFills` needs the position to belong to the executing order; that a new
position has no rival needs that a partially filled entry without a position cannot
exist; and that an entry's id is new when it is submitted needs `EntriesEmitted`: each
signal is emitted once and its order keeps that identity. The risk check plays no role in
any of these proofs: the ledger is safe whatever the risk manager admits.

The ledger's refinement has one lemma per action that names the step of `TradeLedger` it
is, or shows that it is none. The balance needs no stronger invariant than that the
positions are finitely many, but sums: what one position books changes the sum over all
by as much (`Total` in `Induction`). The stops need the most: `ProtectionInv` says which
identities stops can have. A stop is named by a quantity its entry has filled by then, so
the stop of the next fill cannot overwrite an earlier one as long as no exit has filled.
That condition is the reason why `UntouchedIsStopped` says no more: after an exit the
quantity, and with it the identity, may return.

The tables. `StoreInv` is stated of every state between two statements, not only of those at
which a handler has returned, and says that the tables and the statements that are left make
up the memory. `OrderRowsInv` and `PositionRowsInv`: a row is the memory's, or exactly one
statement for it is left and writes what the memory has; a row of a position that the memory
lacks belongs to a former process or has its deletion before it. `AccountRowsInv` says the
same of the balance at the latest market. `FillRowsInv`: the fills of this process net out to
the quantity the memory holds less the fill whose statement is left, and a position whose
statement is left has the row of before that fill. `OneFillTorn` follows since a script has
one fill at most, which stands behind the position (`ScriptType`): as long as the position is
not saved, row and fills are both those of before. Each of the three scripts is shown once to have
these properties (`ExecutionScript`, `MarketScript`, `OrderScript`), and each handler to leave
one of them (`HandlerKeeps`); `SaveKeeps` is the execution of any statement. `Net` is a sum
over a set of rows, which `NetIsTotal` turns into the `Total` of `Induction`, so that one more
fill adds its net quantity (`NetAdded`).

The reset's thread is what makes this more than a sequential argument. `ResetInv` and
`LoopInv` say how far it has cleared the memory: while it is at work there are no positions
unless a handler has saved beside it, which is a race; a loop that it interrupts ends by
`OrderGone`. The types hold even after a race (`StoreType` does not mention `raced`). The rows
do not: without `raced` in `TablesFollowMemory` TLC finds a market that comes between the
clearing of the memory and the transaction, which then deletes the snapshot just saved.
`FillRowsInv` needs besides that no fill was dropped for its identity. None of this needs
`LedgerInv`: the rows follow the memory whether or not its ledger balances.

The book. `BookInv` relates every event on its way to the exchange's history: between two
updates the book changes at written prices only (`BooksAgree`), so applying an event that
bridges the book's update to it gives the exchange's book at the event's last update
(`LevelsInv`). In the middle of `initialize` this holds since the loop begins at an event
that bridges the snapshot (`LoopInv`). `NoEventLeftOut` needs the order of the events
besides (`CompleteInv`), which a repeated event breaks: TLC found the case described
above when the deduplicator's window was larger than one, and the property excludes it.
The mirror needs that no snapshot on its way is older than what has been shown
(`ShownInv`), and that a synchronized book awaits none (`OneFetch`).

The pipeline. The events are numbered, and the invariant is, for each partition, that the
concatenation of its files, of what the flush under way has not written of it (`Unflushed`),
and of its events in the writer's queue, the consumer's hand and the queue is
`accepted[p]`. `Numbers` picks the events of a partition out of a sequence of messages; it is
a recursive function, one lemma each says what appending and taking do to it, and a step of a
flush moves all numbers of one partition from the batch to the files and leaves the other
partitions alone. That a flush has ended with nothing unwritten, so that the batch may be
forgotten, needs that every event of the batch belongs to a partition in `done`. A writer
that has died keeps its batch and `done`, so the sum holds behind a failure too.
`StopInv` is the shutdown read backwards: what has ended has nothing
behind it, from the sessions to the files. `NothingBehindMarker` follows from it, and
the refinement from both with `NumberInv` (the next number is a new one).

The strategy. `PhaseInv` ties the counters of signals to the states. `RiseInv` keeps that
the ignition's high is above its start and that a pullback once deep enough stays so,
`ReboundInv` that the price has not passed the rebound's high while the VWAP is known.

Demo orders. `OrderInv`: one call per key inside the lock, and what it has read before its
post still holds, apart from requests that arrive late. `FollowInv`: the newest position on
the open connection is the exchange's, unless one was lost after it; `HearsInv`: a
connection whose key has expired has the notice among its events or has missed it.

The candidates. `PlaceInv` says how far each listener is for each place of the scanner,
`WarmInv` that a followed symbol without klines still waits for them. `BarsInv` accounts
for every past minute of every symbol: it is in the window, on its way, missed, or older
than a full window. The merge of a seed keeps it since the merged list contains all bars
of both and drops the oldest only; that a sorted list of a finite set of minutes exists
is proved (`AscendingExists`), so `Merged` is the one it is meant to be.

### What is only model-checked

- Liveness under fairness: `TimeStopCloses`, `CallsEnd`, `StopEnds`, `FilesNeverStall`,
  `ScanEnds`. Fairness, and what is enabled, are out of this prover's reach.
- The four violations, which are counterexamples. All other properties of the runs are
  theorems.

Induction over data is done with sets: `Induction` proves it for intervals
(`IntervalInduction`), from the well-foundedness of the naturals, and derives from it
iterated functions and sums over finite sets, which the proofs about `Numbers`, `Booked`,
`Left` and `Net` use.

## 5. Not modelled

- The statistics of the feature engine, the ranking of a scan, event parsing, settings,
  dashboard, replay, logging: see the components' notes in `PROJECT.json`. Two orders in
  the feature engine deserve the windows of plan item 1: `_prune` drops trades older than
  900 seconds, also those that the anchored VWAP of an older anchor still counts, and the
  newest open-interest observation is the one appended last, not the one stamped last.
- Of the store: the tables that only views read, and the queries.
- Of the REST client: the used weight, decoding, the length of pauses.
- Of the demo client: cancellation (nothing but a test and a command-line check calls it),
  normalization to tick and step sizes, signing and clock offset. Of the user stream: the
  lengths of pauses, and the death of its task, which has the causes a market session's has
  (`user_stream.py:136`); the flag is down by then and the stream is silent for good.
- Of the market service: `books.stop()`, which gathers exceptions and cannot raise. The
  reporter's effect, `Silence`, may happen or not. What the process does behind a `stop`
  that has raised: the tasks that are left go on in the model, in the application the
  event loop ends and with it the batch. Of the shutdown of the application: what comes before `stop`. `runtime.stop`
  raises when the scanner's task has died, and then nothing after it is stopped; and if it
  cancels an update of the candidates between the creation and the first step of the
  coroutines that stop the sessions, those sessions run on, unknown to the service, and
  may put messages behind the marker. `MarketPipeline` leaves that instant out.
- Of the strategy service: the task that polls the open interest at intervals.

Behaviours that the models have and no run forbids, because no document of the repository
decides them: a repeated event that the
deduplicator has forgotten may bridge a snapshot behind newer events; pending entries do not count against `risk_max_positions`; a stop is
replaced by a later one of the same identity after an exit between two entry fills; a
queued message sets a disconnected route back to healthy; two opening demo orders can
both pass the position check; a refused snapshot is fetched again only with the next
depth event; a session whose attempts have failed 1024 times in a row, or whose `close()`
raises, is dead, although its class is to maintain the connection until stopped, and nothing
starts it again; an opening handshake that times out is caught by the clause for the planned
rotation (`ConnectTimesOut`), so the next attempt follows without a pause; nothing is
loaded from the paper tables after a restart, while the rows of the open positions stay;
a fill whose identity repeats is dropped from its table; a late seed puts a bar that has closed back to open values, and the newest
seeded bar counts as closed before it is; nothing renews a listenKey after a renewal
that failed; a bar without VWAP can leave a short signal's stop below its entry.

## 6. Plan

Done first, because money and data integrity rest on them: broker and risk, order book,
pipeline, strategy, demo orders with the user stream, candidates. Then the abstract
specifications and their refinements, the tables with restarts, the retries of the REST
client, restarts of the demo adapter, and the proofs of all safety properties that hold
and of the refinements. Next, in this order:

1. The windows of the feature engine and the anchored VWAP against a reference definition
   on bounded inputs.
2. The order in which the application starts and stops its components, and cancellation of
   demo orders.
