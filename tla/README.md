# A TLA+ verification project for haru-trade-manager

haru-trade-manager trades Korean stocks through the Kiwoom REST API. A FastAPI
process runs three loops in one event loop, keeps its records in PostgreSQL,
takes commands from Telegram and shows a dashboard. This directory models the
parts of `src/app/` that decide what is ordered, what is recorded and what
survives a failure; TLC checks the models on small instances and TLAPS proves
the central claims for every instance.

`tlc -config X.cfg M` repeats a run of the table below, `tlapm M.tla` a proof.

## 1. Inventory

### Parts, state and operations

| part | source | state it keeps | operations |
|---|---|---|---|
| Order service | `orders/service.py`, gateways | none beyond a call's locals; the broker has the orders | `place_with_reconcile` |
| Loop A | `loops/loop_a_runtime.py`, `services/trading_service.py` | signal queue (memory), `positions` table | consume a signal, monitor positions |
| Position state machine | `orders/state_machine.py`, `repositories/ordering.py` | rows `OPEN`, `HALF_CLOSED`, `CLOSED` | `decide`, `open_position`, `apply_transition` |
| Loop B | `loops/loop_b_runtime.py` | `_processed_slots` | bars that are due, fetch, upsert, scan |
| Loop C, backfill | `loops/core.py`, `services/runtime_factory.py` | last slots, the backfill task | maintenance every 30 minutes, backfill once a day |
| Coordinator, background task | `services/loop_runtime.py`, `services/loop_background.py` | metrics, last loop C slot, the task | `run_cycle`, `start`, `stop` |
| Time sync | `core/time_sync.py` | offset, last sync, last attempt | sync at 07:50, aligned time |
| Rate limited client | `core/rate_limited_client.py` | priority queue, last call, token | `submit`, the worker |
| Kiwoom client | `integrations/kiwoom/client.py` | token and expiry | `ensure_token`, `refresh_token`, `post` |
| Candles | `repositories/candle.py`, `integrations/kiwoom/market_data.py` | candles by ticker and timeframe | fetch what is newer, upsert |
| Settings | `core/config.py`, `repositories/config.py`, `services/config_service.py` | values in memory, `config` and `config_history` tables | `set`, `load_from_db` |
| Telegram commands | `services/telegram_command_service.py` | the pending change | `/set`, `/confirm`, `/pause`, `/resume`, reports |
| Runtime state and safety | `services/runtime_state.py`, `services/runtime_safety.py` | pause and halt flags, 200 events | `pause_*`, `halt`, `resume`, `critical` |
| OTP login | `services/auth.py` | codes, request windows, failures, sessions | `request_otp`, `verify_otp`, `validate_session`, `revoke_session` |
| Universe | `services/universe_bootstrap.py`, `repositories/universe.py` | symbols with status, block and `is_active` | seed, candle bootstrap, recomputation, rebalance, block |
| Backtests | `services/backtest_jobs.py`, `services/backtest_scheduler.py`, `backtest/core.py` | job table (at most `max_jobs`), last run date, shown result | start, run, trim, daily trigger, watch |
| Performance and paper gate | `services/performance.py`, `strategy_performance.py`, `paper_report.py` | snapshots, cash flows, paper trades | record, detect flows, return, curve, pass or fail |
| Incident reports | `services/daily_report.py` | the day and week last sent | build, send once |
| Risk and strategies | `risk/engine.py`, `strategies/` | none | stop prices, limits, signals |
| Live preflight | `services/live_preflight.py` | none | check, rehearse cycles |
| Routes, dashboard | `main.py`, `api/routes/` | startup status | HTTP |

### How they interact

The background task (or a request to `/system/loops/run-cycle`) calls
`run_cycle`: loop A, then the time sync, then loop B for every ticker, then,
when its slot is new, loop C, which may start the backfill task. Loop B puts
signals into the queue that loop A consumes in a later cycle. Loop A calls the
order service, which calls a gateway, which queues its HTTP calls in the rate
limited client. Critical events of the order service, loop A and the coordinator
halt the runtime state, which Telegram commands also change. Settings are read
by every part and written by three routes; one of them, the liquidity
threshold, makes its writer recompute the active symbols, as a rebalance and a
start do. Everything `async`
shares one event loop; plain route functions run in a pool of threads.

### What is hard here, and what makes it correct

- **Orders over an unreliable network.** An answer may be lost after the broker
  took the order. Success must be backed by an order; a retry must not double
  an order that is known; failure must not be silent.
- **Awaits between a decision and its record.** Loop A decides on a row, waits
  for the broker and then writes: overlapping cycles, failing commits,
  cancellation and crashes fall in between. The table may lag behind the
  broker, but must not claim sales that did not happen.
- **Check, await, mark.** Loop B checks a bar's slot before its fetch and marks
  it after; loop C, the backfill and the backtest scheduler have the same shape.
- **Time.** Slots, windows and locks have boundaries; the clock's offset changes
  in the middle of the morning; cycles take longer than a minute.
- **Memory and table of the settings** are written one after the other, by
  threads, with a fallback to memory when the database fails.
- **Several writers of one table.** Bootstrap, backfill and loop B fill the same
  candles; a rebalance writes rows it read before a slow download. They may
  leave no holes in the history, and an operator's block is nobody else's to change.
- **One rule written twice.** Exits in the backtest and in the position state machine;
  the return in the report and in the curve.
- **A table at its limit.** Running jobs lose their row, old events their place.
- **Progress.** Every call returns, every cycle and every job ends, candles catch
  up, a stop that is hit closes its position.

`PROJECT.json` lists each hazard at its line with the properties aimed at it.

## 2. Modules

| module | models | main actions |
|---|---|---|
| `OrderPromise` | abstract: what a caller of the order service may rely on | `Take`, `Warn`, `Succeed`, `Fail` |
| `OrderReconcile` | `place_with_reconcile` over broker and network | `Begin`, `PlaceOk`, `PlaceErrorWithId`, `PlaceErrorNoId`, `PlaceException`, `Status*` (which may be untrue); external `Arrive`, `Vanish`, `Work` |
| `PositionMachine` | `decide` of the position state machine, a pure operator | used by `TradingLoop` and `TradeSimulation` |
| `TradingLoop` | loop A with repository, entries, runtime flags | `StartCycle`, `EntryOk/Failed`, `Decide`, `CloseOk/Failed`, `KeepOpen`, `AlertSent`, `Cancel`, `Crash`, commands |
| `LoopCycle` | coordinator, background task, loop B, loop C, time sync, backfill | `StartTask`, `StopTask`, `StartCycle`, `LoopAReturns`, `SyncReturns`, `FetchReturns`, `StoreFails`, `CycleRaises`, `AwaitAlert`, `AlertReturns`, `OperatorResumes`, `BackfillEnds` |
| `RateLimitedClient` | `submit`, the worker and cancelled callers | `Submit`, `CancelCaller`, `Take`, `Wake`, `Succeed`, `Fail` |
| `KiwoomClient` | `post()` and the token, composed with `RateLimitedClient` | `PostWithToken`, `PostRefreshes`, `TokenArrives`, `TokenFails`, `BackoffEnds`, `CallReturns`, `CallerCancelled`, `WorkerBegins`, `WorkerEnds` |
| `OtpAuth` | codes, limits, locks, sessions | one action per branch of `request_otp` and `verify_otp`, `ValidateExpired`, `revoke_session` |
| `ConfigControl` | settings, pending change, every recomputation of the active symbols | `WebSet`, `TelegramSet`, `TelegramAsk`, `Confirm`, `ReadRow`, `SetMemory`, `Commit`, `DatabaseFails`, `InsertFails`, `Recompute` steps, `Reselect`, `Upsert`, `Restart` |
| `BacktestJobs` | job table, job coroutines, requests, scheduler, watchers | `run_backtest`, `start_manual_backtest`, `BeginJob`, `SimulateSignal`, `SimulationRaises`, `NoticeSent`, `trigger_if_due`, `RunNow`, `WatchJob` |
| `TradeSimulation` | one simulated trade, candle by candle | `SkipTrade`, `EnterTrade`, `WalkCandle`, `EndOfData` |
| `Backtest` | a dashboard backtest: jobs, trades and strategies together | composes `BacktestJobs`, `TradeSimulation`, `StrategyScan` |
| `StrategyScan` | the five strategies, loop B's scan and the walk of a dashboard backtest | `CandleArrives`, `run_for_timeframe`; operators `generate`, `ManualSignal` |
| `PerformanceBook` | performance tables and everything computed from them | `record_snapshot`, `record_cash_flow`, `create_trade`, the steps of `detect_cash_flows`; operators `twr_report`, `equity_curve`, `report`, `check_criteria` |
| `IncidentReports` | ring of critical events, daily and weekly reports | `Incident`, `SendDaily`, `SendWeekly`, `Delivered`, `NotDelivered` |
| `LivePreflight` | preflight check and rehearsal, on top of `IncidentReports` | `live_preflight_check`, `live_rehearsal`, `LineAnswers`, `PriceAnswers`, `CycleSucceeds`, `CycleFails`, `OthersFail`, `OperatorResumes` |
| `CandleStore` | candles and their three writers | `SyncDue`, `StartBackfill`, `BrokerAnswers`, `FetchRetried`, `FetchFallsBack`, `Store`, `StoreFails`, `Crash` |
| `UniverseTable` | symbols: seed, rebalance, recomputation, operator | `upsert_universe_symbol`, `block_universe_symbol`, `RecomputeRead/Commit`, `RebalanceRead/Commit/Conflict` |
| `*Proofs` | theorems of `OrderReconcile`, `TradingLoop`, `RateLimitedClient` with `KiwoomClient`, `LoopCycle`, `OtpAuth`; `BacktestProofs` of `Backtest`, `OperatorProofs` of `ConfigControl`, `LivePreflight` with `IncidentReports`, and `PerformanceBook`, `UniverseProofs` of `CandleStore` and `UniverseTable` | |
| `MC*` | instances for TLC | |

`MCBacktest`, `MCAnalytics` and `MCUniverse` hold two or three machines that share
no more than the history of incidents (reports and preflight). A variable `part` picks, in the
initial state, the one a behaviour belongs to; the others rest.

An action is what a coroutine does from one await to the next (what a pool thread
does between two waits for the database, in `ConfigControl`). `TradingLoop`
uses an order call in the form of `OrderPromise`, which `OrderReconcile` is
proved to implement, and takes every success as vouched for: an untrue status answer,
after which a success may have no order behind it, is left out there (section 5).
`LoopCycle` treats loop A as an await that `TradingLoop` opens.

How the state corresponds:

- **OrderReconcile.** `ord[c][n]` is attempt `n` of call `c` as network and broker
  have it, from `"unsent"` over `"flying"` to live, cancelled, rejected or lost;
  `known` holds the attempts whose answer had an id. A request may arrive after
  the client gave up on it. A timeout and a refused connection are the same
  `PlaceException`. A status answer may be untrue: `misled[c]` records the
  attempts of a call about which it was (section 5).
- **TradingLoop.** `pos` is the positions table, one row per signal; `bought` and
  `sold` are what the broker did. Quantities are counted in half shares, so that
  the entry of 1.0 share is 2 and the half of a take profit is 1; prices are
  numbers around an entry of 10, with the stop at 7 and the take profit at 14.
  `Faults` switches on lost answers, failing commits, cancellation, crashes,
  unreadable prices and operator commands. `Truncates` is `int(qty)` of the
  Kiwoom gateway.
- **LoopCycle.** Times are minutes. `processed` is `_processed_slots`; `done` and
  `again` record which bars were scanned, and which of them twice. Broker time
  differs from server time by an element of `Offsets`. `cleared` is the number of
  errors at the operator's last `/resume`; a cycle that failed waits for its
  alert to be sent, where `stop()` may cancel it.
- **RateLimitedClient.** Ticks of a clock that may pass anywhere; `behind[j]` counts
  the data calls begun while order `j` waits.
- **OtpAuth.** One record field per variable; `issueTimes`, `failTimes` and the
  serial numbers of codes are history variables for the properties.
- **KiwoomClient.** Job `<<c, 0>>` of the queue is the call of `c`, `<<c, k>>` its
  `k`-th request for a token. Tokens are numbered as the broker issues them;
  `held[c]` is the one a call carries.
- **BacktestJobs.** A job is its number, which orders jobs as `created_at` does. What a
  trade gives is chosen freely; a result is its counts. `auto` is the history
  of the scheduler's jobs.
- **TradeSimulation.** Beside the simulated trade runs `machine`, a row with the same
  entry, levels and trail that `decide` handles on the lowest, the highest and again the
  lowest price of each candle. It compares the two writings of the exit rules and
  is not the row of a live entry, which has other levels (section 5). Quantities
  are in half shares, multipliers in halves.
- **StrategyScan.** Times are half minutes, so that a scan falls inside a minute and
  never on its first second. `seen` is the last scan of loop B; what a backtest
  finds is computed from the same table. The periods 5, 20, 60 of the means and
  the 20 volumes are constants.
- **PerformanceBook.** A rate is a fraction, compared by multiplying crosswise; the
  Sharpe ratio, of returns on each trade's own entry value, is compared with its
  limit without the root. Rows of one moment may come in any order, and in another
  one in the next query (`Ordered`). `settled` remembers the list and the threshold of
  an undisturbed detection, a flow's `from` the start of the stretch it was
  inferred from, and `inOrder` whether every snapshot came later than the others.
- **IncidentReports, LivePreflight.** Time in half days, so that the zones of the host
  and of the server disagree about the day. `incidents` is the full history
  beside the ring `events`.
- **CandleStore.** A key is a ticker with a timeframe; `candles[k]` is the set of candles
  with a row, the forming one included. A writer reads the last stored time,
  waits for an answer, which may lack any candle, and stores what is newer.
  `skipped[k]` is history: what answers lacked below a candle they brought.
- **UniverseTable.** A session writes at its commit the columns it changed, against
  the rows it read (`autoflush=False`); `said` is what the operator last asked.
- **ConfigControl.** A rule is the set of values it allows. `old` is the row a thread
  read, since SQLAlchemy sends an UPDATE only for a value that differs from it;
  an INSERT that finds a row fails. `alone`, `agreed` and `selected` record
  whether the last write of a key, or the last recomputation, overlapped another
  or met a failure. A rebalance, the startup task and a change of the threshold
  recompute; the upsert route writes `is_active` without. The symbols are rows of
  the universe with a normal status; what else a rebalance does is in `UniverseTable`.

## 3. Runs

| run | checks | shows |
|---|---|---|
| `order_reconcile` | `OkIsBacked`, `NoRetryOverKnownOrder`, `ImplementsPromise`, `EveryCallReturns` | what a result of the order service means, over all losses, delays and untrue status answers: a known order is doubled only after an untrue answer about it |
| `order_double` | `AtMostOneLiveOrder` **violated** | a lost answer without an id is followed by a second order |
| `loop_a_single` | `BookMatchesBroker`, `StateMovesForward`, `StopLossHappens`, `TakeProfitHappens` | one cycle at a time without failures: table and broker agree; an open position at its stop, and a half closed one at its trail, however wide, is sold; the take profit is taken (with the paper gateway) |
| `loop_a_faults` | `RecordedIsSold`, `PositionIsBacked`, `EntryOnce` | what holds under every fault with two overlapping cycles |
| `kiwoom` | `SpacedAfterSuccess`, `QueueOrder`, `TokensMoveForward`, `EveryPostEnds` | order and distance of the calls, tokens under concurrent refreshes, progress |
| `cycle_single` | `ScannedOnce`, `CycleEnds` | around 08:00 with the clock's sync: no bar twice, every cycle ends |
| `cycle_maintenance` | `MarkedIsScanned`, `MaintainedOnce`, `FailureStaysHalted` | around 16:00 with an overlapping request: maintenance once; a failure after the last `/resume` leaves a halt that no stop, no other cycle and no earlier `/resume` takes back |
| `otp_auth` | `OneSessionPerCode`, `BurstBounded`, `FailuresSpaced` | the limits of the login over all boundaries |
| `config` | `SettingsAgree`, `StoredIsValid`, `ActiveMatchesThreshold` | when memory, table, history and universe agree, whoever recomputes |
| `backtest` | `TableKeepsNewest`, `ScheduledOncePerDay`, `JobOutcomes`, `SameSignalsSameExits`, `RowsMoveForward`, `EverythingEnds` | jobs at the table's limit, overlapping watchers, one scheduled run a day; a backtest finds the signals loop B found and exits where the state machine does at the same levels |
| `analytics` | `ChangesDetectedOnce`, `CurveMatchesReport`, `PaperReportsAreSound`, `OperatorIsInformed` | no change detected twice over repeated detections of snapshots in order; report and curve agree on one list; pages complete but for ties, no pass without evidence; no incident hidden |
| `universe` | `NoGaps`, `BlockIsKept`, `RebalanceIsExact`, `CatchesUp` | the history has only the holes of incomplete answers, and catches up but for them; blocks survive stale commits |

Type invariants are parts of the inductive invariants of section 4; the runs do
not repeat them.

### Bounds, and why they are enough

- Calls of the order service share nothing but the external broker's table of
  separate entries: one call is enough, and the proofs cover any set.
- Two coroutines are enough for loop A and the cycle, since the background
  task and one request are what can overlap; a third would repeat the second.
  `loop_a_single` has two signals, so that an entry and the monitoring of
  another position interleave; `loop_a_faults` keeps one because every fault is
  on. `MaxSold` lets the broker sell a position twice over. The gaps 3, 6 and 12
  of `loop_a_single` put the trail above the entry, between entry and stop, and below
  the stop.
- `cycle_single` starts at 07:58 and ends at 08:01, `cycle_maintenance` at 15:59
  and 16:01: the minutes in which bars, slots and the backfill become due. The
  offset of a minute lets the aligned clock repeat or skip one.
- `kiwoom`: two data calls and an order are the smallest queue in which an order can be
  overtaken twice; two of them may refresh the token at once, with two attempts
  each (the code has three) and two faults, failures and cancellations together.
  The clock passes one interval, and a token of life 3 is expiring (margin 1)
  within it.
- One address is enough for the login: the addresses share only the session
  table. Durations are chosen so that windows, locks and codes end at
  different ticks; five codes fill the log of `2 * RequestLimit + 1`.
- Three requests, two threads and two failures let two writes of a key overlap
  after a first one stored its row, a recomputation overlap another or an upsert, and a
  restart recompute. A key of each kind, a value that no rule
  allows, and a symbol above and one below the higher threshold are in the instance.
  Threads, codes and sessions are symmetric.
- `backtest`: three jobs in a table of two, so that one is trimmed in every state of
  its execution; two days; a watcher that looks once and may give up; requests
  of the API and the dashboard with no signals, jobs of the scheduler with
  two. Trades: seven shapes of candle (flat, up, down, through stop and
  target, from zero, a gap) in every series of up to four, both sides, an ATR
  over two candles. Strategies: every table of five candles of four shapes, on
  which each strategy fires, at 09:00, 09:21 and 14:45, so that hours end
  between two candles; means over 1, 2 and 3 candles, two volumes, and a scan
  that sees three candles, so that the window is also cut; scans in the slot of
  the newest candle or one later.
- `analytics`: three snapshots at three times two of which are within the tolerance,
  or at the same time, in any order of recording; assets that reach zero, one flow by
  hand, three trades of two strategies on different entry values, two detections, at
  most four rows by hand; two report requests and three incidents in a ring of two,
  over three half days with a server zone half a day ahead of the host; two checks with a
  stage that needs the broker and one that does not, two cycles of a rehearsal.
- `universe`: the daily and the minute candles of one ticker, both in the bootstrap,
  the daily ones also in the backfill and the minute ones in loop B; three candles, of
  which an answer may lack any, one retry of a fetch; two symbols, one in each index,
  manual lists of one of them, an
  operator's upsert of a plain and of a blocked row, four calls.

Deadlock checking is off where the models stop at a bound or when all calls have
ended.

### Fairness

- `OrderReconcile`, `LoopCycle`: weak fairness of each coroutine's next step. The
  event loop resumes a coroutine whose await has ended, and every await ends:
  HTTP calls have a timeout of ten seconds, database calls return or raise.
- `KiwoomClient`: the same for every continuation, for the worker and for the clock.
- `BacktestJobs`: weak fairness of the jobs and watchers together: the event loop
  runs what is ready.
- `MCUniverse`: strong fairness of loop B's visit of a key, of an answer with every
  complete candle in it and of its commit, weak fairness of the end of a write: cycles
  come round, not every answer is incomplete, neither the broker nor the database fails
  every time, nor does the process die each time in between. Nothing is assumed
  of bootstrap and backfill.
- `TradingLoop`: also strong fairness of a broker that takes a close order:
  without it a broker that refuses for ever refutes every statement about
  closing, and no code can help that.

## 4. Proofs

All theorems hold for every value of the constants that satisfies the module's
named assumptions, which say no more than their types: prices, gaps and bounds are
natural numbers, offsets and amounts integers, symbols and times finite sets, a
walk a sequence of keys. A theorem that needs more states it as a hypothesis, named below. Each
inductive invariant was an invariant of TLC's runs before it was proved.

- **`OrderReconcileProofs`**: `TypeCorrect`, `OkBacked`, `NoDoubling`,
  `NoSilentFailure`, and `Refinement`, that `OrderReconcile` implements
  `OrderPromise`. The inductive invariant is `Inductive`: how far a call has
  come fixes what its orders can be. `NoRetryOverKnownOrder` alone is not
  inductive, since it does not say that the first order of a call in its second
  attempt was settled when its id was known, or denied by an untrue status answer;
  `CallInv` does. `OkBacked` and `NoDoubling` name that answer as the only way round them.
  The refinement maps the two attempts to the number of orders taken and critical
  events to a warning; every step is a step or a stutter of the promise.
- **`TradingLoopProofs`**: `SalesAreBacked`, `RowsAreBacked` and `SignalsExecuteOnce`
  for any number of overlapping cycles and every combination of faults, from
  `TradeInv`. `RecordedIsSold` is about the table, but what a cycle is about to
  write lies in its locals: `RunnerInv` says that a sale the broker took for an
  open transition is one the table does not show yet, and `OverlapInv` that two
  cycles with taken orders for the same position have sold all of it, so that
  whichever writes last claims no more than was sold. `SignalInv` gives a signal
  one place at a time. Two more theorems have hypotheses. `RowsMoveForward`
  assumes `OneRunner` (the background task alone): `CurrentInv` then says that
  the detached rows a cycle decides on are still those of the table, which
  overlapping cycles break (section 5). `TableIsTheBook` assumes `NoFailures`
  too, no fault and buy signals only, and follows from `BookInv`, which
  accounts for the order under way.
- **`RateLimitedClientProofs`**: `TypeCorrect` and `Spacing`: no call begins within
  the interval after a successful one. `SpacingInv` adds that one job at a time
  is with the worker, that its sleep reaches past the last success, and that
  every success ended no later than `_last_ts`. `OrderIsKept` needs, with
  `QueueInv`, that no data call sleeps in the worker while an order waits that
  was overtaken, and that a job taken from the queue, asleep or not, has every earlier
  one of its priority before it.
  `ClientImplementsQueue` shows that every step of `KiwoomClient` is a step
  of the queue or leaves it alone, so `ClientKeepsOrder` carries both
  properties over to the client. `TokensNeverGoBack` rests on `TokenInv`: the
  worker ends one request at a time, its caller continues before the next ends,
  and so a token that has arrived is no older than the one kept.
- **`LoopCycleProofs`**: `MarksAreTrue`, with any overlap, from `CycleInv`.
  `MaintenanceRunsOnce` needs that the last slot is the newest one
  with a run and that its time has come by some reading of the clock (`SlotInv`);
  its hypothesis `ClocksClose` keeps two offsets less than 30 minutes apart, as a
  clock set back further meets an old slot again. `BarsScannedOnce` assumes
  `OneRunner`, and `ClocksAgree`, offsets less than the shortest bar of three
  minutes apart; `ScanInv` says that a mark is the newest scanned slot of its
  key and that the bar a cycle is about to scan is ahead of it.
- **`OtpAuthProofs`**: `TypeCorrect` (with the limits of the counters) and
  `CodesUsedOnce`. `AuthInv` adds that a stored code has a serial number of
  its own, and that a counter passes its limit only under a lock.
  `FailuresAreSpaced` adds that without a lock the failures before those the
  counter counts are a whole lock older (`FailInv`). `BurstsAreBounded` adds the
  same of the windows of requests (`BurstInv`), under `LockCoversWindow`, that the
  lock after too many requests is no shorter than the window: 600 and 60 seconds
  in `services/auth.py:63` to `:65`.
- **`OperatorProofs`**, settings: `OnlyValidIsStored`, `WritesAgree` and
  `SelectionFollows`, for any threads, keys, rules and symbols. `ConfigInv` adds
  what the threads carry: past `manager.set` a value has passed its rule; a
  call that met no other of its key still finds the row it read (`AloneInv`);
  memory is ahead of the table, or the selection behind the threshold, only
  while a call is between the two writes (`AgreeInv`, `SelectInv`). The recomputations of
  a rebalance and of a start, and the upsert that writes `is_active` by itself, are
  among the calls.
  Reports: `OperatorInformed` of `OperatorSpec`, in which reports and preflight
  interleave, for any ring, days and requests. `OperatorInv` says that the ring
  holds exactly the last of the history (`RingInv`), that a mark is a
  delivered report, and what a request has noted of its beginning: a halt it does
  not know of comes from an incident since (`NotedInv`), and cycles run only
  after all that is required has passed (`RehearsalInv`).
  `PreflightKeepsReports` shows that the composition implements the reports alone.
  Flows: `DetectedOnce`, for one detection at a time. While snapshots come in the
  order of time, a booked change lies between two that follow each other, and no
  later snapshot comes between them (`InOrderInv`), so two stretches that end apart do
  not overlap; without that order nothing keeps them apart (section 5).
  `DetectionInv` carries, for a detection that no write has disturbed, that every
  pair it has passed is explained, and for one about to create that no automatic
  flow is near. That explanations stay is a lemma.
  The curve: `CurveAgrees`, from `BookInv` with `AmountInv`, that amounts are
  numbers. The product of the report runs over a set of pairs, that of the
  curve over a list: the lemmas on folds show that the order makes no difference to a
  commuting operation, and `CompoundedGrows` that a point adds the pair it ends.
  Pages: `LoneSnapshotsShown`, for every size of a page and any order of ties at each
  request: at every place the pages show a row with the time that place has in any order, so
  only rows that share their time may be shown twice, or not at all.
- **`BacktestProofs`**, jobs: `JobsTypeCorrect`, `TrimKeepsNewest` and
  `OneScheduledRunPerDay`, for any table size, number of jobs, days and signals.
  `JobsInv` is `TableInv`, that the table holds exactly the newest jobs and that
  a coroutine's counters add up, and `DayInv`, that no started job is of the
  future and the scheduler remembers the last day on which it started one.
  `ScheduledOncePerDay` alone is not inductive: it does not say that
  `last_run_date` is the day of the last job. The step of the trimming rests on
  a lemma that it removes one row, the oldest, whenever the table has grown by
  one. `OutcomesAreTrue` needs `OutcomeInv`, which ties each row to its coroutine
  and its message (`JobInv`), for a row may be trimmed while its coroutine runs
  on; `RowsNeverGoBack` follows from it, with a lemma that the percentage
  grows with the signals done.
  Exits: `ExitRulesAgree`, for every series, signal, period and multiple, from
  `TradeInv`: the row of the state machine carries the levels and the high of the
  simulated trade (`MachineInv`), and a trade that is held has its last candle on the right side of
  its stop or trail (`LongInv`, `ShortInv`), so that a trade ending with the data is
  bounded too. Signals: `SignalsLikeLive`, from `ScanInv`, that the last scan saw
  the newest candles up to its own, which later candles do not change; the rest
  is that a strategy reads no further back than both lists reach
  (`WindowsEndAlike`, `AnswersAlike`). `BacktestRulesAgree` joins the two.
- **`UniverseProofs`**: `HistoryHasNoGaps`, from `CandleInv`: everything a writer will
  not ask for is stored or was passed over by an answer, however long ago it read the
  last time. `BlocksStay` and
  `RebalancesExactly`, from `TableInv`: rows a session has read never leave the
  table, and a rebalance that counts as undisturbed has read what the table
  still holds.

Only model-checked:

- all liveness (`EveryCallReturns`, `EveryPostEnds`, `CycleEnds`, `StopLossHappens`,
  `TakeProfitHappens`, `EverythingEnds`, `CatchesUp`), which needs fairness and
  ENABLED;
- `FailureStaysHalted`: it counts the errors that `/resume` has seen, and is checked
  with a failing cycle whose alert is cancelled, an overlapping cycle and `/resume` in any order;
- `PaperReportsAreSound`, but for the pages of snapshots: the other lists are sorted
  by an operator the provers cannot open, and the sharing out of the profit over
  pages is a sum over a fold. Its drawdown part is no theorem of every instance: the
  running maximum is relative to the peak, so it is the worst fall only as long
  as the account is above zero, as in the run, where the losses stay below the capital;
- `ScannedOnce` and `MaintainedOnce` for offsets further apart than their theorems
  allow, and `AtMostOneLiveOrder`, which the code violates.

## 5. Divergences between code and documents

Shown by a violation run: `order_double` (see `findings` in `PROJECT.json`). Met while
modelling, part of the models, without a run of their own:

Orders:

- `integrations/kiwoom/gateway.py:59` reads every body without rows as "no such order",
  an error's too, since `return_code` is not looked at, and `:48` answers so without
  an account; an order known to be live is then placed again. Of a body with
  rows it takes the first without comparing the order's number, and a missing
  status for `accepted` (`:62`, `:63`): a rejected order is then reported as ok. The model
  lets every status answer be untrue; `NoRetryOverKnownOrder` and `OkIsBacked` hold
  but for calls with such an answer. `TradingLoop` takes the answers for true: with
  an untrue one its table may also show a position, or a sale, that no order backs.

Trading:

- A half closed position is no longer compared with its stop
  (`orders/state_machine.py:60` to `:77`): with a trail wider than the way from its high to
  the stop it stays open below the stop. `StopLossHappens` therefore speaks of the
  stop of an open position and of the trail of a half closed one.
- A backtest gives its trades other levels than a live entry gets. Live: the signal's
  price, stop and target at 1.5 and 2.0 times the larger of 1 % of it and 1
  (`services/trading_service.py:75` to `:80`), a trail by the ATR of the 5 minute
  candles, read anew in every cycle (`services/runtime_factory.py:184` to `:196`). Backtest:
  the next candle's open with slippage, one ATR of the signal's own candles for
  the whole trade, multiples from its settings (`services/backtest_jobs.py:223`).
  `SameLevelsSameExits` therefore compares the exit rules at the same levels; it
  does not say that a backtest's results are those of live trading.
- `docs/prd.md:276` halves a position at the take profit;
  `integrations/kiwoom/gateway.py:36` sends `int(qty)`, and half of the one share that
  `services/trading_service.py:57` buys is 0 shares. `TakeProfitHappens` is
  therefore stated of the paper gateway (`Live` has both).
- `services/backtest_jobs.py:299` clamps the trailing stop of a purchase at zero,
  `orders/state_machine.py:62`
  does not: with a trail wider than the profit and a price of zero they
  part (found when the proof of `ExitRulesAgree` failed). `SameLevelsSameExits`
  names the two conditions, either of which excludes it.
- `services/backtest_jobs.py:367` takes `lowest or candle.low`, which forgets a low of
  0.0: the loss of a short is bounded for positive prices. Nothing keeps a
  configured trail below twice the profit; a wider one can give back more than
  the stop allows, and `LossIsBounded` bounds that trade by its trail.
- `docs/functional-spec-v0.1.md:125` stops every automatic action at `/pause all`; no
  loop reads the flag.
- `docs/functional-spec-v0.1.md:85` allows `OPEN`, `HALF_CLOSED`, `CLOSED` in this order;
  overlapping cycles may write `HALF_CLOSED` over `CLOSED`
  (`loops/loop_a_runtime.py:174`). `StateMovesForward` is checked for the
  background task alone.
- `docs/prd.md:288` and `:665` close margin positions at 15:20 and limit the number of
  positions; `risk/engine.py:14` to `:20` and `:48` compute it and nothing in the
  running program calls them.
- `docs/prd.md:791` treats repeated connection errors as a state in which nothing
  can be sold until the price is read again;
  `services/runtime_factory.py:173` and `:245` answer with the last stored close,
  or 0.0, on which a position is sold as a stop loss (fault `price`).
- `docs/prd.md:258` describes entries as purchases; `services/trading_service.py:55`
  also executes the sell signals of `strategies/impl/gap_momentum.py:29` (`Sides`).
- `docs/functional-spec-v0.1.md:50` promises 0.2 seconds between calls;
  `core/rate_limited_client.py:66` sets `_last_ts` only after a success, so a call
  may follow a failed one at once. `SpacedAfterSuccess` states what holds.
- `docs/rebuild-roadmap.md:100` excludes a second run of a slot; overlapping cycles
  check it before and mark it after the fetch (`loops/loop_b_runtime.py:106`, `:113`).
  `ScannedOnce` is therefore checked for the background task alone.
- `docs/functional-spec-v0.1.md:77` says that every bar's end triggers; a round over
  the tickers that leaves the minute skips it (`loops/loop_b_runtime.py:98`).
- `docs/prd.md:475` keeps the old offset and warns when the sync fails; the exception fails the
  cycle and halts (`services/loop_runtime.py:128`).
- `docs/prd.md:639` updates memory and table together; a failing database leaves the
  value in memory only (`services/config_service.py:54`), and overlapping writers
  may leave the two apart. `SettingsAgree` states when they agree.
- `/confirm` clears whatever is pending when it ends, also a change asked for
  meanwhile (`services/telegram_command_service.py:137`).
- Sessions end only when validated, and the tables of requests and failures only
  grow (`services/auth.py:164`).

Broker and candles:

- `docs/functional-spec-v0.1.md:62` and `docs/prd.md:131` update the last, forming candle;
  `integrations/kiwoom/market_data.py:58` drops every candle that is not newer than
  the last stored one. A candle stored while forming stays as it was then.
- A row whose time cannot be parsed is skipped (`integrations/kiwoom/market_data.py:55`), a
  body without rows, an error's too, reads as no candles, and one page is fetched
  without its continuation. What an answer leaves out below a candle it brings is never
  asked for again: a hole that stays, in backtests and means too. `NoGaps` and `CatchesUp`
  count these holes in `skipped` and exclude every other one.
- `integrations/kiwoom/client.py:104` reads `expires_dt`, a local time, as UTC: in Korea a token
  counts as valid nine hours after it has expired. No property depends on the moment;
  the model lets a token of a fixed life be renewed before its end (`TokenArrives`).
- No lock around the token: each caller that finds it expiring fetches one, and an
  order waits behind its own token request, queued as data. A token whose
  expiry cannot be read is kept under the old expiry (`TokenUnreadable`).
- A fetch that fails is answered with stored candles and the bar is marked all the
  same (`services/runtime_factory.py`). The bootstrap answers `no_candles_collected`,
  not ok, when everything was up to date.

Universe:

- Since `autoflush` is off, tickers a rebalance adds or brings back stay inactive until
  the next recomputation. It reads the open positions before the download: a
  ticker bought meanwhile may be `removed`. A recomputation that overlaps it may
  activate a row it sets to `exit_pending`. `RebalanceIsExact` is therefore about
  undisturbed rebalances.

Strategies and signals:

- `docs/prd.md:189` and `:205` take high, low and close of the previous day for breakout
  and pivot; `strategies/impl/volatility_breakout.py:28` and
  `support_resistance.py:21` take those of the previous candle of 3 or 15 minutes.
- A scan without a new candle meets the last one again and queues its signals a
  second time: a slot, not a candle, is what loop B marks.
- A backtest asks a strategy at the candle's own time, loop B up to a slot and more
  later: at the end of the hours only one of them finds a signal. The pullback's
  means begin with the window, which is 240 candles live and the whole range in
  a backtest. `SimulatedSignals` compares them where these agree.
- `/close` answers that the request was taken, and nothing closes
  (`services/telegram_command_service.py:142`).

Backtests and reports:

- A run by request before `run_hour` takes the place of the day's scheduled run; a
  restart forgets `last_run_date`; the watcher of an older job may show its
  result after a newer trigger; scheduled jobs carry no metadata.
- Detections that overlap can book one change twice, so `PerformanceBook` runs one at a
  time. So can one detection after a snapshot with an earlier time was recorded: the
  tables have no unique time (`db/models/performance.py`) and `has_cash_flow_near` looks
  only around the closing snapshot (`services/performance.py:129`). A flow entered by
  hand more than 90 seconds from that snapshot is booked again as well.
  `ChangesDetectedOnce` therefore speaks of automatic flows, and of stretches while snapshots
  come in order; with ties a later detection may read another order and find more.
- Lists are ordered by time alone: rows of one time may be shown twice or not at
  all at the border of two pages (`repositories/performance.py:48`), and report and curve
  may differ if they read ties in different orders.
- The paper gate averages returns on each trade's own entry value
  (`services/paper_report.py:78` to `:84`): many small gains and a few large losses pass with
  a loss in sum. `PassNeedsEvidence` says what a pass does mean.
- The report counts flows at or before its first snapshot, the curve
  absorbs them; `CurveMatchesReport` compares the gain where there are none.
  Lists end at 5000 and 10000 rows, oldest first. A strategy without losses sorts
  last by profit factor. Nothing in the program writes `paper_trades`.
- Overlapping requests may send a daily report twice, and the mark may move back to
  an older day. The default day is the host's, an event's day the server's.
- The preflight reads the flags before it asks the broker: a halt during the check
  still passes, which `OperatorIsInformed` allows for.
- `/dashboard/summary` always says `not_started` (`main.py:293` binds a new dict).

## 6. Not modelled

HTTP payloads and parsing, rendering, CSV, logging, audit records and schema scripts
are left out: an input or an outcome of the models stands for them. The limits of
`risk/engine.py` and its order of a margin
close have no caller. `src/legacy/` is the former program and is not imported.
`PROJECT.json` gives the reason for every other part.

## 7. Plan

Done, in this order: order service with its promise and proofs; loop A; rate
limited client with proofs; cycle; login with proofs; settings; the Kiwoom client
on the queue; backtests with proofs, and the strategies; performance, reports and preflight; candles
and symbols.

Also done: the proofs of loop A, the cycle, the queue's order and tokens, settings,
candles, symbols, login, backtests with their trades and signals, reports and
preflight, flows and the equity curve.

Next: the pages of the other lists; the paper report's drawdown with an account
that may reach zero; `TradingLoop` with untrue status answers; the row of a live
entry beside the simulated trade; type invariants of `TradingLoop` and `LoopCycle` as
theorems of their own.
