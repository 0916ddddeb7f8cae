# Cash-and-carry monitor: verification project

The repository watches the spread between the spot and the perpetual market of
crypto instruments and tells a Telegram channel when a cash-and-carry position
(buy spot, sell the perpetual, collect funding) pays. The service is the Python
package `src/src/monitor`; around it lie research scripts (collectors,
backtests, paper trading, charts) and the deployment.

This directory holds TLA+ models of the service and of the research scripts, the
TLC configurations that check them, and TLAPS proofs about them. `PROJECT.json`
is the index: runs, mutants, theorems, findings, hazards, and for every modelled
definition the lines of code it stands for. Paths below are relative to
`src/src/monitor` where they have no other root.

## 1. The system

### Components, their state, their operations

| Component | State | Operations | What makes it correct |
|---|---|---|---|
| `MonitorApp` (`app.py`) pipeline | `_state_store`, `_last_quality_warning_ms`, `_previous_market_snapshots`, locals of `_process_symbol` | `_process_cycle`, `_process_symbol`, `_handle_bad_data`, `_send_signal_alert`, `_maybe_send_quality_warning`, `_save_notification_alert` | an alert only for a confirmed, fresh condition; the cooldown between alerts; one alert for an episode; a failed alert is tried again; bad data resets; one instrument's failure stays its own |
| `MonitorApp` main loop, `main.py`, `utils/async_utils.py` | `_stop_event`, `_last_heartbeat_ms`, `_last_cleanup_ms`, the start of the cycle | `run`, `request_shutdown`, `close`, `_maybe_send_heartbeat`, `_maybe_cleanup`, `wait_for_stop`, `next_tick_delay_ms` | a steady pace, spaced heartbeats, a shutdown that ends |
| Signal engine (`signals/`) | none; `InMemorySignalStateStore` is a dictionary | `evaluate_signal`, `calc_cooldown_remaining_sec`, `hysteresis_threshold`, `update_alert_state` | state, confirmations, start and last alert fit together; rounding never opens the cooldown early |
| Rate limiter (`notifications/rate_limiter.py`) | a deque of timestamps for every key | `allow`, `remaining`, `reset` | no more than the limit in a window; no refusal without cause |
| Telegram notifier (`notifications/telegram.py`, `utils/retry.py`) | the limiter, an HTTP client | `send_alert` and its wrappers, `_send_text`, `_split_message`, `retry_async` | chunks in order, bounded attempts, SENT means delivered, every call ends |
| Exchange clients (`exchanges/`) | lazily loaded markets, cached funding intervals, two locks | tickers, funding snapshot, order book | loaded once and before use; one interval for a symbol; every call ends |
| Normalizer (`exchanges/normalizer.py`) | none | payload to records | times and intervals in the right unit, a rate from the field it claims |
| Calculators (`calculators/`) | none | basis, costs, funding yield, net yield | every cost counts, over the right hours |
| Universe (`universe/`) | none | `select_universe` | the best N and the anchors |
| Persistence (`persistence/`) | SQLite behind one lock, one connection | inserts, `cleanup_old_records`, `replace_active`, `was_recent_alert` | a saved row is durable; the pool is of one refresh |
| Configuration, wiring (`config/`, `bootstrap.py`) | read once | validation, `build_app` | the bounds the models assume |
| Data services and quality (`monitor.data`) | - | `fetch_market_snapshot`, `fetch_funding_snapshot`, `check_symbol_quality` | imported by `app.py`, absent from the repository: external |
| Formatter, logger | none | texts, files | wording |
| Pin-bar backtests (`src/backtest_pin_bar_v1.py` .. `v7`, `src/GerchikLevelDetector.py`) | an open trade, the levels cached for a window | `simulate_symbol`, `detect_levels`, `main` | one position, ended at its worst; no look-ahead; a report that agrees with the exits |
| Charts (`src/visualize_trade.py`, `src/visualize_trades_v4.py` .. `v7`) | none | `find_trades`, `plot_trade`, `main` | they show the trades of the backtest |
| Momentum (`src/backtest_momentum_v1.py`, `v2`) | position, equity | `simulate_symbol`, `filter_and_align`, the aggregation | no return earned by the bar that decided it; fees of every side |
| Pair selection (`src/select_pairs_momentum.py`) | the whitelist file, a session | `filter_pairs`, `atomic_json_write` | the best, no two correlated; the whole list of the last run that replaced it |
| Paper trading (`src/paper_trade.py`, `_zero_fee`) | list of trades | `simulate_symbol`, the report | one position at a time, each settlement once |
| Collectors (`src/klines_collector.py`, `src/bybit_funding_collector.py`, `src/backfill_top50.py`, `src/make_research_snapshot.py`) | SQLite tables | poll, store, page back, reduce | what the exchange said when it was asked, once; last rates; gaps and unfinished candles only where an outage or a kill explains them |
| Reports, deployment | - | - | - |

### How they interact

One asyncio task runs the service. `main` calls `run`; each pass of its loop
awaits `_process_cycle`, the heartbeat, the cleanup, then the wait for the next
tick. A cycle takes the enabled instruments in order; `_process_symbol` awaits,
for one instrument: the market snapshot, the funding snapshot, the save of the
quality report, the save of the metrics, the save of the decision, the send, the
save of the alert row; then it updates the stored alert state without an await.
The requests of a snapshot run concurrently on one exchange client, which loads
its markets and funding intervals for whichever comes first; the normalizer turns
the answers into records, and the calculators turn the records into the yield the
engine decides on.
The notifier asks the limiter, splits the text and posts chunk after chunk with
retries. SQLite calls run in a thread that the task awaits. Signals (SIGTERM,
SIGINT) are handled by the event loop while the task awaits something and set
`_stop_event`. systemd restarts the process whenever it ends
(`src/deploy.sh:168`); nothing but the database outlives it, and the service does
not read the database.

The research scripts are programs of their own. They meet through files: the
collectors fill SQLite tables, the backtests and charts read them, the charts
repeat the simulation of the backtest they belong to, paper trading reads the
service's decisions and the collected rates, and the pair selection writes the
list that a trading bot reads.

### What is hard

- **The service's task.** There is no parallelism inside it, so the hazards are
  not data races. They are: state read before an await and used after it (the
  state the update starts from, the snapshot, the clock); one step of several
  that raises (the saves stand between decision, send and update); the three
  outcomes of a send and what each leaves behind; two cooldowns and a limiter fed
  by different clocks; a wall clock that may be stepped; a restart that forgets;
  a text cut into chunks whose acknowledgements may be lost.
- **The exchange client** is where tasks meet: two lazy loads behind locks, each
  of several awaits, any of which may fail, with others waiting in line.
- **The database** is one connection whose statements each commit: a statement
  whose commit fails stays in the transaction of the next one.
- **Units and orders.** Seconds or milliseconds, hours or minutes, per horizon or
  per year; which filter, which exit, which cost comes first.
- **The scripts.** Look-ahead, off-by-one bars, trades left open at the end of the
  data, copies of code that drift apart, kills in the middle of a write, outages
  and pages that look like the end.

`hazards` in `PROJECT.json` lists each one at its line, with the properties that
watch it or the reason why none does.

## 2. The modules

| Module | Models | Uses |
|---|---|---|
| `SignalEngine` | `signals/` as operators | - |
| `MonitorApp` | the pipeline, await by await | EXTENDS `SignalEngine`, INSTANCE `AlertPolicy` |
| `AlertPolicy` | what the channel is promised about alerts: the abstract machine `MonitorApp` implements | - |
| `MonitorLoop` | run, heartbeat, cleanup, wait, shutdown, restart | - |
| `RateLimiterParams`, `RateLimiter` | the deques under `allow`, `remaining`, `reset` | - |
| `TelegramNotifier` | `send_alert` with its retries | INSTANCE `RateLimiter` |
| `MessageSplit` | `_split_message` | - |
| `AlertDelivery` | pipeline and limiter together | EXTENDS `MCMonitorApp`, INSTANCE `RateLimiter` |
| `Normalizer`, `ExchangePayloads` | the parsers and normalizers; payloads being read | |
| `ExchangeClient` | both clients under several tasks | EXTENDS `Normalizer`, INSTANCE `OnceCell` |
| `OnceCell` | what a lazily loaded value promises: the abstract machine both loads implement | - |
| `Calculators` | costs, funding, basis, net yield, the settings the schema accepts | - |
| `UniverseSelector` | `select_universe` | - |
| `Persistence` | the database, statement by statement | - |
| `PinBarLevels` | `GerchikLevelDetector` and the copies of it | - |
| `PinBarCommon` | triggers, approach, the window of a bar, the parameters of an instance | - |
| `Backtest` | the walk over the bars and the report, for any signals | - |
| `PinBarV1`, `PinBarV2V3`, `PinBarV4`, `PinBarV5`, `PinBarV6V7` | the filters and signals of each version | EXTEND `PinBarCommon`, INSTANCE `PinBarLevels`, `Backtest` |
| `PinBarChart`, `PinBarChartV3`, `V4`, `V5`, `V6V7` | the drawing scripts (V3 is `visualize_trade.py`) | EXTEND `PinBarCommon` |
| `Momentum` | both momentum backtests | - |
| `PairSelection` | `select_pairs_momentum.py` | - |
| `PaperTrade` | both paper trading scripts, one after the other over the same data | - |
| `Collectors` | the three collectors and the reduction of the research snapshot | - |
| `Scripts` | the scripts that are not about pin bars, as parts of one specification | INSTANCE the four modules above |
| `MCMonitorApp`, `MCTelegram`, `MCMarketData`, `MCResearch` | the small instances; `MCResearch` puts the pin-bar modules and `Scripts` together | |
| `MonitorApp_proofs`, `MonitorLoop_proofs`, `Telegram_proofs`, `MarketData_proofs` | theorems about the module, or the `MC` module's parts, they are named for | EXTEND it |
| `Simulations_proofs` | the walk over the bars for any signals | EXTENDS `Backtest` |
| `Scripts_proofs` | the inductive invariants of `Scripts` | EXTENDS it |
| `Research_proofs` | the theorems about the research scripts, for every version | EXTENDS `MCResearch`, `Scripts_proofs`, INSTANCE `Simulations_proofs` |
| `Extrema` | lemmas about the least and the greatest of a set of numbers, and about loops | - |

An operator whose comment says "Mutant" is a wrong variant of the definition
below it. It is in no behaviour of the specification. `mutants` in
`PROJECT.json` says which property fails when the variant takes the place of the
original; every property of every passing run has one.

Three of the `MC` modules put parts side by side that share no state. A variable
`part`, chosen in the initial state, says which of them a behaviour is about; the
others stand still. Their properties are those of the parts, with the part as
premise.

### SignalEngine

`EvaluateSignal` is `evaluate_signal`, with one reason per check (`Unmet`).
`CooldownRemaining` is `calc_cooldown_remaining_sec`, with its rounding up to
seconds and the future timestamp that counts as a full cooldown.
`UpdateAlertState` is `update_alert_state`. Decimals are integers: the engine
only adds, subtracts and compares them. `MsPerSec` and `MsPerMin` scale time so
that small instances round. The confirmation counter stops at `ConfirmationCap`,
which is at least the number needed, so no comparison can tell. Fields that are
written for the audit trail and never read are left out (`last_net_annual`,
`last_reasons`, `updated_at_ms`, `passed_checks`, the summary of the metrics).

### MonitorApp

`pc` is the await the task stands at, `idx` the instrument, `work` the local
variables of `_process_symbol`. An action is the code between two awaits:

| Action | Code in `app.py` |
|---|---|
| `StartCycle` | `run` 206, `_process_cycle` |
| `FetchMarket`, `FetchFunding` | 299-364, with their `except` |
| `CheckQuality` | 366-434: report, save, choice of path |
| `SaveMetrics` | 436-508 |
| `Evaluate` | 510-557: clock, stored state, decision, its save |
| `SendAlert` | `_send_signal_alert`, and what 561-589 make of the result |
| `RecordAlert` | `_save_notification_alert` |
| `UpdateState` | 591-599 |
| `HandleBadData` | `_handle_bad_data` |
| `SkipWarning`, `SendWarning`, `RecordWarning` | `_maybe_send_quality_warning` |
| `Tick`, `Restart` | time passes; the process dies at any await and starts afresh |

`Faults` switches on what may go wrong: a fetch that raises ("fetch"), a defect
found by the quality check ("defect"), a save that raises ("database"), a send
that fails ("telegram"), a send the limiter or the configuration suppresses
("limiter"), a crash ("crash"). An exception takes `NextInstrument`, as the
`except` of `_process_cycle` does. Four history variables hold what the outside
world saw: `notified`, `streak`, `alerts` and `warned`. `warned` has the quality
check of the last warning of a symbol that was delivered or suppressed, and has
none only after a restart or after a warning that was delivered and whose row
could not be saved: there the code forgets it (`app.py:791-802`), and the warning
goes out again. `WarningSpacing` is about `warned`, not about the program's own
`last_warning`, which `WarningMemory` updates.

Left out: `_previous_market_snapshots` (it feeds a warning of the external
quality check), `_alerts_sent_count` and `_last_error_message` (printed by the
heartbeat).

`AlertPolicy` knows symbols, the last alert that is remembered and whether the
episode is dealt with; its only alert action demands that the cooldown is over
and the episode not yet dealt with. `Forget` is the restart, and the database
that fails between the delivered message and the state update. An alert the
limiter suppressed counts as dealt with, because that is what the code does with
it ("Move to cooldown-like state", `app.py:582`); what follows from that is the
subject of `AlertDelivery`.

### MonitorLoop

A cycle is one await that ends. `clock` is the wall clock, which may be set back
by up to `MaxSlack` and corrected again; `real` is the clock of the event loop,
which times the wait. `CleanupEnds` has both outcomes, success and exception;
`Close` may raise and then the rest stays open. `RequestShutdown` is possible at
every await (`Awaits`), `Restart` at any point.

### RateLimiter, TelegramNotifier, MessageSplit, AlertDelivery

`RateLimiter` takes the stamps as its callers give them: a clock that may be up
to `MaxSlack` behind real time, because the caller read it some awaits ago or
because it was stepped. `granted` is the history of real times.

`TelegramNotifier` has one call at a time, as the single task does. An attempt is
acknowledged or fails; a `Failure` says whether the message arrived all the same,
whether `_telegram_should_retry` wants another attempt, and whether the text of
the exception is empty. The pause between attempts is time passing.

`MessageSplit` has one step per pass of the `while` loop over all texts of two
kinds of characters, line break and other. `starts` is history: where in the
text each chunk was taken from.

In `AlertDelivery`, `Send` performs `SendAlert` and `RateLimiter`'s `Grant` or
`Refuse` in one step: the limiter decides whether the alert is suppressed,
instead of the environment. `outcome` remembers whether the alert of the current
episode failed or was delivered.

### Normalizer, ExchangePayloads, ExchangeClient, OnceCell

A payload of ccxt is a function from keys to values, and so is the `info` that
comes with it. A value is a number, text that is no number (`Junk`) or `None`;
times and intervals carry the unit they are written in. `GetValue` is
`_get_value`: the first key that is present wins, whether or not it can be
parsed. `ParseTimestamp` has the guess between seconds and milliseconds.
`ExchangePayloads` lets the three normalizers read payloads of every form.

In `ExchangeClient` a task's `call` stands at an await: at a lock, at the load of
the spot or the futures markets, at the request, at the order book, at the load of
the funding intervals. A lock is the queue of its holder and those who wait, in
the order they asked, as `asyncio.Lock` serves them. `venue` chooses the class:
Bybit asks for the order book only when a side is missing and has no endpoint for
the intervals. `Retry` is `retry_async`; a load of the markets that fails leaves
them unloaded for the next in line, a load of the intervals that fails leaves the
cache empty for good. `sides` and `settled` are history. `close` only closes
sessions.

`OnceCell` says what a lazily loaded value promises: tasks ask in a line, the
first tries, and once the value is there it never changes. Both loads are shown
to implement it (`LoadOnce`).

### Calculators, UniverseSelector, Persistence

`Calculators` works in exact fractions, pairs of a numerator and a positive
denominator. `Metrics` is what `_process_symbol` computes of a position with the
settings `config/schema.py` accepts (`ValidSettings`) and the hours
`bootstrap.py` derives from them.

`UniverseSelector` is `select_universe`: filters in order, scores relative to the
best, the best N, the anchors on top. `universe/service.py` imports names that
`selector.py` does not define, so it cannot be imported; only the
statements its repository would run appear in `Persistence`.

In `Persistence` a repository method is the `script` of its statements, each a
transaction. `view` is what the connection sees, `db` what is committed. A
statement may fail, or its commit: then it stays in `view` and goes out with the
next commit, though its caller was told that it failed. `Crash` rolls back to
`db`. `matches` says whether the tables of the universe have the columns the
repository writes: those `database.py` creates do not, and then every insert
there is refused.

### The research scripts

- `PinBarLevels` is the detector: pivots, clusters, the score of a zone. Prices
  are whole, scores and percentages in hundredths. `TouchedOnly` is the one
  difference between the copies that matters to it.
- `Backtest` is `simulate_symbol` for any operator `SignalAt`: `Load` the
  candles, then one `Bar` after the other, which enters, holds or leaves;
  `Report` is what `main` prints. Each version INSTANCEs it with its own signals
  and parameters. Symbols are simulated one after the other and share nothing, so
  one series stands for all.
- A chart module has the trades its script finds with its own copy of the code
  (`shown`; v6 and v7 take those of the backtest they are next to), the ones it
  selects and the `Picture` around each with its marks.
- `Momentum` keeps, of a run's equity, what decides it: the position over every
  bar, the fees paid, what a stop kept. `HasStop` tells v2 from v1, and `book`
  remembers what the database held, for what is said of coins without gaps.
- `PairSelection` has one step per stage of a run and of the atomic write: the
  temporary file is opened (`Half`), written (`Whole`) and put in the place of the
  whitelist; a run may fail or be killed at each, and closing the session may
  raise too, which the code logs. `latest` is history: the selection of the last
  run that replaced the list. The pairs that are left are a set: the order
  of the list is that of the scores. A kill is one of the process: a loss of power
  may lose what `os.replace` did, for the file is not synced.
- `PaperTrade` takes one settlement a step, and runs twice, with and without
  `costs`, on the same input. The signals still to simulate are a set of hours,
  of which the lowest is next.
- `Collectors` has the three programs and their tables. A poll may fail for any
  time, a page may fail, a run may be killed. A row of the funding table keeps the
  ticker it came in (the column `payload`) beside what `store_rows` read from it:
  what is missing is read as 0 (`OrZero`). `polls` and `pages` are history: when a
  symbol was polled, and the loops over the pages of a symbol, from the hour its
  run began in to where it ended.

## 3. What is checked

| Run | Question | Result |
|---|---|---|
| `alerts` | every reading and fault of one instrument, one crash | `TypeOK`, `AlertSpacing`, `StoreConsistent`, `FreshDecision`, `WarningSpacing` hold, and `ImplementsPolicy`: the pipeline implements `AlertPolicy` |
| `episodes` | the same with a database that works | `ConfirmedAlert`, `OneAlertPerEpisode` |
| `fair` | two instruments, every fault, fairness | `EveryInstrumentPolled`, `FailedAlertRetried` |
| `telegram` | calls of the notifier; the limiter under late stamps; the cutting of texts | `InOrder`, `SentIsDelivered` (for failures with a text), `CallEnds`; `WindowLimit`, `RefusalHasCause`; `SplitSound`, `Progress` |
| `loop` | stepped clock, shutdown and restart anywhere | `CyclePace`, `HeartbeatSpacing`, `ShutdownCompletes` |
| `market_data` | from the exchange to the database | see below |
| `research` | the scripts | see below |
| `silent` | no fault at all | `AlertedWhenActive` is violated |
| `twice` | a database that may fail | `OneAlertPerEpisode` is violated |
| `notreset` | every fault but a crash | `InvalidDataResets` is violated |
| `unspoken` | a timeout whose exception has no text | `SentIsDelivered` is violated |
| `delivery` | the pipeline with its limiter | `FailedAlertDelivered` is violated |

`market_data` has five parts:

| Part | Property | What it says |
|---|---|---|
| client | `RequestsHaveMarkets` | no request before both markets are loaded, whoever loads and whatever fails |
| | `LoadOnce` | both loads are `OnceCell`s |
| | `IntervalSettled` | a symbol whose responses are silent has one interval for the life of the process |
| | `CallEnds` | every call ends, also of those who wait for a load that fails |
| payloads | `ReadAsGiven` | a time that is read is the instant that was given, in whatever form; a rate comes from the field its source names |
| yield | `YieldSound` | the amortisation lies between its minimum and the holding; a year is no rosier than the horizon; the helper functions agree with the metrics; every cost counts |
| universe | `SelectionSound` | every anchor that is a candidate is in; no more than N others; nobody better in everything is left out |
| storage | `SavedIsDurable` | a row whose save returned is on disk until a DELETE takes it |
| | `PoolOfOneRefresh` | the stored pool never mixes two refreshes |
| | `RecentAlertFound` | a saved alert is found as long as its window lasts |

`research` has a part for each script:

| Property | What it says |
|---|---|
| `TradesSound` | all seven backtests: one position at a time, none too long, each ended the first time it can and at its worst |
| `ReportMatchesExits` | a profit pays for its fees and a stop loses; wins and losses of `main` lie between the bounds the exits give, an open trade aside |
| `LevelsSound` | no version but v2 decides on candles that come later; clusters are chains of neighbours; no touch is missed |
| `PicturesAreTrue` | the charts find the trades of the backtest, mark them inside the picture, and draw the level they were entered at |
| `MomentumSound` | complete curves, fees for every side, no return earned by the bar that decided it, bounded losses, coins aligned when none has a gap |
| `PaperTradesSound` | one position at a time, settlements counted once, none given up but for a row of low ones |
| `FeesAreTheDifference` | the two scripts differ by the fees, as long as no position was given up for low funding |
| `PairsSound` | no two correlated, the most trending kept, none without the history its trend needs |
| `WhitelistWhole` | the file is absent before a run replaced it, then the whole selection of the last run that did; a run that ends by itself has tried to close its session |
| `CollectedIsTrue` | `CandlesAsPolled`: of an hour there is a candle exactly if a poll saw it, final exactly if one did in the two hours after it; `LastRatePerSettlement`: one rate for every settlement stored, that of the ticker stored last; `HistoryAsLoaded`: an hour is stored exactly if the pages of some run went through it, once, unfinished only if a run began in it |

Each property is stated in words above its definition, with the limits the code
has: some of what a reader may expect does not hold, and the property says under
which condition it does. Those limits are:

- The comparison of the two paper trading scripts ("zero_fee_pnl - real_pnl =
  вклад комиссий", `src/paper_trade_zero_fee.py:12`) is exact only when no real
  trade was ended by `funding_decayed`; otherwise the runs hold other positions.
- v2 takes its levels from all of the data and so knows the future; it is left out
  of `LevelsCausal`.
- The coins of momentum v2 line up only when none of them misses an hour.
- An open trade at the end of the data counts among the losses of the report.
- A quality warning that was delivered is forgotten when its row cannot be saved,
  and at a restart; the next one follows at once.
- A whitelist may be the one of an earlier run, when the later ones fail; closing
  the session may fail.
- A candle that a backfill stored while it formed is never corrected (INSERT OR
  IGNORE), by no later run either. A loop that was cut short, by a kill or by a
  page that failed, leaves the hours before its end out, and a later run
  fills them only as far as its own target and pages go.
- An outage of `klines_collector` of two hours or more leaves candles unfinished or
  out.
- A funding ticker without a settlement time is stored under time 0, one without
  a rate with the rate 0, like a real one.
- A pool may be empty or short after a failure; it is never mixed.

The five violations are disagreements between the code and its own comments or
tests:

- `silent`. COOLDOWN counts as active, and an alert goes out only on the step
  from inactive to SIGNAL_ACTIVE. An episode confirmed while the cooldown of the
  one before still runs goes to COOLDOWN, then to SIGNAL_ACTIVE, with no alert,
  although `signals/engine.py:69` says "alert once when signal becomes active".
- `twice`. When the alert row cannot be saved after the message went out, the
  exception skips the state update and the next cycle alerts again.
- `notreset`. `_handle_bad_data` saves the decision before it resets the state;
  when the save raises, the state is not reset, although its docstring says so.
- `unspoken`. `send_alert` takes an empty error text for no error and reports
  SENT (`notifications/telegram.py:301`); a test claims FAILED.
- `delivery`. The limiter is charged before the send. Failed sends use up the
  window; the next attempt is suppressed, the symbol goes to COOLDOWN, and from
  there to SIGNAL_ACTIVE with no alert, although `app.py:574` promises a retry.
  With the default settings (a cycle of ten seconds, twenty messages an hour) an
  outage of a few minutes is enough.

### Bounds, and why they are enough

- `MaxTime`, `StartTime`: the clock runs over a few units. In `alerts` that is
  five, with a cooldown of two seconds of two units, so an alert, its whole
  cooldown, the rounding inside a second and a further alert fit; in `episodes`
  six. `StartTime` is not below the warning cooldown, as the wall clock is far
  beyond 1970.
- In `fair` the clock stands still: no step of the cycle waits for it, and a
  clock that runs out would only cut behaviours short. Failed alerts start no
  cooldown, so retrying does not need time to pass.
- One instrument is enough for the safety of alerts, as instruments share
  nothing but the task; `fair` has two, because polling and exceptions are where
  they meet. The theorems hold for any list.
- `MinConfirmations` 2 with `ConfirmationCap` 3: one evaluation does not
  confirm, and the counter goes beyond the threshold. Readings: good, in the
  hysteresis band, poor, so both thresholds decide. `SuppressBeforeMin` and
  `SuppressAfterMin` are 0 in these runs: the funding windows only add reasons
  not to alert, and the theorems have them for every value.
- `MaxRestarts` 1: a restart resets everything but the clock, so a second adds
  nothing new to what the first shows.
- `telegram`: three chunks and three attempts (a first, a middle, a last); two
  messages in a window of four units, five units of time for it to fill, slide and
  let the next through, with stamps one unit late; texts of ten characters with a limit of four: cuts
  in the middle of a line, at breaks in either half of the window, runs of
  breaks, up to three cuts.
- `loop`: an interval of three, heartbeats of four, cleanups of five, six units of
  time, one unit of slack: cycles shorter and longer than the interval, at least
  two cycles, a second heartbeat and a second cleanup.
- `market_data`: two tasks meet at a lock in every way one can wait for the other,
  and two attempts fail once and for good; three symbols, one the markets know
  with an interval, one without, one they do not know. Calls are not bounded.
  Numbers on both sides of the limit between seconds and milliseconds. Holding,
  amortisation and minimum in every order. Three candidates, N of one and two, an
  anchor that the filters throw out and one that is no candidate. Three calls of
  the database: a save, one that fails, and one whose commit carries it along or
  deletes it.
- `research`: two histories that have levels, followed by five bars that may
  trigger, hold, take, stop or run out in every order; windows, holdings and
  cooldowns are shortened, the ratios are those of the code. Coins with early,
  late and missing hours. Settlements that come and lack. Three pairs with every
  relation among them, two runs. Outages longer than what a poll fetches, tickers
  without a settlement and without a rate. `HISTORY` 2 and `PAGE` 2: a target inside
  a page and behind one, a coin listed later than the target; `MAX_LOOPS` 3: three
  runs that are killed, or one that ends and one that is killed, in six hours, so
  that gaps between runs stay open and rows of two runs stay unfinished.
- `CHECK_DEADLOCK FALSE` stands in the runs `market_data` and `research`: scripts
  end, and payloads, positions and pools are read once.

### Fairness, and why the code justifies it

- `MonitorApp`: weak fairness of `StartCycle` and of `ProcessSymbol`: asyncio
  resumes the task when what it awaits is done, and every await ends (HTTP
  requests and SQLite have timeouts). Strong fairness of a send that is
  delivered (`Delivers`): Telegram does not refuse every message for ever.
  `FailedAlertRetried` also assumes, in its own premise, that saves do not fail
  for ever. Nothing is assumed of fetches, the quality check, the limiter or
  crashes (these end after `MaxRestarts`).
- `TelegramNotifier`: weak fairness of `Post`: httpx has a timeout.
- `ExchangeClient`: weak fairness of `Step` for every task: ccxt has a timeout,
  so every attempt ends, and `asyncio.Lock` wakes those who wait in turn.
- `MonitorLoop`: weak fairness of `Run`, for the same reasons; the wait has a
  timeout or a stop that ends it. Time need not pass for `ShutdownCompletes`.
- The other modules state none: their properties are of states and steps.

## 4. What is proved

TLAPS proves, for every value of the constants that the named assumptions
allow:

| Module | Theorems |
|---|---|
| `MonitorApp_proofs` | lemmas on `SignalEngine` (what the cooldown returns and when it is zero, what a decision and an update look like); `TypeCorrect`, `SpacingHolds`, `StoreIsConsistent`, `DecisionIsFresh`, `WarningsAreSpaced`, `Refinement` (the pipeline implements `AlertPolicy`, any instruments, any faults); `AlertsAreConfirmed` and `EpisodesAlertOnce` for a database that does not fail |
| `MonitorLoop_proofs` | `TypeCorrect`, `WaitIsForTick`, `PaceHolds`, `HeartbeatsAreSpaced` |
| `Telegram_proofs` | of the parts of `MCTelegram`: `TypeCorrect`; the limiter: `LimitHolds`, `RefusalForCause`; the notifier: `ChunksInOrder`, and `SentMeansDelivered` when every failure has a text; the splitting: `TextArrivesWhole`, `SplittingProgresses`, for every text and limit |
| `MarketData_proofs` | of the client: `TypeCorrect`, `LoadsExclude`, `MarketsFirst`, `OneInterval`, `LoadedOnce` (both loads implement `OnceCell`, any number of tasks); of the other parts of `MCMarketData`: `SavesAreDurable`, `PoolIsOfOneRefresh`, `RecentAlertsFound` (any alerts, candidates, retention, number of calls); `YieldsAreSound` (any position with accepted settings); `PayloadsAreReadAsGiven` (any instants and rates); `SelectionsAreSound` (any candidates, filters, weights) |
| `Simulations_proofs` | `SoundForAllSignals`: `TradesSound` and `ReportMatchesExits` for any candles, parameters and signals |
| `Research_proofs` | of the parts of `MCResearch`: `TradesAreSound`, `ReportsMatchExits` (all seven versions), `LevelsAreSound` (any candles and windows), `PicturesAreTrueOfTrades` (any candles, windows and widths of a picture), `MomentumIsSound` (any prices, hours and gaps), `PaperTradingIsSound` and `FeesAreWhatTheyCost` (any signals, settlements, metrics and costs), `SelectionIsSound`, `WhitelistStaysWhole` (any statistics, failures and kills), `CollectedStaysTrue` (any outages, failures, kills and tickers) |

The assumptions are the ones the constructors of the code enforce
(`EngineParams`, `LimiterParams`, `NotifierParams`, `LoopParams`,
`ClientParams`), the relation between the two age limits that the schema enforces
(`AgeLimits`), and bounds of the model. `Simulations_proofs` assumes of a version
(`Params`) that its parameters are numbers, that a position may be held for at
least a bar, and that a signal has a price. `MCMarketData` names what its parts assume:
`StorageParams` (the candidates come as a sequence of names, the retention is a
number), `YieldParams` (settings and quotes are amounts in a smallest unit),
`PayloadParams` (instants whose seconds and milliseconds are on their sides of the
limit, which is so from April 1970 on), `SelectorParams` (a symbol is a candidate
once; the limits and weights `UniverseSettings` and `UniverseScoreWeights`
accept). `SplitParams` of `MCTelegram` asks for a positive limit of a chunk. Of
the scripts, `PinBarParams` says that times and bars are counted, the bars around a
drawn trade too, and that prices are positive, `SelectionParams` that a pair is listed once and has its statistics,
that "none" is no selection of pairs, `CollectorParams` that a list of tickers has
one for a symbol and that history and pages are counted in hours, `PaperParams` that
the snapshots of a symbol are finitely many, that rates, times and the one-time
cost are whole numbers and that "none" is neither data, a position nor a list of
trades, and
`MomentumParams` that a coin has a time and a close for every bar.

The arguments:

- **Pipeline** (`IInv`). `AlertSpacing` is not inductive: it speaks of the last
  alert of the outside world, and the code compares with the store. `Remembered`
  ties the two together: an alert that is remembered is in the store, or the
  update that will put it there is still to come. `AlertIsDue` carries the
  engine's finding across the awaits to the send, `BaseIsStored` says that
  nothing has touched the state since it was read, `DecisionConsistent` and
  `RecordedIsSent` say what the update will write. `DealtIsActive` is what the
  refinement needs: an episode dealt with and remembered is active in the store.
  `WarningKnown` ties the last warning delivered to `last_warning`: they differ
  only from the delivery to the assignment after the row's save, which is where
  `WarningMemory` says that a failing save forgets the warning.
- **Episodes** (`DInv`). Under a working database, `StreakBehind` says that
  stored confirmations are backed by as many good evaluations in a row, and
  `AlertsKnown` that no alert is forgotten while its episode lasts.
- **Limiter** (`LimiterInv`, `Aligned`). The deque is the tail of the history of
  grants, stamp by stamp no later than real time and no more than the slack
  behind it, and what the deque has dropped is older than the window.
- **Notifier** (`CallInv`). While a chunk is being posted everything before it has
  arrived, nothing after it, and there were no more arrivals than attempts.
- **Splitting** (`SplitInv`). What remains is the text from one place on, the
  chunks are pieces of the text at their `starts`, and between the end of one and
  the start of the next, or of what remains, there are only line breaks. A cut is
  at least one character long because a break in the first half of the window is
  not taken; that the loop strips all the breaks there are comes from the first
  place that is none (`Extrema`).
- **Loop** (`IInv`). `TickReached`: when the loop is about to start a cycle
  again, the tick of the last one has been reached but for the slack.
  `BeatRead` does the same for heartbeats.
- **Client** (`IInv`). `QueuesOK`: a task is in the line of a lock exactly while
  its call is at that lock or in the load behind it, and in no line twice. With it,
  `LoadsAreExclusive` is inductive: only the first in line loads. `MarketsOK`
  says how far the load of the markets is for every call, `IntervalsOK` which
  interval a silent symbol has, and that it has none before the cache is there.
- **Database** (`StorageInv`, `SentIsPast`). `SavedIsDurable` alone is not
  inductive: a later commit writes all of `view`. `SavedIsSeen` adds that a saved
  row is in `view` too, so no commit undoes it. `PoolOK` speaks of the running
  script: every row it will insert into the pool is of now, and once it has
  emptied the pool and is filling it, the rows there, in `db` and in `view`, are
  of now as well. `SentIsPast` says that no alert was sent later than now, in the
  tables or in the script, so the last one sent exists (`Greatest`) and is no
  older than any that was saved.
- **Yield**. All fractions are brought to the same two denominators: the metrics of
  a position are a rate over an interval and a convergence, less the costs
  (`YieldsLess`). The annual yield and that of the horizon, annualized, then differ
  by the one-time costs times what the amortization falls short of the holding;
  one more of any cost changes the numerator alone.
- **Payloads**. Of each record one key at most is among those a value is looked
  up under, so the first given is known; a number of seconds stays below the limit
  and a number of milliseconds does not.
- **Universe**. The score with the index to break ties is a strict order of the
  eligible, so ranks are distinct: at most N are among the best, by an injection
  into 1..N. More of both rate and volume scores higher, whatever the weights,
  because not both weights are zero and the largest rate and volume are positive.
- **Backtest** (`IInv(Signals)`). Every trade has been `Followed` up to the bar
  that is next: it has neither been stopped nor taken before its end, its reason
  is that of the bar it ended at, and it was not held too long; and every trade
  but the last has ended before the next began. `Priced` adds where its stop and
  its take lie, so that a profit pays for its fees because `MIN_STOP_PCT` times
  `RISK_REWARD` does. `Entered` keeps which signal a trade was entered on, and that
  its prices are those of that bar. The signals only matter in that they have a
  price.
  `PinInv` is this invariant for each version, under its parameters.
- **Levels** (`LevelsInv`). What is to be shown is about operators: the signals of
  every version depend on its bars up to the present one alone (`CausalV1`, ...:
  each operator from the average true range to the filters is shown to agree on
  series that agree so far); the prices of the pivots are sorted, so the groups
  `cluster_pivots` cuts them into are chains that stand apart. The invariant only
  says that the series was read, and that v1 starts where its window is full.
- **Charts** (`ChartsAgree`). A chart walks over the same bars with a copy of the
  detector, of the signals and of the simulation. The copies are shown equal
  operator by operator (`LevelsV3`, `SignalsOfChartV3`, ...), and a bar makes the
  same `TradesNext` of the same trades, so `ChartsAgree` is inductive beside
  `PinInv`. What is drawn follows from `PinInv` alone: the marks from where a trade
  lies in the series, the level because the window was full when there was a
  signal, and an open trade's reason because the candle of its entry, a pin bar,
  touches neither its stop nor its take (`PinIsClear`: this needs the shape of a
  pin bar, and would fail for a trade entered on any candle).
- **Momentum** (`MomentumInv`, `RunInv`, `LossInv`). What a run holds over a bar is
  what was decided before it, a fee was paid for every side of a turn, and the
  position that is open was within its stop at the bar before.
  `AlignedWithoutGaps` was first stated of the coins that are left after the
  alignment; the induction failed, because a coin whose gap the alignment cut away
  still shifts the others. It is now about a database without gaps.
- **Paper trading** (`PaperInv`, `PositionInv`, `TradeInv`). The income of a position
  is the sum of the rates since its entry (`SumIs`: a sum hour by hour), `streak`
  counts the row of low settlements that ends at the last one, and no such row was
  long enough before.
- **Fees** (`FeesInv`, `RealInv`). Both runs go through the same signals, in the order
  of time. Of each run it is known that a trade was entered at the first signal
  left over by the one before (`Chained`), that it was held only over settlements
  at which it was allowed to stay (`MayHold`) and left at one at which it had to
  (`MustLeave`), and what it earned and paid (`Accounted`); `RealInv` keeps all of it
  of the first run while the second goes on. The run without costs has no
  decay: a rate that counts as low there is negative, and ends the position
  before a row of them is looked at. If the first has none either,
  both rules of leaving speak of the same settlements, so the first trades
  agree, then the second ones, and so on (`SameTrade`).
- **Pairs** (`PairInv`, `FilesInv`). What is known at each stage of a run: of the
  pairs that are left, and of the temporary file, which has all of them before it
  takes the place of the whitelist.
- **Collectors** (`KlineInv`, `FundingInv`, `FillInv`). No poll and no row is of an
  hour to come, so an hour that begins has neither (`CandlesAsPolled` is kept by
  it). Rows are appended by time and say what their tickers said (`AsAnnounced`),
  so the last row of a settlement has its last rate. `RowsInv` states
  `HistoryAsLoaded` for every hour and every symbol: a page adds exactly the hours
  between its end and the next one, and only a page that ends in the hour the
  run began in can have an unfinished candle.

### What is only model-checked

- Liveness (`EveryInstrumentPolled`, `FailedAlertRetried`, `CallEnds`,
  `ShutdownCompletes`): fairness and ENABLED are out of the prover's reach.
- The findings: a violation is shown by a behaviour, not proved.

## 5. What is not modelled

- The formatter and the logger: wording, layout, rotation.
- `monitor.data`: external; any reading, an exception, or a defect.
- `universe/service.py`: cannot be imported (see above).
- Configuration: read once; its bounds appear as assumptions and in
  `ValidSettings`.
- `src/analyze_data.py`, `src/analyze_basis.py`: reports over tables.
- Statistics on finished data: Sharpe ratio and drawdown of the momentum
  backtests, the correlation, Hurst exponent and volatility of a pair.
- Colours, labels and texts of the charts; copies of tables in
  `make_research_snapshot.py`.
- Deployment, but for the restart of the unit file.
- One hazard has no property: the hysteresis, an annual percentage, is also
  subtracted from the threshold of the horizon (`signals/engine.py:338`); no
  document says which unit is meant.

## 6. Plan

Done: the service's core (`SignalEngine`, `MonitorApp` with `AlertPolicy`,
`RateLimiter`, `TelegramNotifier`, `MessageSplit`, `MonitorLoop`,
`AlertDelivery`), then the way of the data (`Normalizer`, `ExchangeClient`,
`Calculators`, `UniverseSelector`, `Persistence`), then the scripts, and the
proofs of section 4.

What would come next: a run of its own for the funding windows; the service of the
universe once its imports resolve.
