# pypoc: a verification of the trading agent

pypoc is an intraday trading agent for Indian equities. One Python process
listens to a market-data feed, turns ticks into candles, candles into signals,
signals into sized orders, and sends those that pass its guardrails to a broker:
an in-memory paper broker, or a live one behind a gate that a walk-forward
validation opens. Other processes (HTTP API, MCP server, command line, dashboards)
read what the agent writes and talk to it through a file of commands.

The modules here model the way of a tick to an order and of an order to the account,
what runs around it (days, threads, crashes, commands, the limiter in front of NSE),
what decides whether live trading may start (backtest, validation, gate), and what
the other processes tell a user about all of it.

## The system

| Component | State | Operations | Modules | Covered |
|---|---|---|---|---|
| Paper broker, `core/broker/paper.py`, `charges.py` | cash, realized P&L, long and short positions, last prices, trade log | `place_order`, `update_market_prices` with automatic exits, `partial_exit`, `snapshot_state`, `restore_state` | `Account`, `PaperBroker` | wholly |
| Guardrails and sizing, `core/risk/` | none | `Guardrails.check`, `position_size` | `Guardrails` | wholly |
| Command queue, `core/command_queue.py` and its producers | the lines of `data/commands.jsonl`; the limits in force and in the config file | `enqueue`, `read_pending`, `update_status`, the consumer in the orchestrator | `CommandQueue` | `clear_done` is called by tests only |
| Agent process, `core/execution/orchestrator.py`, `cli.py run`, `core/persistence/store.py` | halted flag, baselines of the circuits, trade date; rows of `daily_state` and `broker_state` | `tick_lifecycle`, `_on_tick`, `_handle_signal`, restore, square-off, circuits | `Orchestrator` | but for warnings and the snapshot file |
| Market data feeds, `core/data/*_feed.py` | login, sockets, subscription, attempts, polling | connect, subscribe, frames, loss, reconnection, polling, disconnect | `LiveFeed`, `MarketData` | wholly, a frame being a symbol, a price and a volume |
| Candle aggregator, `core/data/aggregator.py` | one open bucket per symbol and interval, bounded history | ingest a tick, emit a candle | `CandleAggregator` | wholly |
| NSE limiter and breaker, `core/data/nse_rate_limiter.py` | last call, failures, lockout | acquire, report success or refusal | `Pacer`, `NseLimiter` | the retry decorator is reached by no exception |
| NSE context data, `core/data/nse_*.py`, `economic_calendar.py` | caches with their times | the getters of VIX, PCR, FII/DII and IV | `NseLimiter`, `SignalPipeline` | but for the parsing of the answers |
| Strategies and regime, `core/strategies/`, `core/regime/` | none beyond the bars | 15 strategies, indicators, classifier, index filter | `Indicators`, `Strategies`, `SignalPipeline` | ADX is an input |
| Decision traces, `core/analytics/decision_trace.py` | none | the checklist of a stored signal | `DecisionTrace` | but for the texts |
| Backtest engine, `backtest/engine.py` | simulated account, trails, ages, pending signals | a day: exits, signals, fills, marks | `Backtest` | the price histories are inputs |
| Walk-forward gate, `backtest/walk_forward.py`, `gate.py`, `metrics.py` | windows, results, the verdict file | plan, run on a pool, stitch, measure, judge, save | `Metrics`, `Gate`, `WalkForward` | a window's backtest is an input |
| Analytics and reviews, `core/analytics/` | none | tables and reports of closed trades | `Analytics` | but for ratios that need roots |
| Live broker, `core/broker/angelone_live.py`, and the agent in live mode | session, order book and balance at the exchange | connect, balance, positions, orders | `LiveAgent` | `cancel_order` and `disconnect` have no caller |
| Simulator, `api/main.py` | a shared replay or synthetic loop, its account, log and counters | start, stop, replay, status | `Simulator` | wholly, in ticks where the log rounds rupees |
| HTTP API and MCP server | none of their own | queue commands, lists, reports, preflight, status | `CommandQueue`, `Reports`, `Preflight` | not log-in, websockets, language models |
| Start and diagnostics, `cli.py` | none | `run` up to its loop, `preflight`, `check-gate`, `check-config`, `status`, `health-check`, `test-live-broker` | `Preflight` | not the benchmarks |
| Configuration, `core/config.py` | environment, `.env`, `default.yaml` | load, overlay, reload | `Preflight`, `CommandQueue` | the fields are constants |
| Dashboards, `dashboard/` | none | what controls queue and write | `CommandQueue` | the rest is user interface |
| Historical data, notifications and logs, replays and reviews, scripts | files | downloads, messages, texts | none | see the end |

How they interact. The **main thread** runs `tick_lifecycle` once a second: it
executes pending commands, rolls the date over, raises the peak, squares off at
the end of the session and checks the circuits. The **feed thread** calls
`_on_tick`, which feeds the aggregator, marks positions, fires stops and targets
inside the broker, and hands closed candles to the strategies; their signals are
sized, checked and placed on the same thread. Both threads work on one broker
object and one set of baselines without a lock. The broker calls back
`on_state_change` after each fill, and the orchestrator writes its snapshot to
SQLite; a **restart** reads that row and the day's baselines. **Producers** in
other processes append to the command file while the agent rewrites it; the
dashboards also rewrite the config file that the agent reloads every minute. The
**validation** runs the production broker, sizing and guardrails over past bars in
worker processes and writes the **gate** file, which `run` reads before it goes
live. The simulator drives the same broker from a coroutine of the API server.

What is hard here, and where a unit test hardly goes:

- the order of broker calls: an addition after a stop moved, a partial exit before
  a target, a tick that crosses stop and target, a restart in between, and money
  conserved through all of it;
- the two threads, at any step of one another; the threads that share the limiter;
  the library's thread of a lost socket beside the one that replaces it; the tasks
  of the API's event loop, at any await;
- restarts: in the same day, on another day, after running across midnight,
  between the square-off and the close; a verdict half written;
- an exchange that has an order whose answer was lost, and positions that cannot
  be fetched;
- a file rewritten by one process while others append to it, limits that several
  authors set, and a crash between a truncation and a writing;
- two floors in the sizing against limits that are checked without a floor;
- numbers that are counted two, three or five times by different code, and checks
  of a start that are written three times.

`PROJECT.json` lists these hazards one by one, at the line where each bites, with
the properties that watch it.

What makes each component correct. Broker: money moves only by fills and exits and
is conserved; a symbol is long or short, never both; no position outlives its
stop; the persisted snapshot is the account. Sizing: a quantity within both limits.
Queue: commands take effect in order, at most once, only if signed, and the file
says the truth about them. Agent: the day is measured against its morning, a
square-off is final, a restart carries the account over, the position limit holds
whatever the threads do, and a loss that lasts halts it. Feeds and aggregator: one
socket and not two or none, and a candle has every tick of its bucket once. Limiter:
the gap is kept, refusals are bounded, nobody waits for ever. Strategies: what they
hand on can be traded. Backtest: no better than the bars allow. Gate: live trading
starts only behind a recent passed validation. Live agent: an order whose answer is
lost is not sent again. Simulator: its log has its broker's positions and trades.
Reports and diagnostics: they agree with one another and with what happens next.

## The modules

Each component is a module named for it. The properties of a component stand at the
end of the component's own module or, where they compare several modules, in a
module `...Props` that EXTENDS it; theorems stand in `...Proofs`, and the small
instance that is model-checked in `MC...`. Components that meet share a module of
proofs: `OrchestratorProofs` is about the paper broker and the agent that owns it,
`InputProofs` about market data, the limiter and the queue, `GateProofs` about the
validation, the gate, the start and the live agent, `ReportProofs` about what is
reported of a validation's trades, `SignalProofs` about strategies, sizing and
guardrails; `BacktestProofs` and `SimulatorProofs` are about the two other programs
that drive the broker; `SumTheorems` is what they all need of sums and folds.

- `Account`: what any paper account promises. Money enters positions with a
  charge, leaves them with a P&L, and moves in no other way. `PaperBroker`
  implements it (`IsAnAccount`).
- `PaperBroker`: the broker, one action per call. `Orchestrator` extends it,
  `Backtest` and `Simulator` take it as an instance: one model of the broker in
  the three places the code uses its one class. `Guardrails` is shared likewise,
  and by `LiveAgent` and `SignalPipeline` too.
- `Pacer`: what a rate limiter promises. `NseLimiter` implements it (`IsPaced`).
- `LiveFeed` and `CandleAggregator`, composed by `MarketData`.
- `Gate`: the verdict as live trading sees it, a file that validations replace and
  interrupted writes destroy. `WalkForward` implements it (`GateSpec`): its own
  actions, of which most are stutters of the gate, end in the file `Gate` allows.
  `LiveAgent` extends it: live sessions behind any validation that does so.
- `Metrics`, `Analytics`, `Reports`: the numbers, each over the one before;
  `Preflight`: the start and its diagnostics. They are operators, evaluated over
  the trades and the gates that `WalkForward` reaches.
- `Indicators`, `Strategies`, `SignalPipeline`, `DecisionTrace`: from bars to the
  stored decision.

Operators whose comment starts with "Mutant of" are not part of the model. Each is
a plausible bug in the definition it names; putting it in that definition's place
makes one property fail.

### How state and actions correspond to the code

**PaperBroker.** `book` is the broker's cash, `_realized_pnl`, the length of its
`trade_log` and its two dicts, `longs` and `shorts`. A symbol that is no key of a
dict has quantity 0 there. `saved` is the last snapshot passed to
`on_state_change`. A rejected order is no step, since its entry in `_orders` is
never read for a decision, and `cancel_order` never finds a pending order.
`place_order` is four actions, split by side and by what is open: `BuyLong`,
`BuyToCover`, `SellLong`, `SellShort`. `UpdateMarketPrices` is one tick with the
exits it fires. `Restart` is `restore_state` in a new process.

Money is in whole ticks: slippage and percentage charges round down to a tick
where the code has floats. A position keeps `qty * avg_price`, its cost, instead
of the average, so that averaging does not round; a partial exit splits it in
proportion. Stops and targets of new positions are those that the stop-loss rule
(guardrails.py:110) lets through. `Intents` says which uses of `place_order` the
callers make. Two of them lose money in the code (below), and the run and the
theorem about money are stated without these; all other properties are checked and
proved with them.

**Guardrails.** `Allowed` is `check`: the rules in the code's order, each named for
its method. Percentages are whole and comparisons multiplied out, so only the two
floors of `position_size` round.

**CommandQueue.** A producer's validation is a condition on its requests
(`McpUpdates`, `ApiOrders`, `SimulatorLimits`, `Sliders`, `Suggestions`, ...): what
it turns away never reaches the file. `update_status` is three steps, `UpdateRead`,
`UpdateTruncate`, `UpdateWrite`: another process can append, and the agent die,
between any two. The copy written back covers bytes appended after the truncation.
`read_pending` walks through the lines one at a time (`scan`), keeps those that are
pending and signed, and rejects the unsigned through `update_status`; lines already
read are not affected by that rewriting, as the file is far smaller than the read
buffer. `Execute` runs a command; refusals by guardrails or circuits are a
nondeterministic "rejected". The limits are one number, `risk`, for
`max_open_positions`: commands set it in memory, a dashboard writes it to the file
(`OpenConfig`, `SaveConfig`, two steps as two pages may save at once, so that the
file can be found `Torn` and left `Ruined`), and `Reload` takes it back every minute.
Whatever `load_settings` reads it merges with the overlay of an environment: that of
`--env`, or else of the variable `APP_ENV`, at a start, that of the variable at a
reload. `overlay` is what the two set of the limit for the process that runs, one of
`Environments`, and `Merged` is the merge.

**Orchestrator.** `pc` walks through `tick_lifecycle`: "commands" (any number of
`CommandHalt`, `CommandResume`, `CommandOrder`), then `Baselines` (rollover and
peak), the square-off, the circuits, and a second of sleep after which `RunLoop` goes
on or, once halted, ends the process. `OnTick` and `HandleSignal` are the feed thread
and may happen at every one of these steps. An order takes two steps on either
thread: `CheckOrder` is the guardrails' look at the account, and `PlaceOrder` or
`RejectOrder` the call of the broker after it. In between the thread does nothing
else (`inFlight`), and the other one anything. `Start` is `__init__` with both
restores; `Crash` may come at any step, SIGTERM included. `Squareoff` lists the
positions (`toClose`), `SquareoffExit` closes one of them and saves the account,
`SquareoffEnds` is the rest of the function; in between the feed thread may close a
position of the list, or the process die. What then is listed and not held, and every
short, raises a KeyError in `_auto_exit` that nobody catches (`SquareoffFails`). The
day is a few slots: before the open, the window for entries, the time without new
entries, the square-off, and no order is in flight from the last entry to the
square-off half an hour later. A signal has any stop and target on the right sides of
its entry, the last price of the symbol: candles close before the broker sees the
tick that closed them (orchestrator.py:294). The market context is fresh and calm,
because the rules on it only ever reject. Calls of the broker are atomic, and so are
a change of the account and the row that `on_state_change` writes of it: a crash
between the two, and an error of SQLite that is caught and logged
(orchestrator.py:589, orchestrator.py:627), are left out. With either a restart
brings back the account before the last change. So are errors when the row is read,
after which the agent starts flat (orchestrator.py:602, orchestrator.py:616).

**LiveFeed, CandleAggregator, MarketData.** A socket is a state of the library's
("free", "opening", "open", "lost", "closing") with a thread of its own, on which
`OnOpen`, `OnError`, `OnClose` and the frames come one at a time; the library is
external and modelled as the feeds rely on it: after a loss it either tries again
by itself or closes. `MainThread` is login, connect and subscribe of either feed,
`Reconnection` is `_reconnect_with_backoff` in three steps. A tick is stamped
(`OnData`, `DecodeFrame`, `PollTicks`) and ingested (`OnTick`) in two steps. The
aggregator's buckets are per symbol and interval; `Ingest` is the whole of `ingest`.

**NseLimiter.** A call of a getter is a walk through "enter", the lock with its
sleep, "check", one or two requests, the report to the breaker, and the store, which
is two steps, the value (`Store`) and then its timestamp (`SetTimestamp`): others may
read or store in between. `own` tells that the two in the cache are of one call. Time
is kept as ages, counted up to where the code no longer tells a difference.

**Indicators, Strategies, SignalPipeline, DecisionTrace.** Indicators are operators
over the bars of a symbol, exact fractions where the code has floats, recursive
functions for running averages; a strategy is the conjunction of its conditions
and yields [side, entry, stop, target]. A step of the pipeline closes a candle and
asks every strategy of the regime, or takes the equity up or down, or puts a signal
before sizing and the guardrails in one of several portfolios (`Judge` and
`SignalRow`). Periods are parameters, and keep the order of the code's.

**Backtest.** `pc` walks through a day of `run`: `StartDay`, the exits one position
at a time, signals one (symbol, strategy) at a time with filter, price, size and
fill, then the mark. A trailed stop is `_orig_risk` and `_be_moved`.

**Metrics, Gate, WalkForward, Analytics, Reports.** `WalkForward` plans windows,
gives them to workers that finish in any order, stitches, measures, judges and
writes the verdict in two steps (truncation and content). Ratios are pairs of
integers. `Analytics` and `Reports` are one operator per function of the code, and
count over the trades in the code's way. A page is two queries, COUNT and SELECT:
`Page` is given what the first counted and the rows that the second finds, which may
be more. `Select` is SelectSeq, taken by the places of
what passes, so that a proof can count over those.

**LiveAgent.** `exchange` alone knows what is open. The API is "up", "down", or
"lossy": it takes a request and loses the answer. `HandleSignal` sizes and checks,
`PlaceOrder` sends in a step of its own; `Settle` is the exchange's. `seen`,
`decided` and `blind` are history, for the properties only.

**Simulator.** `task` is where the coroutine is; `Start` and `Stop` come at its
awaits only. A step of a replay is price, automatic exits, time exits, the log's
synchronization, entries one symbol at a time. `log` has what the code's log has of a
trade: entry and exit price and a P&L that it reckons itself, from the prices of the
ticks. `lastTrade` is history: the broker's last trade of each symbol, for
comparison.

**Preflight.** The start and each diagnostic is an operator on a machine: shell and
`.env` variables, directories, clock, snapshot, pid, the reachability of the broker,
the feed that is configured, the data account, its instrument master and its socket.
`Start` goes through the store, the broker's session, the feed's constructor, its
login and socket, and names what it comes to: "running", or what it died of.

## The runs

| Run | Instance | Shows |
|---|---|---|
| `paper_broker` | 2 symbols, 3 prices, quantities 1 and 2, all intents, leverage 4, 3 orders | `TypeOK`, `StopsHonoured`, `DurableBook` |
| `paper_ledger` | the same without covers by order and repeated shorts, no leverage | `NoOverdraft`, `LedgerStep`, `IsAnAccount` |
| `command_queue` | any 2 of 9 requests of 7 producers, one forged, 2 crashes, 2 environments, a reload every second tick | `InOrder`, `Truthful`, `ReadIsSettled` |
| `agent_days` | 1 symbol, 2 days, 2 crashes, those between a square-off's exits included, 2 orders | `MorningBaseline`, `FlatAfterClose`, `SameDayRestart` |
| `agent_threads` | 2 symbols, 1 day, longs and shorts, limit 1, 2 orders | `LimitUnlessRaced`, `CircuitHalts` |
| `nse` | 3 threads, 2 sources, one with two requests; gap, threshold and lockout 2 | `IsPaced`, `RefusalsBounded`, `FreshIsFresh`, `NobodyIsShutOut` |
| `market_data` | both feeds, 2 sockets, 2 attempts, 1 symbol, 2 intervals, 3 ticks | `SocketInOrder`, `CandlesAreBuckets`, `DeliversWhileWanted` |
| `signals` | 5 warm-ups of 10 bars and 2 more of 10 shapes, 4 states of the index; 9 portfolios and markets, equities below zero up to 12000 | `SignalsAreSound`, `TraceNamesTheRule`, `SizedOrdersFit`, `FreshSignals` |
| `backtest` | 2 symbols, 4 days of 5 bars, 2 orders, limit 1, age 1 | `NoLossAfterBreakeven`, `StopsAreKept`, `DayIsSettled`, `BoostNeverTrades` |
| `walk_forward` | 1 or 2 years of 3 months, windows of 2, 2 workers, 6 results of a window; a thousand machines | `CurveWhole`, `ReportsAgree`, `DiagnosticsForetell`, `GateSpec` |
| `live` | 2 symbols, 2 balances, 2 days, 2 orders a day, limit 1 | `ExposureWasDecided`, `LimitUnlessBlind`, `LiveIsGated`, `LossEndsSession` |
| `simulator` | 3 symbols, 2 slots, 3 fills, charges, signals with a target and without, a price that may jump over the stop, a replay of 4 steps with the square-off in the last 2 | `BooksAgree`, `NobodyStays`, `ReplayEnds` |

All of them pass. What the properties say is written above each of them; the larger
ones are conjunctions of named parts that belong together:

- `ReadIsSettled`: what the agent read it settles, and the config file, under the
  overlay of its environment, has the last word on the limits. `Truthful`: what the
  file says of a command is what became of it, and a limit in force has an author.
- `SocketInOrder`: one socket, and an open one is subscribed. `DeliversWhileWanted`:
  a lost feed comes back, and a disconnected one stays silent.
- `SignalsAreSound`: legal stops and targets, no short against a breakout of the
  same close, and what the agent trades but the engine never tried is one strategy.
- `StopsAreKept`: stops only tighten, and a bar that reaches a stop pays it.
- `CurveWhole`: the stitched curve has the return of all windows and hides no
  drawdown. `ReportsAgree`: eight comparisons of numbers that are counted more than
  once. `DiagnosticsForetell`: five of what is said of a start with the start; its
  first part lists all that a green preflight leaves a start to fail of.
- `FreshIsFresh`: a value that counts as fresh was put there within its lifetime, and
  is itself no older if its timestamp is its own.
- `NobodyIsShutOut`: of the lock and of the breaker. `BooksAgree`: the open entries of
  the simulator's log with the broker's positions, its closed ones with the broker's
  trades, as far as they agree (what slippage and charges take is not in the log), and
  the day's P&L in the summary of a replay with what the broker made.

Why these bounds are enough to be of use. Three orders are an entry, an addition
and an exit on one symbol, or an entry on each of two and one more; two quantities
allow partial exits, three prices a stop and a target on different sides of an
entry; cash for a few shares makes buying power the limit in some states. Two
symbols tell a per-symbol rule from a global one, and symmetry over them is sound,
as no formula names one and the runs that use it check no liveness. Two requests
let one be in hand while another is appended or executed, and each pair of
producers meets; two crashes allow a crash in the recovery from a crash. Two days
have one midnight. In `agent_threads` one loss trips the drawdown circuit and two
trip the daily one, so that a resume between them is possible and the circuit has to
halt again. Three threads at the limiter are one that sleeps with the lock, one that
waits for it and one whose request is out. Two sockets are a lost one and its
successor, and a closed one may be used again, so that a third is one of them; three
ticks open, extend and close a bucket. Two more bars than the warm-up show two
closes running, which is what `FreshSignals` compares; the warm-ups and shapes are
chosen so that every strategy fires in some state. Four days let a position be
opened, moved to breakeven, trailed and closed. Two windows can finish in either
order. Two orders a day and a limit of one let an order be sent again or the limit
be passed. `DiagnosticsForetell` ranges over the machines that differ from one in
order in one or two things. The theorems below need none of these bounds.

`CHECK_DEADLOCK FALSE` stands where the system may stop: a disconnected feed, a
backtest whose bars are over, a live agent behind a shut gate on the last day, a
signal pipeline that has seen its last bar.

### Fairness

- `CommandQueue`, `Orchestrator`: weak fairness of `Tick` and of `Start`. `cmd_run`
  loops without waiting for anything but a one-second sleep, so a step of the main
  thread that can be taken is taken; docker-compose.yml:11 restarts the process
  whenever it ends. Nothing is assumed of the feed, the clock, the operators and the
  producers. `ReadIsSettled` excuses a command when its reader crashes, as
  `read_pending` never looks at "processing" again. `CircuitHalts` excuses a loss
  that is gone before the circuits are looked at.
- `LiveAgent`: weak fairness of the main thread, `Initialise \/ Tick`, and of
  nothing else: nobody owes a start, the exchange and the API do as they like.
  `LossEndsSession` is about a loss that lasts while the API answers.
- `NseLimiter`: time passes, a thread that is in a call goes on with it (a request
  has a timeout, so it ends), and the agent's main thread asks again and again. A
  lockout is noticed by callers only, which is what the last of these is for.
- `LiveFeed`: the main and the reconnecting thread go on; a lost or closing socket is
  dealt with by the library; a handshake and its `on_open` that are possible again
  and again succeed some time (strong fairness). `ComesBack` excuses a feed that is
  stopped or has lost all of its attempts, which is where the code gives up.
- `MarketData`: a tick that was stamped is ingested, by the same thread's next step.
- `Simulator`: the event loop comes back to a task whose timer or thread is done.
  Nobody owes a start or a stop.

`AdvanceClock` lets midnight pass for a running process only after its square-off
of the day: the last slot stands for hours in which a tick takes a second.

## Where the code and its documents disagree

The models have the behaviour of the code. Where a document, a comment or another
piece of the code says otherwise, that was noted while modelling; no run is about
these lines, and the properties above are stated so that they hold beside them.

Money and positions:

- a BUY on an open short pays the purchase on top of the settled cover
  (paper.py:167), which has returned margin and P&L already (paper.py:377); "cover"
  among the intents of `paper_ledger` shows it, and so does the dashboard's Close of
  a short (live_tab.py:579);
- a second SELL on an open short replaces the position, and its margin is never
  returned (paper.py:365);
- a short's margin is missing from the equity (paper.py:224), which base.py:38 calls
  total account value;
- with an open short the square-off raises (orchestrator.py:907), in every new
  process again, as it does once when a tick closes a position it has listed; and in
  live mode it does nothing, where orchestrator.py:10 has all
  open positions closed;
- the position cap looks at the order, not at the position it adds to
  (guardrails.py:170), while config/default.yaml:25 has it for any single position;
- two threads check the limit before either places its order (orchestrator.py:450),
  and README.md:144 calls it a hard cap;
- price, stop and target of an order queued over HTTP are ignored by the agent.

Days, halts and restarts:

- after running past midnight a restart starts with fresh cash
  (orchestrator.py:578), for a store that promises a crash-safe restart (store.py:89);
- a process started on a new day takes the equity of the moment as its peak
  (orchestrator.py:563), which orchestrator.py:570 calls all-time;
- a halt is not persisted, and a supervisor's restart ends it (orchestrator.py:98),
  while docs/USER_GUIDE.md:155 has it last to the next session; a halted agent's
  process ends (cli.py:107), so the `resume_agent` the same line suggests is read by
  nobody; and a resume is refused for the daily loss alone (orchestrator.py:700),
  where orchestrator.py:697 speaks of the circuits.

Commands and limits:

- a command appended while `update_status` runs is overwritten (command_queue.py:92),
  where cli.py:1717 promises it within a second;
- the reload takes config/default.yaml whatever file the agent was started with, and
  its clock starts at zero, so the first tick undoes `--config` and the overlay
  (orchestrator.py:222); an `update_risk_param` lives until the next reload; and the
  dashboard's "Restart the agent to apply" is needless;
- the sliders go to 8 positions, where the MCP tool speaks of a "design cap" of 5;
  two saves at once can leave a file that no longer loads; and what they save is
  without effect where `APP_ENV` is dev, as config/environments/dev.yaml sets
  `max_open_positions` itself;
- the simulator's form names its field "key" where the agent reads "param", so it is
  rejected every time; suggestions name parameters of strategies, which the agent's
  limits do not have, so that they are rejected though shown as applied.

Validation and gate:

- gate.py:8 has a run that covers the configured years; what is compared are the
  years that were asked for (cli.py:306, cli.py:362), whatever bars there were;
- the agent builds 10 strategies and the engine 14: `vix_spike_bounce` is traded and
  never validated, and `ema_crossover`, `rsi_momentum`, `bb_squeeze` and `obv_trend`
  are validated and never traded (orchestrator.py:795); the simulator's eight, "same
  strategy set as the live agent" (api/main.py:1784), are a third set;
- a boost of range signals by half is turned away by the guardrails every time
  (engine.py:369);
- a torn verdict is a refusal to live trading and an exception in the API, which
  shows any other verdict up to 300 seconds late (api/main.py:428).

Strategies and data:

- the lower line of `supertrend` can lie above the close after one wide bar, against
  the comment at indicators.py:54; the target of a short can be zero or below;
- `vix_spike_bounce` never looks at the VIX; the trend breakout asks for a volume of
  1.0 times the average where volume_breakout_confirm.py:11 says 1.2; the classifier
  never looks at realised volatility, as classifier.py:4 has it;
- "Cached for 5 minutes" (nse_vix.py) is true of the stamp and not of the value: of
  two calls that fetch at once, the slower can put its older value under the newer
  stamp of the other;
- averages are computed anew over a sliding window, so that they are seeded
  elsewhere at every close; the index's daily bars are loaded once per process.

Reports and diagnostics:

- a profit factor without losses is infinite in one place, 0 in another and an
  amount of rupees in a third; a streak goes on over a trade without result in one
  report and ends in another;
- the regime of a trade is that of any signal of the same key (tools.py:344); charges
  are subtracted from a P&L that is net of them; windows of so many days cut
  their first day differently;
- "All checks passed — safe to run" (cli.py:1455) though a start also constructs the
  feed, logs in with the data credentials, loads the instrument master and opens a
  socket, none of which was tried: well-formed but wrong credentials are green and the
  start dies, and the Upstox feed is not implemented for the start at all; the API's
  preflight (api/main.py:1046 "mirrors the same checks") reads the
  `.env` file over the variables, and has no tests and no live check; its status
  reads a key the snapshot never has, and ignores the age of the verdict;
- "broker.trade_log is the source of truth" (api/main.py:1570), but what the simulator
  logs of an exit is the tick's price, without slippage and charges: wins, win rate and
  `pnl_inr` can be better than what the broker made, and the day's P&L beside them is
  another number;
- pages are "cursor-based" for the API and are taken by offset (api/main.py:397); a
  trade that is stored between the COUNT and the SELECT of the last page hides the
  oldest row, with `has_more` false;
- "Credentials saved. Restart" is not enough where the shell hides the variable;
  `agent.pid` is written by nobody; the warning at cli.py:60 is about a stub that
  cli.py:80 no longer is.

## What is proved

Every theorem holds for all values of the constants that the named assumptions of
the modules allow; these are types, non-empty or finite sets, positive periods and
bounds, and the orders between parameters that the code's own numbers have. Where a
theorem needs more, it says so. Each invariant was checked by TLC before it was
proved. None of the properties is inductive by itself; what follows is what each
one needs.

**OrchestratorProofs**, first about the broker, for all symbols, prices, quantities,
intents, charge rates and any number of orders.

- `TypeCorrect`, `OneSidedPositions`, `StopsAreHonoured`, `BookIsDurable`, from one
  invariant, `IInv`. `StopsHonoured` needs `Tracks`: an addition to a long moves the
  stop to one below the latest price, but keeps the position's own last price, and
  only because that price is never below the latest one is the new stop below it
  too. A restart brings back a *saved* position, so `IInv` has the stops of `saved`
  as well, and `DurableBook` says that all the rest of `saved` is the account.
- `Conservation` (`LedgerStep`), `LedgerAlwaysBalances` (`LedgerBalances`: the same
  as an invariant, over the whole past) and `BrokerIsAnAccount` (`IsAnAccount`: the
  broker implements `Account`, each call being an entry, an exit or a stutter), if
  neither "cover" nor "reshort" is among the intents, which is where the code loses
  money (see above), and the refinement if slippage is below the whole
  price. They need `FlatIsFree`: a symbol that is opened must not have had a cost
  before.
- `NeverOverdrawn` (`NoOverdraft`), if "cover" is not among the intents and exits pay
  (`ExitsPay`): the charges of a sale are within its proceeds, and no price is so far
  above another that covering a short costs twice what it was sold for. The second
  is a real limit of the code and no modelling device: `_cover_short` credits the
  margin and the P&L, so a short that doubles before its stop takes cash from the
  account, below zero if there is none; the guardrails bound a stop by the size of the
  order only. The prices of `paper_ledger` satisfy both. It needs `Listed`: positions
  are closed at market prices, and what remains of a short still holds its shares'
  exact margin.

The argument goes by the operators first (`Reduce`, `Basis`, an exit, a fill: each
keeps `Sound`), then by action, one lemma each, then by induction over `Next`.

Then about the agent, on top of the broker's `IInv`, for any account, number of days
and of crashes.

- `AgentTyped`: the types, the account's included.
- `BaselineIsTheMornings` (`MorningBaseline`), with `BaselineInv`: the rows of
  `daily_state` tell the mornings too, and days to come have none.
- `RowAlwaysCurrent` (`RestoredInv`): after every step of either thread what a restart
  on the same day would bring back is the account. `RestartsCarryOver`
  (`SameDayRestart`) follows.
- `FlatTillMidnight` (`FlatAfterClose`), with `LastSlotDrained`: no order is in
  flight at the square-off, or one could fill after it; and `OpenIsListed`: while the
  exits go on, whatever is open is still on the list.
- `LimitUnlessOverlap` (`LimitUnlessRaced`), with `LimitInv`: the positions *and* the
  orders in flight are within the limit as long as no two were in flight at once.

**SumTheorems** has what the others need of `SumFunctionOnSet` and other folds of the
community modules. A sum of integers is one, any element may be taken out first, and
how it changes with one term (`SumsDiffer`) or grows with all (`SumMonotone`); it is
the same under other names (`SumRenamed`), and the sum of the sums of its parts
(`SumByParts`). The library's induction theorems cannot be used, so a fold, or a
recursive function over the length of a list, is first shown to have a solution
(`AlwaysSolved`, `FoldSolved`), from the smallest counterexample; then it is followed
step by step (`StepByStep`), which is how every loop of the code that the model writes
as a fold is reasoned about below.

**InputProofs**, about what reaches the agent.

- `SocketsInOrder` (`SocketInOrder`), with `OneAnswers` and `Remembered`: of all
  sockets, lost and reconnecting ones included, one answers for the connection, and
  one feed's library remembers the subscription where the other's callback sends it
  anew. `StreamInOrder`: the tick that is handled is the last that was stamped.
- `HistoryInOrder` (`CandlesInOrder`): what the aggregator keeps is bounded, one
  candle for an interval and in order, each with prices it can have. It rests on
  `Floor` being monotonic, and on no open bucket being of a time that is past.
- `CandlesSumUp` (`CandlesAreBuckets`): these candles are those of the ticks, none
  left out and none invented. With `AllSummed`, said of the ticks ingested so far: the
  open bucket and every kept candle sum up just the ticks of their interval, and every
  tick's interval is the bucket's, a kept candle's, or older than all of the
  `HistoryMax` candles kept.
- `RefusalsAreBounded` and `FreshValuesAreFresh`, and `LimiterPaces` (`IsPaced`: the
  limiter implements `Pacer`). The first needs `RefusalsLeft`, a count of the threads
  that may still be refused; the second `CacheTruthful`: a timestamp, set or on its
  way, is no later than the storing of the value under it, and than the value's own
  time if both are of one call; the third `LastCall`: the limiter's time of the last
  call is the time of the last passage.
- `QueueTyped`, `EffectsInOrder` (`InOrder`) and `FileAndLimitAreTrue` (`Truthful`),
  from `QueueInv`, `TruthInv` and `AuthorInv`: the file, the lines being read, the
  batch, the copy and the log are each in the order of submission; all that ran
  precedes all that may still run; and what holds of the file's pending lines holds of
  the *copy* too while a status is rewritten, as the copy becomes the file.

**GateProofs**, about both sides of the gate.

- `ValidationIsAGate` (`GateSpec`): a validation implements `Gate`, for every history,
  window, pool and threshold, wherever it is interrupted (`VerdictInv`).
- `WindowsTile`: the windows cover the years, none overlaps. `EveryWindowCounts`: in
  whatever order the workers finish, a verdict is on all of them, each once.
- `CurveIsWhole` (`CurveWhole`): the stitched curve ends at the starting equity times
  the growth of every window, and its drawdown is at least that of each. It needs
  `ResultsInv`: every window that counts has a result that a backtest returns. Ratios
  are in lowest terms, so that Euclid's algorithm, a recursion, is shown to find a
  common divisor first (`GcdDivides`); what was stitched stays where it is
  (`EverythingStays`), and a curve that has a piece scaled from another hides no
  drawdown of it (`PieceHidesNothing`).
- `DiagnosticsHold` (`DiagnosticsForetell`), for every machine and verdict: what a
  green preflight leaves untried is all that a start can fail of.
- `LiveTyped`, `SessionsAreGated` (`LiveIsGated`, from `GateInv`), `LimitHolds`
  (`LimitUnlessBlind`, from `LimitInv`: what is open, working *or on its way* is within
  the limit), `ExposureIsDecided` (`ExposureWasDecided`, from `ExposureInv`, which
  counts what is outstanding of a symbol against what was decided on, in either
  direction).

**ReportProofs**, for any trades, signals, page size, years, window length and workers.

- `ReportsAreAlike` (`ReportsAgree`), all eight comparisons. The trades of a validation
  are those of its windows, appended one window after the other, so they are in the
  order of closing, which the windows of days and the curve by days rest on: `Chains`
  says of the list so far that it closed before any window still to come opens, from
  `ResultsInv` and the tiling of the windows.
  - Tables and attributions (`NumbersAreSame`): a selection is a set of places, its
    total a sum over that set, and the keys of a report take the places apart, so that
    no trade is lost or counted twice, whichever key, and whichever signals the join
    with the regimes picks.
  - Streaks (`StreaksAgree`) and episodes (`EpisodesAgree`): the code's loops,
    followed trade by trade and day by day. An episode that has not ended, and the
    list of those that have, account for every day under water so far, and cover each
    with their worst.
  - Drawdowns (`DrawdownsAgree`): the account at the end of a day is the running sum
    after the last trade of the day, so a fall from day to day is one from trade to
    trade, and the scan of the database sees it.
  - Pages (`PagesAreComplete`): after so many pages the newest rows have been read, so
    many at least, once and in order; a trade in between moves them by one. A page that
    says there is more has a row to follow, and one that does not hides no more rows
    than were written between its two queries (`InsertionsHideAsMany`).
  - Windows of days (`WindowsAreNested`), and signals counted by strategy or in one list
    (`SignalsAgree`).

  What is assumed of a backtest (`ResultsAssumption`): its trades are typed, close on a
  day of their window and are in the order they closed in, as the engine appends them
  when they close; its curve begins with cash and does not fall below zero. A short can
  take an account below zero; the ratios of such a curve mean nothing and are left out.

**SignalProofs**.

- `SizingFits` (`SizedOrdersFit`) and `SizingExact`: for every percentage, price and
  equity, what `position_size` returns passes the per-trade risk and the position
  cap, and one share more does not. They rest on facts about floors: if q is at
  most `a \div b` and b is positive, then q times b is at most a.
- `PipelineSound` (`PipelineInv`), for any bars, index, market, periods and
  configuration: bars, orders and what is handed on are sound. From it
  `PipelineFits`, `PipelineSignals` (`SignalsAreSound`: each of the strategies' stops
  and targets on its side, with the bounds of every indicator it takes them from),
  `PipelineTraces` (`TraceNamesTheRule`) and `SignalsStayFresh` (`FreshSignals`).

**BacktestProofs**, for any history of bars whose prices lie between their low and
their high, market, signal, charge rate and universe.

- `BacktestInvariant` (`BacktestInv`). The broker's own `IInv` is of no use here: the
  engine calls the broker at bars' prices and trails stops behind its back, so that
  soundness is proved afresh, operator by operator (`Sound`; `ExitLongEffect`,
  `BuyEffect`...). `OrderIsSound` says of the order on its way that its stop and
  target are on their sides of today's open *and*, once it is priced, that the open
  has closed whatever it reached; otherwise an order could add to a position that is
  past its stop. `Untrailed`: trail and age go with their position, or the next one
  in the symbol would inherit a moved stop. `Aged` and `Settled` are `DayIsSettled`
  half-way through the exits and the marks.
- `StopsKept` (`StopsAreKept`): from the effect of an exit, one for a long and one for
  a short. `DaysSettled` (`DayIsSettled`): the recorded equity is a sum of worths
  because the marks are the closes (`SumsAdd`: equity adds three sums, the property
  is one).
- `BoostsRefused` (`BoostNeverTrades`): a sized quantity fills the risk or the cap to
  the last share, so half as much again passes the guardrails only if it is within
  the rounding, which ends at six shares.
- `BreakevenHolds` (`NoLossAfterBreakeven`), *without charges and slippage*
  (`Frictionless`; with them a trade closed at breakeven costs its charges, which is
  why the property is stated for that case). It needs `Breakeven`: what a position
  cost is a whole number of average prices until it is added to, its target is still
  ahead of its price, and a moved stop is at the average price or better.

**SimulatorProofs**, for any universe, prices, signals, charge rates, number of fills
and counter limit, and however it is started and stopped.

- `SimBooksAgree` (`BooksAgree`) and `SimNobodyStays` (`NobodyStays`), from
  `SimInvariant` (`SimInv`) and, for the trades, `StoryInv`. `Logged`: the log has
  one open entry for a symbol at most, and one with the right quantity for each
  position: the log may lag behind exits, never behind entries. `InStep` says where
  it does not lag. `Ledger`: cash and costs, less what was realized, and the charges
  of entries are what the account began with, so that a day that ends flat has the
  sum of its results as its profit. `Stages`: where the task can be in which state;
  it also says that the square-off has closed what it passed. `Counted`: whatever is
  held is counted, and what is counted is open in the log. `StoryInv`, inductive
  given `SimInv`, follows every trade from its entry in the log to its exit: the
  entry has the shares and the cost of the position while that is held, and of the
  broker's trade thereafter, and a result of ticks that a sale at the stop or below
  it does not exceed (`SaleBelow`).

What is only model-checked, and why:

- liveness, which is beyond the prover: `ReadIsSettled`, `CircuitHalts`,
  `NobodyIsShutOut`, `DeliversWhileWanted`, `LossEndsSession`, `ReplayEnds`.

Every other property of a run is a theorem.

## What is not modelled

- Historical data (`historical.py`, `bhavcopy.py`, `*_history.py`): downloads and
  caches of price files, I/O without decisions; their output is an input here.
- Notifications, logs, the snapshot file: output only.
- Trade replay, reviews by language models, scripts, deployment: texts, charts and
  operations. The supervisor's restart is in the agent and queue modules.
- Dashboards and API beyond what they queue, write, report and diagnose: user
  interface, log-in, websockets.
- Inside the modelled components: the steps inside a broker call (a tick and an order
  at the same time change the same dict and cash), floats below a tick, ADX and the
  trend statistics no strategy uses, ratios that need roots, the parsing of frames
  and answers, `toggle_strategy`, stale or missing market data in the agent's
  module (it only rejects there; `signals` has it), two agents on one database, a
  crash between a change of the account and its row, and the 500 bars to which the
  aggregator's history is bounded (aggregator.py:42) as the strategies see it: the
  histories of `SignalPipeline` only grow, and stay below them.

## Plan

What is left: `BrokerThreads`, the steps inside `update_market_prices`, `place_order`
and `_auto_exit`, for two threads without a lock, on one symbol.
