------------------------------- MODULE Simulator -------------------------------
(***************************************************************************)
(* The simulator of the HTTP API (api/main.py): one shared state that the   *)
(* endpoints start, stop and read, and a task of the event loop that trades *)
(* synthetic prices, or replays a past day, through the production broker   *)
(* and guardrails.                                                          *)
(*                                                                          *)
(* start and stop are coroutines: they run only where the task awaits.      *)
(* status is a plain function, which a worker thread runs at any moment: it *)
(* reads what the variables are in any state.                               *)
(*                                                                          *)
(* Prices and signals are inputs.  The account is PaperBroker's; nobody     *)
(* listens to on_state_change.  What the log says of a closed trade is the  *)
(* simulator's own reckoning, at the price of the tick and without charges: *)
(* what the broker made on it is kept beside, to compare.                   *)
(***************************************************************************)
EXTENDS Integers, Sequences, FiniteSets

CONSTANTS
  Symbols, Prices, Quantities, Intents, InitialCash, Exec, MaxOrders,  \* PaperBroker's
  Risk, Hours, LiveMode,                                               \* Guardrails'
  Universe,       \* resolve_universe, in its order
  Signals,        \* stop, target, and how far the entry is from the price
  MaxTicks,       \* 30 ticks until a time exit
  MaxCurve,       \* 2000 points of the equity curve
  Steps,          \* N_STEPS: 100 steps of a replayed day
  LastSteps,      \* 4: the steps before the last that square off too
  Volume,         \* avg_daily_volumes
  Spread          \* spread_pct_by_symbol

ASSUME SimulatorAssumption ==
  /\ IsFiniteSet(Symbols)
  /\ Prices \subseteq Nat \ {0}
  /\ InitialCash \in Nat
  /\ Exec \in [slippage_bps: Nat, leverage: Nat, brokerage: Nat,
               min_brokerage: Nat, stt_bps: Nat, levy_bps: Nat, stamp_bps: Nat]
  /\ Exec.slippage_bps <= 10000
  /\ Risk.per_trade_risk_pct \in Nat
  /\ Universe \in Seq(Symbols)
  /\ {Universe[i] : i \in DOMAIN Universe} = Symbols
  /\ \A i, j \in DOMAIN Universe : Universe[i] = Universe[j] => i = j
  /\ {MaxTicks, MaxCurve, Steps, LastSteps} \subseteq Nat \ {0}
  /\ LastSteps < Steps
  /\ \A x \in Signals : {x.stop, x.target} \subseteq Nat /\ x.offset \in Int

VARIABLES
  book, latestPrices, entryFees, orders,   \* PaperBroker's; the task's own broker
  lastTrade,    \* of the broker's trade_log, the last record of each symbol, and
                \*   (history) the stop that the position had
  running,      \* _SimulatorState.running
  mode,         \* "live", or "replay" when replay_date is set
  phase,        \* replay_day_summary
  log,          \* trade_log
  curve,        \* equity_curve
  task,         \* where the task is: none, at one of its awaits (begin, loading,
                \*   sleep), in a tick, or dead
  ticks,        \* _sim_open_ticks
  step,         \* of the replay
  loaded,       \* symbols with a price path
  cursor,       \* next symbol to be evaluated
  equity        \* read once before the entries of a tick

INSTANCE PaperBroker WITH saved <-
  [cash |-> book.cash, realized |-> book.realized, longs |-> book.longs, shorts |-> book.shorts]
INSTANCE Guardrails

account == <<book, latestPrices, entryFees, orders, lastTrade>>
shared == <<running, mode, phase, log, curve>>
local == <<task, ticks, step, loaded, cursor, equity>>
simVars == <<account, shared, local>>

NotTracked == -1

NewAccount ==
  [cash |-> InitialCash, realized |-> 0, trades |-> 0,
   longs |-> [s \in Symbols |-> Flat], shorts |-> [s \in Symbols |-> Flat]]

Held(b) == {s \in Symbols : Open(b.longs[s]) \/ Open(b.shorts[s])}

IsOpenEntry(entry) == entry.status = "OPEN"
OpenInLog(l) == {l[i].symbol : i \in {j \in DOMAIN l : IsOpenEntry(l[j])}}

(* An entry that is open and has no open one of its symbol before it.       *)
IsFirstOpen(l, i) ==
  /\ IsOpenEntry(l[i])
  /\ \A j \in DOMAIN l : IsOpenEntry(l[j]) /\ l[j].symbol = l[i].symbol => i <= j

OpenEntry(s, qty, price) ==
  [symbol |-> s, qty |-> qty, entry |-> price, exit |-> NoPrice, pnl |-> 0, status |-> "OPEN"]

(* exit_price and pnl are those of the tick.                                *)
ClosedEntry(e, px, reason) ==
  [e EXCEPT !.exit = px, !.pnl = (px - e.entry) * e.qty, !.status = reason]

(* The first open entry of each of some symbols is closed, if there is one. *)
CloseEntries(l, S, reason) ==
  [i \in DOMAIN l |->
     IF l[i].symbol \in S /\ IsFirstOpen(l, i)
     THEN ClosedEntry(l[i], latestPrices[l[i].symbol], reason)
     ELSE l[i]]

CloseEntry(l, s, reason) == CloseEntries(l, {s}, reason)

NoTrade == [qty |-> 0, cost |-> 0, stop |-> 0, pnl |-> 0]

(* trade_log after a call of the broker that may have closed a position.    *)
Recorded(s, after) ==
  IF after.trades = book.trades THEN lastTrade
  ELSE [lastTrade EXCEPT ![s] =
          [qty |-> book.longs[s].qty, cost |-> book.longs[s].cost,
           stop |-> book.longs[s].stop, pnl |-> after.realized - book.realized]]

SimInit ==
  /\ book = NewAccount
  /\ lastTrade = [s \in Symbols |-> NoTrade]
  /\ latestPrices = [s \in Symbols |-> NoPrice]
  /\ entryFees = 0
  /\ orders = 0
  /\ running = FALSE
  /\ mode = "live"
  /\ phase = "none"
  /\ log = <<>>
  /\ curve = <<>>
  /\ task = "none"
  /\ ticks = [s \in Symbols |-> NotTracked]
  /\ step = 0
  /\ loaded = {}
  /\ cursor = 1
  /\ equity = 0

-----------------------------------------------------------------------------
(* The endpoints                                                            *)

(* Between two steps of the task; what is refused changes nothing.          *)
Awaiting == task \in {"none", "begin", "loading", "sleep", "dead"}

(* What the task keeps in variables of its own ends with it.                *)
Forgotten ==
  /\ book' = NewAccount
  /\ lastTrade' = [s \in Symbols |-> NoTrade]
  /\ latestPrices' = [s \in Symbols |-> NoPrice]
  /\ entryFees' = 0
  /\ orders' = 0
  /\ step' = 0
  /\ loaded' = {}
  /\ cursor' = 1
  /\ equity' = 0

(* simulator_start, for a date that it accepts; the new task has a broker   *)
(* of its own.                                                              *)
Start(m) ==
  /\ Awaiting
  /\ ~running
  /\ running' = TRUE
  /\ mode' = m
  /\ phase' = "none"
  /\ log' = <<>>
  /\ curve' = <<InitialCash>>
  /\ task' = "begin"
  /\ Forgotten
  /\ UNCHANGED ticks

(* simulator_stop: the task is cancelled at its await, and its broker goes  *)
(* with it.  The open entries of the log stay as they are.                  *)
Stop ==
  /\ Awaiting
  /\ running
  /\ running' = FALSE
  /\ task' = "none"
  /\ Forgotten
  /\ UNCHANGED <<mode, phase, log, curve, ticks>>

-----------------------------------------------------------------------------
(* The task, up to its first tick                                           *)

(* Only a simulation of synthetic prices counts ticks.                      *)
Begin ==
  /\ task = "begin"
  /\ \/ /\ mode = "live"
        /\ ticks' = [s \in Symbols |-> NotTracked]
        /\ loaded' = Symbols
        /\ task' = "sleep"
        /\ UNCHANGED phase
     \/ /\ mode = "replay"
        /\ phase' = "loading"
        /\ task' = "loading"
        /\ UNCHANGED <<ticks, loaded>>
  /\ UNCHANGED <<account, running, mode, log, curve, step, cursor, equity>>

(* The histories arrive from the executor: of some symbols, or of none.     *)
Load ==
  /\ task = "loading"
  /\ \E S \in SUBSET Symbols :
       /\ loaded' = S
       /\ \/ /\ S # {}
             /\ phase' = "replaying"
             /\ task' = "sleep"
             /\ UNCHANGED running
          \/ /\ S = {}
             /\ phase' = "error"
             /\ running' = FALSE
             /\ task' = "none"
  /\ UNCHANGED <<account, mode, log, curve, ticks, step, cursor, equity>>

(* The executor raises: the task ends, and nobody hears of it.              *)
Dies ==
  /\ task = "loading"
  /\ task' = "dead"
  /\ UNCHANGED <<account, shared, ticks, step, loaded, cursor, equity>>

-----------------------------------------------------------------------------
(* A tick: new prices, exits by time, the log brought up to date, entries   *)

WakeUp ==
  /\ task = "sleep"
  /\ task' = "prices"
  /\ UNCHANGED <<account, shared, ticks, step, loaded, cursor, equity>>

(* update_market_prices, symbol by symbol.                                  *)
Marked(b, s, px) == MaybeExitShort(MaybeExitLong(MarkToMarket(b, s, px), s), s)

Price ==
  /\ task = "prices"
  /\ cursor <= Len(Universe)
  /\ LET s == Universe[cursor]
     IN  \/ /\ s \in loaded
            /\ \E px \in Prices :
                 /\ latestPrices' = [latestPrices EXCEPT ![s] = px]
                 /\ book' = Marked(book, s, px)
                 /\ lastTrade' = Recorded(s, book')
         \/ /\ s \notin loaded
            /\ UNCHANGED <<book, latestPrices, lastTrade>>
  /\ cursor' = cursor + 1
  /\ UNCHANGED <<entryFees, orders, shared, task, ticks, step, loaded, equity>>

Priced ==
  /\ task = "prices"
  /\ cursor > Len(Universe)
  /\ cursor' = 1
  /\ task' = IF mode = "live" THEN "ageing" ELSE "sync"
  /\ UNCHANGED <<account, shared, ticks, step, loaded, equity>>

(* A market order that closes a position, at the price of the tick.         *)
Closed(b, s) ==
  IF Open(b.longs[s]) THEN ExitLong(b, s, b.longs[s].qty, latestPrices[s])
  ELSE IF Open(b.shorts[s]) THEN ExitShort(b, s, b.shorts[s].qty, latestPrices[s])
  ELSE b

(* One more tick for a tracked symbol; with MaxTicks what is open is closed *)
(* and logged.                                                              *)
Age ==
  /\ task = "ageing"
  /\ cursor <= Len(Universe)
  /\ LET s   == Universe[cursor]
         n   == ticks[s] + 1
         due == n >= MaxTicks
     IN  \/ /\ ticks[s] # NotTracked
            /\ ticks' = [ticks EXCEPT ![s] = IF due THEN NotTracked ELSE n]
            /\ book' = IF due THEN Closed(book, s) ELSE book
            /\ lastTrade' = Recorded(s, book')
            /\ log' = IF due /\ s \in Held(book) THEN CloseEntry(log, s, "time_exit") ELSE log
         \/ /\ ticks[s] = NotTracked
            /\ UNCHANGED <<ticks, book, lastTrade, log>>
  /\ cursor' = cursor + 1
  /\ UNCHANGED <<latestPrices, entryFees, orders, running, mode, phase, curve, task, step,
                 loaded, equity>>

Aged ==
  /\ task = "ageing"
  /\ cursor > Len(Universe)
  /\ cursor' = 1
  /\ task' = "sync"
  /\ UNCHANGED <<account, shared, ticks, step, loaded, equity>>

(* Mutant of Untracked: an automatic exit leaves its counter behind.        *)
UntrackedNever(gone) == ticks

Untracked(gone) == [s \in Symbols |-> IF s \in gone THEN NotTracked ELSE ticks[s]]

SquareOffTime == mode = "replay" /\ step >= Steps - LastSteps

(* What the log still has open and the broker has not was an automatic exit *)
(* at a stop or target.                                                     *)
Sync ==
  LET gone == OpenInLog(log) \ Held(book)
  IN  /\ task = "sync"
      /\ log' = CloseEntries(log, gone, "sl_or_target")
      /\ ticks' = Untracked(gone)
      /\ task' = IF SquareOffTime THEN "squareoff" ELSE "entries"
      /\ equity' = Equity(book)
      /\ UNCHANGED <<account, running, mode, phase, curve, step, loaded, cursor>>

(* The last steps of a replayed day close everything, and enter nothing.    *)
SquareOff ==
  /\ task = "squareoff"
  /\ cursor <= Len(Universe)
  /\ LET s == Universe[cursor]
     IN  /\ book' = Closed(book, s)
         /\ lastTrade' = Recorded(s, book')
         /\ log' = IF s \in Held(book) THEN CloseEntry(log, s, "eod_squareoff") ELSE log
  /\ cursor' = cursor + 1
  /\ UNCHANGED <<latestPrices, entryFees, orders, running, mode, phase, curve, task, ticks,
                 step, loaded, equity>>

-----------------------------------------------------------------------------
(* Entries                                                                  *)

Highest(c) == CHOOSE v \in {c[i] : i \in DOMAIN c} : \A i \in DOMAIN c : c[i] <= v

(* The peak is that of the points the curve still has.                      *)
SimPortfolio ==
  [equity |-> Equity(book), starting_equity_today |-> InitialCash,
   peak_equity |-> IF curve = <<>> THEN Equity(book) ELSE Highest(curve),
   open_positions |-> Held(book),
   last_exit_by_symbol |-> [s \in Symbols |-> NoData], halted |-> FALSE]

ReplayClock(n) == 9 * 60 + 15 + (375 * n) \div Steps

(* A replayed day is 09:15 to 15:30.  Otherwise the time is that of the     *)
(* day; outside of the trading hours nothing is entered.                    *)
SimMarket ==
  [now |-> IF mode = "replay" THEN ReplayClock(step) ELSE Hours.trading_start,
   last_tick_age_seconds |-> 2,
   nifty_change_pct_15m |-> 0, vix_change_pct_15m |-> 0,
   adv |-> Volume, spread_pct |-> Spread]

(* Sized by risk alone, with the equity of the beginning of the tick.       *)
SimQty(signal) ==
  LET risk == RiskPerShare(signal)
      qty  == IF risk = 0 THEN 1 ELSE (equity * Risk.per_trade_risk_pct) \div (100 * risk)
  IN  IF qty < 1 THEN 1 ELSE qty

(* Mutant of Enter: an order is logged whether it was filled or not.        *)
EnterUnfilled(s, qty, x) ==
  /\ BuyLong(s, qty, x.stop, x.target) \/ UNCHANGED <<book, latestPrices, entryFees, orders>>
  /\ UNCHANGED lastTrade
  /\ log' = Append(log, OpenEntry(s, qty, ApplySlippage(latestPrices[s], "BUY")))
  /\ ticks' = IF mode = "live" THEN [ticks EXCEPT ![s] = 0] ELSE ticks

(* A filled order is logged; a rejected one ends the symbol's turn too.     *)
Enter(s, qty, x) ==
  /\ BuyLong(s, qty, x.stop, x.target)
  /\ UNCHANGED lastTrade
  /\ log' = Append(log, OpenEntry(s, qty, ApplySlippage(latestPrices[s], "BUY")))
  /\ ticks' = IF mode = "live" THEN [ticks EXCEPT ![s] = 0] ELSE ticks

(* The next symbol without a position: some strategy has a signal that the  *)
(* guardrails allow, or none has, or the broker rejects it.                 *)
Evaluate ==
  /\ task = "entries"
  /\ cursor <= Len(Universe)
  /\ LET s == Universe[cursor]
     IN  \/ /\ s \in loaded \ Held(book)
            /\ \E x \in Signals :
                 LET signal == [symbol |-> s, side |-> "BUY", stop |-> x.stop,
                                entry |-> latestPrices[s] + x.offset]
                     qty    == SimQty(signal)
                 IN  /\ mode = "replay" => x.offset = 0
                     /\ Allowed(signal, qty, SimPortfolio, SimMarket)
                     /\ Enter(s, qty, x)
         \/ UNCHANGED <<account, log, ticks>>
  /\ cursor' = cursor + 1
  /\ UNCHANGED <<running, mode, phase, curve, task, step, loaded, equity>>

Appended(c, v) == IF Len(c) < MaxCurve THEN Append(c, v) ELSE Append(Tail(c), v)

EndTick ==
  /\ task \in {"entries", "squareoff"}
  /\ cursor > Len(Universe)
  /\ curve' = Appended(curve, Equity(book))
  /\ IF mode = "live" THEN task' = "sleep" /\ UNCHANGED step
     ELSE /\ step' = step + 1
          /\ task' = IF step = Steps THEN "finish" ELSE "sleep"
  /\ cursor' = 1
  /\ equity' = 0
  /\ UNCHANGED <<account, running, mode, phase, log, ticks, loaded>>

(* Mutant of FinishReplay: the simulator still says that it is running.     *)
FinishReplayRunning ==
  /\ task = "finish"
  /\ phase' = "done"
  /\ task' = "none"
  /\ UNCHANGED <<account, running, mode, log, curve, ticks, step, loaded, cursor, equity>>

(* The summary; no await lies between the end of the last step and it.      *)
FinishReplay ==
  /\ task = "finish"
  /\ phase' = "done"
  /\ running' = FALSE
  /\ task' = "none"
  /\ UNCHANGED <<account, mode, log, curve, ticks, step, loaded, cursor, equity>>

SimNext ==
  \/ \E m \in {"live", "replay"} : Start(m)
  \/ Stop
  \/ Begin \/ Load \/ Dies
  \/ WakeUp \/ Price \/ Priced \/ Age \/ Aged \/ Sync \/ SquareOff
  \/ Evaluate \/ EndTick \/ FinishReplay

(* The event loop comes back to a task that waits for a timer or a thread.  *)
SimSpec ==
  /\ SimInit
  /\ [][SimNext]_simVars
  /\ WF_simVars(Begin \/ Load \/ WakeUp \/ Price \/ Priced \/ Age \/ Aged \/ Sync \/ SquareOff
               \/ Evaluate \/ EndTick \/ FinishReplay)

-----------------------------------------------------------------------------
(* What the simulator owes to whoever starts, stops and watches it          *)

Resting == task = "sleep" \/ phase = "done"

(* Whenever the task awaits, the open entries of the log, which is what the *)
(* status shows as the current positions, are the positions of the broker:  *)
(* one entry each, with its quantity.  Automatic exits, time exits, the     *)
(* square-off and rejected orders all have to find their way to it.         *)
LogMirrorsBroker ==
  Resting =>
    /\ OpenInLog(log) = Held(book)
    /\ \A i \in DOMAIN log : IsOpenEntry(log[i]) =>
         /\ log[i].qty = book.longs[log[i].symbol].qty
         /\ \A j \in DOMAIN log :
              IsOpenEntry(log[j]) /\ log[j].symbol = log[i].symbol => j = i

(* In a simulation of synthetic prices every position is counted, and       *)
(* nothing else is, so that nobody stays for MaxTicks ticks (main.py:1537). *)
NobodyStays ==
  Resting /\ mode = "live" =>
    /\ {s \in Symbols : ticks[s] # NotTracked} = Held(book)
    /\ \A s \in Held(book) : ticks[s] < MaxTicks

(* What the status counts, and what the summary of a replayed day says.     *)
Finished(l) == {i \in DOMAIN l : ~IsOpenEntry(l[i])}
Wins(l) == {i \in Finished(l) : l[i].pnl > 0}

Status ==
  [total_trades |-> Len(log),
   win_trades |-> Cardinality(Wins(log)), loss_trades |-> Cardinality(Finished(log) \ Wins(log)),
   pnl_inr |-> SumFunction([i \in Finished(log) |-> log[i].pnl])]

Summary ==
  [total_trades |-> Cardinality(Finished(log)),
   wins |-> Cardinality(Wins(log)), losses |-> Cardinality(Finished(log) \ Wins(log)),
   final_equity |-> Equity(book), day_pnl |-> Equity(book) - InitialCash]

IsNewest(l, i) == \A j \in DOMAIN l : l[j].symbol = l[i].symbol => j <= i

(* The log's reckoning never falls short of the broker's, unless the price  *)
(* jumped over the stop, at which the broker still sells.                   *)
Tells(e, trade) ==
  /\ e.qty = trade.qty
  /\ e.qty * e.entry = trade.cost
  /\ \/ trade.pnl <= e.pnl
     \/ e.status = "sl_or_target" /\ e.exit < trade.stop

(* Whenever the task awaits, the status counts every trade of the broker    *)
(* once, and the last closed entry of a symbol is the broker's last trade   *)
(* of it: same shares, same cost, and a result that slippage and charges    *)
(* only lower.  What the log calls a loss was one, but a win may have cost  *)
(* money: pnl_inr is not what the account made.                             *)
TradesAreLogged ==
  Resting =>
    /\ Status.total_trades = book.trades + Cardinality(Held(book))
    /\ \A i \in Finished(log) : IsNewest(log, i) => Tells(log[i], lastTrade[log[i].symbol])

(* A replayed day ends flat: all trades are closed, and the day's P&L of    *)
(* the summary is what the broker made on them, less the charges of their   *)
(* entries (main.py:1853, 1942-1956).                                       *)
ReplayEndsFlat ==
  phase = "done" =>
    /\ Held(book) = {}
    /\ OpenInLog(log) = {}
    /\ Summary.total_trades = book.trades
    /\ Summary.day_pnl = book.realized - entryFees

(* The broker's positions and trades, the log and the summary tell the same *)
(* story, as far as they do: the trades one by one, the day's P&L, but not  *)
(* the P&L of a trade.                                                      *)
BooksAgree == LogMirrorsBroker /\ TradesAreLogged /\ ReplayEndsFlat

(* Once its data is there a replay comes to its end, unless it is stopped,  *)
(* and the simulator can be started again.                                  *)
ReplayEnds == (running /\ phase = "replaying") ~> ~running
=============================================================================
