------------------------------ MODULE Orchestrator ------------------------------
(***************************************************************************)
(* The agent process (core/execution/orchestrator.py, cli.py run) around    *)
(* the paper broker and the guardrails: the one-second lifecycle tick of    *)
(* the main thread, the market ticks and signals of the feed thread, the    *)
(* trading day, the two SQLite rows a restart reads, and crashes between    *)
(* any two steps. A call of the broker is atomic here; an order is checked  *)
(* in one step and placed in another, since the other thread may come in    *)
(* between.                                                                 *)
(*                                                                          *)
(* The account is PaperBroker's: book, latestPrices, saved, entryFees and   *)
(* orders are its variables, and saved is the state column of the           *)
(* broker_state row. The values left in memory by a process that is down    *)
(* are the last it had.                                                     *)
(***************************************************************************)
EXTENDS PaperBroker, Guardrails, Functions

CONSTANTS
  MaxDay,         \* bound: days 0..MaxDay
  SquareoffAt,    \* intraday_squareoff_at, the last slot of the day
  MaxCrashes      \* bound: crashes in a behaviour

Days == 0..MaxDay
Slots == 1..SquareoffAt
NoRow == [start |-> NoData, peak |-> NoData]

ASSUME OrchestratorAssumption ==
  /\ MaxDay \in Nat
  /\ SquareoffAt \in Nat
  /\ 1 <= Hours.trading_start
  /\ Hours.trading_start < Hours.no_new_entries_after
  /\ Hours.no_new_entries_after <= SquareoffAt
  /\ MaxCrashes \in Nat

VARIABLES
  clock,       \* IST date and time of day
  pc,          \* the step of tick_lifecycle that is next; "down": no process
  daily,       \* starting_equity_today, peak_equity, _current_trade_date
  halted,      \* Orchestrator.halted
  inFlight,    \* by thread: the order it has checked and not yet placed
  toClose,     \* the positions the square-off has listed and not yet closed
  dailyRows,   \* table daily_state, by trade_date
  savedDate,   \* trade_date of the broker_state row
  morning,     \* history: the first baseline of each day
  startedOn,   \* history: the day the process started
  closedOn,    \* history: the last day a square-off ran to its end
  overlapped,  \* history: orders for two symbols were in flight at once
  crashes      \* history: crashes so far

process == <<pc, daily, halted, inFlight, toClose>>
history == <<morning, startedOn, closedOn, overlapped, crashes>>
agentVars == <<vars, clock, process, dailyRows, savedDate, history>>

Larger(a, b) == IF a > b THEN a ELSE b

FreshBook ==
  [cash |-> InitialCash, realized |-> 0, trades |-> 0,
   longs |-> [s \in Symbols |-> Flat], shorts |-> [s \in Symbols |-> Flat]]

Threads == {"feed", "main"}
NothingInFlight == [t \in Threads |-> {}]
Free(thread) == inFlight[thread] = {}

LongsOf(b) == {s \in Symbols : Open(b.longs[s])}
ShortsOf(b) == {s \in Symbols : Open(b.shorts[s])}
OpenPositions(b) == LongsOf(b) \cup ShortsOf(b)

NothingListed == [longs |-> {}, shorts |-> {}]

Row(state) == [start |-> state.start, peak |-> state.peak]

AgentInit ==
  /\ Init
  /\ clock = [day |-> 0, slot |-> 1]
  /\ pc = "down"
  /\ daily = [start |-> NoData, peak |-> NoData, date |-> NoData]
  /\ halted = FALSE
  /\ inFlight = NothingInFlight
  /\ toClose = NothingListed
  /\ dailyRows = [d \in Days |-> NoRow]
  /\ savedDate = NoData
  /\ morning = [d \in Days |-> NoData]
  /\ startedOn = NoData
  /\ closedOn = NoData
  /\ overlapped = FALSE
  /\ crashes = 0

-----------------------------------------------------------------------------
(* Time                                                                     *)

(* A slot is a stretch of the day in which no rule changes its mind. The    *)
(* last one lasts for hours: a process that is up has run its square-off    *)
(* before midnight. From the last entry to the square-off there are         *)
(* minutes, and an order is not that long in flight.                        *)
AdvanceClock ==
  /\ clock.slot + 1 = SquareoffAt => inFlight = NothingInFlight
  /\ \/ /\ clock.slot < SquareoffAt
        /\ clock' = [clock EXCEPT !.slot = clock.slot + 1]
     \/ /\ clock.slot = SquareoffAt
        /\ clock.day < MaxDay
        /\ pc = "down" \/ closedOn = clock.day
        /\ clock' = [day |-> clock.day + 1, slot |-> 1]
  /\ UNCHANGED <<vars, process, dailyRows, savedDate, history>>

-----------------------------------------------------------------------------
(* Starting a process                                                       *)

(* The baselines of today's row, if there is one. The broker is still the   *)
(* fresh one: its positions are restored afterwards.                        *)
RestoreOrInitDailyState(day, equity) ==
  IF dailyRows[day] # NoRow
  THEN [start |-> dailyRows[day].start,
        peak |-> Larger(dailyRows[day].peak, equity), date |-> day]
  ELSE [start |-> equity, peak |-> equity, date |-> day]

(* Mutant of RestoreBrokerStateIfSameDay: every restart is a fresh start.   *)
RestoreNothing(day) == FreshBook

RestoreBrokerStateIfSameDay(day) ==
  IF savedDate = day THEN RestoreState(saved) ELSE FreshBook

FirstBaseline(state) ==
  morning' = [morning EXCEPT ![state.date] =
                IF @ = NoData THEN state.start ELSE @]

Start ==
  /\ pc = "down"
  /\ daily' = RestoreOrInitDailyState(clock.day, Equity(FreshBook))
  /\ dailyRows' = [dailyRows EXCEPT ![clock.day] = Row(daily')]
  /\ book' = RestoreBrokerStateIfSameDay(clock.day)
  /\ latestPrices' = [s \in Symbols |-> NoPrice]
  /\ halted' = FALSE
  /\ inFlight' = NothingInFlight
  /\ toClose' = NothingListed
  /\ pc' = "commands"
  /\ FirstBaseline(daily')
  /\ startedOn' = clock.day
  /\ UNCHANGED <<saved, entryFees, orders, clock, savedDate, closedOn,
                 overlapped, crashes>>

Crash ==
  /\ pc # "down"
  /\ crashes < MaxCrashes
  /\ crashes' = crashes + 1
  /\ pc' = "down"
  /\ inFlight' = NothingInFlight
  /\ toClose' = NothingListed
  /\ UNCHANGED <<vars, clock, daily, halted, dailyRows, savedDate,
                 morning, startedOn, closedOn, overlapped>>

-----------------------------------------------------------------------------
(* Orders: size, guardrails, broker                                         *)

Portfolio ==
  [equity |-> Equity(book), starting_equity_today |-> daily.start,
   peak_equity |-> daily.peak, open_positions |-> OpenPositions(book),
   last_exit_by_symbol |-> [s \in Symbols |-> NoData], halted |-> halted]

(* The feed is fresh, the market calm and liquid: what the other contexts   *)
(* do is to reject. The two 15-minute changes are never updated.            *)
Market ==
  [now |-> clock.slot, last_tick_age_seconds |-> 0,
   nifty_change_pct_15m |-> 0, vix_change_pct_15m |-> 0,
   adv |-> NoData, spread_pct |-> NoData]

(* An order of a signal, as it goes from the check to the broker.           *)
Order(signal, qty, target) ==
  [symbol |-> signal.symbol, side |-> signal.side, qty |-> qty,
   stop |-> signal.stop, target |-> target]

(* What place_order would do with an order now.                             *)
Intent(s, side) ==
  IF side = "BUY"
  THEN IF Open(book.shorts[s]) THEN "cover"
       ELSE IF Open(book.longs[s]) THEN "add_long" ELSE "open_long"
  ELSE IF Open(book.longs[s]) THEN "close_long"
       ELSE IF Open(book.shorts[s]) THEN "reshort" ELSE "open_short"

(* The guardrails look at the account of this moment, and let it through.   *)
(* MaxOrders and Intents bound what is decided on.                          *)
CheckOrder(thread, signal, qty, target) ==
  /\ pc # "down"
  /\ Free(thread)
  /\ orders < MaxOrders
  /\ Intent(signal.symbol, signal.side) \in Intents
  /\ Allowed(signal, qty, Portfolio, Market)
  /\ inFlight' = [inFlight EXCEPT ![thread] = {Order(signal, qty, target)}]
  /\ overlapped' =
       (overlapped \/ \E order \in UNION Range(inFlight) :
                        order.symbol # signal.symbol)
  /\ UNCHANGED <<vars, clock, pc, daily, halted, toClose, dailyRows, savedDate,
                 morning, startedOn, closedOn, crashes>>

(* place_order, and the row that on_state_change writes.                    *)
PlaceOrder(thread) ==
  \E order \in inFlight[thread] :
    /\ \/ /\ order.side = "BUY"
          /\ \/ BuyLong(order.symbol, order.qty, order.stop, order.target)
             \/ BuyToCover(order.symbol, order.qty)
       \/ /\ order.side = "SELL"
          /\ \/ SellLong(order.symbol, order.qty)
             \/ SellShort(order.symbol, order.qty, order.stop, order.target)
    /\ inFlight' = [inFlight EXCEPT ![thread] = {}]
    /\ savedDate' = clock.day
    /\ UNCHANGED <<clock, pc, daily, halted, toClose, dailyRows, history>>

(* place_order rejects it, for want of buying power or of shares to sell. A *)
(* rejected order leaves no more behind than one that was never wanted, so  *)
(* any order may be rejected here.                                          *)
RejectOrder(thread) ==
  /\ ~Free(thread)
  /\ inFlight' = [inFlight EXCEPT ![thread] = {}]
  /\ UNCHANGED <<vars, clock, pc, daily, halted, toClose, dailyRows, savedDate, history>>

(* A strategy's signal at the close of a candle, on the feed thread; the    *)
(* candle closes at the last price of the symbol. The strategies compute    *)
(* stop and target on either side of the entry.                             *)
HandleSignal(s, side, stop, target) ==
  LET signal == [symbol |-> s, side |-> side,
                 entry |-> latestPrices[s], stop |-> stop]
  IN  /\ latestPrices[s] # NoPrice
      /\ \/ side = "BUY" /\ LegalBuyExits(s, stop, target)
         \/ side = "SELL" /\ LegalShortExits(s, stop, target)
      /\ CheckOrder("feed", signal, PositionSize(Equity(book), signal), target)

(* A market tick, on the feed thread. An exit it causes is persisted.       *)
OnTick(s, px) ==
  /\ pc # "down"
  /\ Free("feed")
  /\ UpdateMarketPrices(s, px)
  /\ savedDate' = IF book'.trades = book.trades THEN savedDate ELSE clock.day
  /\ UNCHANGED <<clock, process, dailyRows, history>>

-----------------------------------------------------------------------------
(* tick_lifecycle, on the main thread                                       *)

CommandHalt ==
  /\ pc = "commands"
  /\ Free("main")
  /\ halted' = TRUE
  /\ UNCHANGED <<vars, clock, pc, daily, inFlight, toClose, dailyRows, savedDate,
                 history>>

(* Refused while the daily loss exceeds its circuit, and when the baseline  *)
(* is zero, by the division.                                                *)
CommandResume ==
  /\ pc = "commands"
  /\ Free("main")
  /\ daily.start # 0
  /\ ~DailyLossCircuit(Portfolio)
  /\ halted' = FALSE
  /\ UNCHANGED <<vars, clock, pc, daily, inFlight, toClose, dailyRows, savedDate,
                 history>>

(* place_paper_order: stop 2% and target 4% away, to the tick outwards.     *)
CommandOrder(s, side, qty) ==
  LET ltp     == latestPrices[s]
      down(p) == (ltp * p) \div 100
      up(p)   == (ltp * p + 99) \div 100
      signal  == [symbol |-> s, side |-> side, entry |-> ltp,
                  stop |-> IF side = "BUY" THEN down(98) ELSE up(102)]
  IN  /\ pc = "commands"
      /\ ltp # NoPrice
      /\ CheckOrder("main", signal, qty,
                    IF side = "BUY" THEN up(104) ELSE down(96))

(* Mutant of Baselines: a rollover is not written to daily_state.           *)
BaselinesUnsaved ==
  LET equity == Equity(book)
      rolled == IF daily.date # clock.day
                THEN [daily EXCEPT !.start = equity, !.date = clock.day]
                ELSE daily
  IN  /\ pc = "commands"
      /\ Free("main")
      /\ pc' = "squareoff"
      /\ daily' = [rolled EXCEPT !.peak = Larger(rolled.peak, equity)]
      /\ dailyRows' = IF daily'.peak # daily.peak
                      THEN [dailyRows EXCEPT ![clock.day] = Row(daily')]
                      ELSE dailyRows
      /\ FirstBaseline(daily')
      /\ UNCHANGED <<vars, clock, halted, inFlight, toClose, savedDate, startedOn,
                     closedOn, overlapped, crashes>>

(* One reading of the equity rolls the date over and raises the peak; both  *)
(* are written to today's row. The equity row and the reload that follow    *)
(* change nothing here.                                                     *)
Baselines ==
  LET equity == Equity(book)
      rolled == IF daily.date # clock.day
                THEN [daily EXCEPT !.start = equity, !.date = clock.day]
                ELSE daily
  IN  /\ pc = "commands"
      /\ Free("main")
      /\ pc' = "squareoff"
      /\ daily' = [rolled EXCEPT !.peak = Larger(rolled.peak, equity)]
      /\ dailyRows' = IF daily' # daily
                      THEN [dailyRows EXCEPT ![clock.day] = Row(daily')]
                      ELSE dailyRows
      /\ FirstBaseline(daily')
      /\ UNCHANGED <<vars, clock, halted, inFlight, toClose, savedDate, startedOn,
                     closedOn, overlapped, crashes>>

(* Nothing to do: it is not yet time, or nothing is open.                   *)
SkipSquareoff ==
  /\ pc = "squareoff"
  /\ clock.slot < SquareoffAt \/ OpenPositions(book) = {}
  /\ pc' = "halts"
  /\ closedOn' = IF clock.slot < SquareoffAt THEN closedOn ELSE clock.day
  /\ UNCHANGED <<vars, clock, daily, halted, inFlight, toClose, dailyRows,
                 savedDate, morning, startedOn, overlapped, crashes>>

(* It is time: the positions are listed, and the feed thread goes on.       *)
Squareoff ==
  /\ pc = "squareoff"
  /\ clock.slot >= SquareoffAt
  /\ OpenPositions(book) # {}
  /\ toClose' = [longs |-> LongsOf(book), shorts |-> ShortsOf(book)]
  /\ pc' = "closing"
  /\ UNCHANGED <<vars, clock, daily, halted, inFlight, dailyRows, savedDate, history>>

(* _auto_exit of a listed long, at its last price of now, and the row that  *)
(* on_state_change writes.                                                  *)
SquareoffExit(s) ==
  /\ pc = "closing"
  /\ s \in toClose.longs
  /\ Open(book.longs[s])
  /\ book' = ExitLong(book, s, book.longs[s].qty, book.longs[s].last)
  /\ saved' = SnapshotState(book')
  /\ savedDate' = clock.day
  /\ toClose' = [toClose EXCEPT !.longs = toClose.longs \ {s}]
  /\ UNCHANGED <<latestPrices, entryFees, orders, clock, pc, daily, halted, inFlight,
                 dailyRows, history>>

(* _auto_exit looks for a long: a listed short, which comes after the longs, *)
(* and a long that a tick has closed since it was listed raise KeyError,     *)
(* which nothing above catches, and the process ends.                        *)
SquareoffFails ==
  /\ pc = "closing"
  /\ \/ \E s \in toClose.longs : ~Open(book.longs[s])
     \/ toClose.longs = {} /\ toClose.shorts # {}
  /\ pc' = "down"
  /\ inFlight' = NothingInFlight
  /\ toClose' = NothingListed
  /\ UNCHANGED <<vars, clock, daily, halted, dailyRows, savedDate, history>>

(* The list is done; the summary of the day changes nothing here.           *)
SquareoffEnds ==
  /\ pc = "closing"
  /\ toClose = NothingListed
  /\ pc' = "halts"
  /\ closedOn' = clock.day
  /\ UNCHANGED <<vars, clock, daily, halted, inFlight, toClose, dailyRows, savedDate,
                 morning, startedOn, overlapped, crashes>>

(* Mutant of CheckGlobalHalts: the drawdown circuit is not looked at.       *)
CheckDailyLossOnly ==
  /\ pc = "halts"
  /\ halted' = (halted \/ DailyLossCircuit(Portfolio))
  /\ pc' = "sleep"
  /\ UNCHANGED <<vars, clock, daily, inFlight, toClose, dailyRows, savedDate, history>>

(* The circuits, on the equity of now.                                      *)
CheckGlobalHalts ==
  /\ pc = "halts"
  /\ halted' = (halted \/ DailyLossCircuit(Portfolio) \/ DrawdownCircuit(Portfolio))
  /\ pc' = "sleep"
  /\ UNCHANGED <<vars, clock, daily, inFlight, toClose, dailyRows, savedDate, history>>

(* cmd_run, after a second in which the feed goes on: once the agent is     *)
(* halted the loop is left and the process ends.                            *)
RunLoop ==
  /\ pc = "sleep"
  /\ pc' = IF halted THEN "down" ELSE "commands"
  /\ inFlight' = IF halted THEN NothingInFlight ELSE inFlight
  /\ UNCHANGED <<vars, clock, daily, halted, toClose, dailyRows, savedDate, history>>

-----------------------------------------------------------------------------

Tick ==
  \/ PlaceOrder("main") \/ RejectOrder("main")
  \/ Baselines \/ CheckGlobalHalts \/ RunLoop
  \/ SkipSquareoff \/ Squareoff \/ SquareoffFails \/ SquareoffEnds
  \/ \E s \in Symbols : SquareoffExit(s)

AgentNext ==
  \/ AdvanceClock
  \/ Start
  \/ Crash
  \/ \E s \in Symbols :
       \/ \E px \in Prices : OnTick(s, px)
       \/ \E side \in {"BUY", "SELL"} :
            \/ \E stop \in Prices, target \in Prices \cup {NoTarget} :
                 HandleSignal(s, side, stop, target)
            \/ \E qty \in Quantities : CommandOrder(s, side, qty)
  \/ PlaceOrder("feed")
  \/ RejectOrder("feed")
  \/ CommandHalt
  \/ CommandResume
  \/ Tick

(* The main loop keeps ticking, and a supervisor restarts the process; the  *)
(* market, the operator and the clock owe nothing.                          *)
Fairness == WF_agentVars(Tick) /\ WF_agentVars(Start)

AgentSpec == AgentInit /\ [][AgentNext]_agentVars /\ Fairness
=============================================================================
