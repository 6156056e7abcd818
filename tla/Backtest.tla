-------------------------------- MODULE Backtest --------------------------------
(***************************************************************************)
(* The daily-bar backtest (backtest/engine.py): one sequential program that *)
(* drives the production broker, sizing and guardrails over historical bars.*)
(* A day is: intraday exits of the open positions against the day's bar,    *)
(* then the signals of the day before, each filtered, sized, checked and    *)
(* filled at the day's open, then the mark at the day's close.              *)
(*                                                                          *)
(* Bars, the day's classification and filters, and the signals are inputs.  *)
(* What the indicators say of a price history is reduced to the answers     *)
(* that the engine branches on (Contexts).  The account is PaperBroker's;   *)
(* nobody listens to on_state_change, so there is no snapshot beside it.    *)
(***************************************************************************)
EXTENDS Integers, Sequences, FiniteSets

CONSTANTS
  Symbols, Prices, Quantities, Intents, InitialCash, Exec, MaxOrders,  \* PaperBroker's
  Risk, Hours, LiveMode,                                               \* Guardrails'
  Universe,       \* symbol_history's keys, in their order
  NStrategies,    \* how many strategies are enabled
  Bars,           \* daily bars, in ticks
  Contexts,       \* regimes, and what the market filters find
  Signals,        \* side, stop, target and kind of the signals
  Adv,            \* adv_by_symbol
  MaxAge,         \* 21 trading days
  MaxDays         \* bound: days after the first

NoBar == [open |-> 0, high |-> 0, low |-> 0, close |-> 0]

(* A fill is worth something; a day's prices lie between its low and high.  *)
ASSUME BacktestAssumption ==
  /\ IsFiniteSet(Symbols)
  /\ InitialCash \in Nat
  /\ Exec \in [slippage_bps: Nat, leverage: Nat, brokerage: Nat,
               min_brokerage: Nat, stt_bps: Nat, levy_bps: Nat, stamp_bps: Nat]
  /\ Exec.slippage_bps < 10000
  /\ Universe \in Seq(Symbols)
  /\ {Universe[i] : i \in DOMAIN Universe} = Symbols
  /\ Len(Universe) = Cardinality(Symbols)
  /\ NStrategies \in Nat
  /\ Bars \subseteq [open: Nat, high: Nat, low: Nat, close: Nat]
  /\ \A b \in Bars : b # NoBar => b.low > 0 /\ {b.open, b.close} \subseteq b.low..b.high
  /\ \A x \in Signals : x.side \in {"BUY", "SELL"} /\ x.stop \in Int /\ x.target \in Nat
  /\ MaxAge \in Nat /\ MaxDays \in Nat
  /\ {Risk.per_trade_risk_pct, Risk.max_position_pct} \subseteq Nat
  /\ Risk.signal_cooldown_minutes <= 19 * 60

VARIABLES
  book, latestPrices, entryFees, orders,   \* PaperBroker's
  trail,        \* _orig_risk and _be_moved of the open positions
  age,          \* bars of its symbol since a position was opened
  pc,           \* the step that is next
  day,          \* index in common_dates
  bars,         \* today's bars
  context,      \* today's regime and market filters
  cursor,       \* next (symbol, strategy) to be evaluated, or position to be looked at
  pending,      \* the order on its way to the broker
  baseline,     \* starting_equity_today, peak_equity
  recorded,     \* the last entry of equity_records
  added         \* history: open positions that were added to

INSTANCE PaperBroker WITH saved <-
  [cash |-> book.cash, realized |-> book.realized, longs |-> book.longs, shorts |-> book.shorts]
INSTANCE Guardrails

ledger == <<book, latestPrices, entryFees, orders>>
today == <<day, bars, context>>
history == <<added>>
engine == <<trail, age, pc, today, cursor, pending, baseline, recorded, history>>
engineVars == <<ledger, engine>>

NoTrail == [risk |-> -1, moved |-> FALSE]
NoOrder == [symbol |-> Universe[1], qty |-> 0]

Larger(a, b) == IF a > b THEN a ELSE b
Smaller(a, b) == IF a < b THEN a ELSE b

PositionOf(b, s) == IF Open(b.shorts[s]) THEN b.shorts[s] ELSE b.longs[s]
IsOpen(b, s) == Open(b.longs[s]) \/ Open(b.shorts[s])
AvgPrice(pos) == pos.cost \div pos.qty

(* update_market_prices for one symbol, as a function of the book.          *)
Marked(b, s, px) == MaybeExitShort(MaybeExitLong(MarkToMarket(b, s, px), s), s)

(* What hangs on a Position object goes with it.                            *)
Forget(b, t) == [s \in Symbols |-> IF IsOpen(b, s) THEN t[s] ELSE NoTrail]
ForgetAge(b, a) == [s \in Symbols |-> IF IsOpen(b, s) THEN a[s] ELSE 0]

BacktestInit ==
  /\ book = [cash |-> InitialCash, realized |-> 0, trades |-> 0,
             longs |-> [s \in Symbols |-> Flat], shorts |-> [s \in Symbols |-> Flat]]
  /\ \E b \in Bars \ {NoBar} : latestPrices = [s \in Symbols |-> b.close]
  /\ entryFees = 0
  /\ orders = 0
  /\ trail = [s \in Symbols |-> NoTrail]
  /\ age = [s \in Symbols |-> 0]
  /\ pc = "day"
  /\ day = 0
  /\ bars = [s \in Symbols |-> NoBar]
  /\ context \in Contexts
  /\ cursor = 1
  /\ pending = NoOrder
  /\ baseline = [start |-> InitialCash, peak |-> InitialCash]
  /\ recorded = InitialCash
  /\ added = {}

-----------------------------------------------------------------------------
(* A new day: run                                                           *)

StartDay ==
  /\ pc = "day"
  /\ day < MaxDays
  /\ day' = day + 1
  /\ bars' \in [Symbols -> Bars]
  /\ context' \in Contexts
  /\ baseline' = [baseline EXCEPT !.start = Equity(book)]
  /\ age' = [s \in Symbols |->
              IF IsOpen(book, s) /\ bars'[s] # NoBar THEN age[s] + 1 ELSE age[s]]
  /\ pc' = "exits"
  /\ cursor' = 1
  /\ UNCHANGED <<ledger, trail, pending, recorded, added>>

-----------------------------------------------------------------------------
(* _process_intraday_exits                                                  *)

(* The first look at a position takes its stop for the original one.        *)
Risked(pos, t) ==
  IF t.risk # NoTrail.risk THEN t
  ELSE [risk |-> Larger(AvgPrice(pos) - pos.stop, pos.stop - AvgPrice(pos)), moved |-> FALSE]

(* A gain of one risk, at the last mark, moves the stop to breakeven.       *)
AtBreakeven(pos, t, isShort) ==
  /\ t.risk > 0
  /\ \/ t.moved
     \/ IF isShort THEN pos.last <= AvgPrice(pos) - t.risk
        ELSE pos.last >= AvgPrice(pos) + t.risk

(* Mutant of TrailedStop: the stop trails, and never goes to breakeven.     *)
TrailedStopOnly(pos, t, isShort) ==
  IF ~AtBreakeven(pos, t, isShort) THEN pos.stop
  ELSE IF isShort THEN Smaller(pos.stop, pos.last + (3 * t.risk) \div 2)
  ELSE Larger(pos.stop, pos.last - (3 * t.risk) \div 2)

(* From then on it trails one and a half risks behind, and never back.      *)
TrailedStop(pos, t, isShort) ==
  IF ~AtBreakeven(pos, t, isShort) THEN pos.stop
  ELSE IF isShort
  THEN Smaller(IF t.moved THEN pos.stop ELSE Smaller(pos.stop, AvgPrice(pos)),
               pos.last + (3 * t.risk) \div 2)
  ELSE Larger(IF t.moved THEN pos.stop ELSE Larger(pos.stop, AvgPrice(pos)),
              pos.last - (3 * t.risk) \div 2)

(* Mutant of ReachedPrice: the target is looked at first.                   *)
ReachedPriceTargetFirst(pos, bar, isShort) ==
  IF isShort
  THEN IF pos.target # NoTarget /\ bar.low <= pos.target THEN pos.target
       ELSE IF bar.high >= pos.stop THEN pos.stop ELSE NoPrice
  ELSE IF pos.target # NoTarget /\ bar.high >= pos.target THEN pos.target
       ELSE IF bar.low <= pos.stop THEN pos.stop ELSE NoPrice

(* Mutant of Overstayed: the bar of the entry is not counted.              *)
OverstayedLate(s) == age[s] > MaxAge + 1

(* The price the bar reached: the stop before the target.                   *)
ReachedPrice(pos, bar, isShort) ==
  IF isShort
  THEN IF bar.high >= pos.stop THEN pos.stop
       ELSE IF pos.target # NoTarget /\ bar.low <= pos.target THEN pos.target ELSE NoPrice
  ELSE IF bar.low <= pos.stop THEN pos.stop
       ELSE IF pos.target # NoTarget /\ bar.high >= pos.target THEN pos.target ELSE NoPrice

Overstayed(s) == age[s] > MaxAge

(* Trail the stop, then exit at the price reached, or at the close of a     *)
(* position that has been open for too long.                                *)
ExitsOf(s) ==
  LET isShort == Open(book.shorts[s])
      pos     == PositionOf(book, s)
      t       == Risked(pos, trail[s])
      stopped == [pos EXCEPT !.stop = TrailedStop(pos, t, isShort)]
      b       == IF isShort THEN WithShort(book, s, stopped) ELSE WithLong(book, s, stopped)
      price   == ReachedPrice(stopped, bars[s], isShort)
      after   == IF price # NoPrice THEN Marked(b, s, price)
                 ELSE IF ~Overstayed(s) THEN b
                 ELSE IF isShort THEN ExitShort(b, s, pos.qty, bars[s].close)
                 ELSE ExitLong(b, s, pos.qty, bars[s].close)
  IN  /\ IsOpen(book, s)
      /\ bars[s] # NoBar
      /\ book' = after
      /\ latestPrices' = IF price # NoPrice THEN [latestPrices EXCEPT ![s] = price]
                         ELSE latestPrices
      /\ trail' = Forget(after, [trail EXCEPT ![s] =
                    [risk |-> t.risk, moved |-> AtBreakeven(pos, t, isShort)]])
      /\ age' = ForgetAge(after, age)
      /\ UNCHANGED <<entryFees, orders>>

(* One position after the other; the exits do not depend on each other.     *)
IntradayExits ==
  /\ pc = "exits"
  /\ cursor <= Len(Universe)
  /\ \/ ExitsOf(Universe[cursor])
     \/ /\ ~IsOpen(book, Universe[cursor]) \/ bars[Universe[cursor]] = NoBar
        /\ UNCHANGED <<ledger, trail, age>>
  /\ cursor' = cursor + 1
  /\ added' = {s \in added : IsOpen(book', s)}
  /\ UNCHANGED <<pc, today, pending, baseline, recorded>>

(* The market is classified by yesterday.  On an unclassified day nothing   *)
(* is traded, and nothing is marked either.                                 *)
Classify ==
  /\ pc = "exits"
  /\ cursor > Len(Universe)
  /\ \/ /\ context.regime = "UNKNOWN"
        /\ recorded' = Equity(book)
        /\ pc' = "day"
     \/ /\ context.regime # "UNKNOWN"
        /\ pc' = "signals"
        /\ UNCHANGED recorded
  /\ cursor' = 1
  /\ UNCHANGED <<ledger, trail, age, today, pending, baseline, history>>

-----------------------------------------------------------------------------
(* The signals of yesterday's bars                                          *)

(* The market filter of longs, in three tiers.                              *)
AllowAny == context.above200
AllowRange == context.above200 /\ context.rising50
AllowTrend ==
  /\ context.above200 /\ context.above50 /\ context.rising50
  /\ context.calm /\ context.persistent /\ context.broad

MarketBlocks(signal) ==
  /\ signal.side = "BUY"
  /\ \/ ~AllowAny
     \/ context.regime = "TREND" /\ ~AllowTrend
     \/ context.regime \in {"RANGE", "VOLATILE"} /\ ~AllowRange

(* The stock itself must trend for a long in a trend, and Nifty for a       *)
(* breakout.                                                                *)
AdxBlocks(signal) ==
  /\ signal.side = "BUY"
  /\ \/ context.regime = "TREND" /\ ~context.stockTrends
     \/ signal.breakout /\ ~context.strong

(* The open has passed the stop already.                                    *)
GapBlocks(signal) ==
  \/ signal.side = "BUY" /\ signal.stop >= signal.entry
  \/ signal.side = "SELL" /\ signal.stop <= signal.entry

(* At the open the reward is less than 1.2 times the risk.                  *)
PoorReward(signal) ==
  LET sign   == IF signal.side = "BUY" THEN 1 ELSE -1
      reward == sign * (signal.target - signal.entry)
      risk   == sign * (signal.entry - signal.stop)
  IN  signal.target # NoTarget /\ risk > 0 /\ 5 * reward < 6 * risk

(* While trends are blocked, signals of a range get half as much again.     *)
Boosted == ~AllowTrend /\ context.regime = "RANGE"

SizedQty(signal) ==
  LET qty == PositionSize(Equity(book), signal)
  IN  IF Boosted THEN (3 * qty) \div 2 ELSE qty

EnginePortfolio ==
  [equity |-> Equity(book), starting_equity_today |-> baseline.start,
   peak_equity |-> baseline.peak,
   open_positions |-> {s \in Symbols : IsOpen(book, s)},
   last_exit_by_symbol |-> [s \in Symbols |-> NoData], halted |-> FALSE]

(* Half past ten, a calm market and a fresh feed, whatever the day was.     *)
(* Exits are stamped 15:30 of an earlier day: no cooldown lasts that long.  *)
EngineMarket(s) ==
  [now |-> Hours.trading_start, last_tick_age_seconds |-> 0,
   nifty_change_pct_15m |-> 0, vix_change_pct_15m |-> 0,
   adv |-> Adv[s], spread_pct |-> NoData]

CheckGuardrails(signal, qty) ==
  Allowed(signal, qty, EnginePortfolio, EngineMarket(signal.symbol))

(* Some strategy, at the cursor or further on, has a signal for its symbol. *)
SymbolAt(i) == Universe[((i - 1) \div NStrategies) + 1]

(* A signal is taken on at the price of today's open, or rejected.          *)
Evaluate ==
  /\ pc = "signals"
  /\ orders < MaxOrders
  /\ \E i \in cursor..(Len(Universe) * NStrategies), x \in Signals :
       LET s      == SymbolAt(i)
           signal == [symbol |-> s, side |-> x.side, stop |-> x.stop, target |-> x.target,
                      breakout |-> x.breakout, entry |-> bars[s].open]
           qty    == SizedQty(signal)
           taken  == /\ ~MarketBlocks(signal) /\ ~AdxBlocks(signal)
                     /\ ~GapBlocks(signal) /\ ~PoorReward(signal)
                     /\ qty # 0
                     /\ CheckGuardrails(signal, qty)
       IN  /\ bars[s] # NoBar
           /\ cursor' = i + 1
           /\ \/ /\ taken
                 /\ pending' = [symbol |-> s, side |-> x.side, qty |-> qty,
                                stop |-> x.stop, target |-> x.target]
                 /\ pc' = "price"
                 /\ UNCHANGED orders
              \/ /\ ~taken
                 /\ orders' = orders + 1
                 /\ UNCHANGED <<pending, pc>>
  /\ UNCHANGED <<book, latestPrices, entryFees, trail, age, today, baseline, recorded, history>>

(* The broker is told today's open first: a position of the symbol may exit.*)
PriceOrder ==
  LET s == pending.symbol
      after == Marked(book, s, bars[s].open)
  IN  /\ pc = "price"
      /\ latestPrices' = [latestPrices EXCEPT ![s] = bars[s].open]
      /\ book' = after
      /\ trail' = Forget(after, trail)
      /\ age' = ForgetAge(after, age)
      /\ added' = {x \in added : IsOpen(after, x)}
      /\ pc' = "place"
      /\ UNCHANGED <<entryFees, orders, today, cursor, pending, baseline, recorded>>

BrokerFills ==
  LET o == pending IN
  \/ o.side = "BUY" /\ (BuyLong(o.symbol, o.qty, o.stop, o.target) \/ BuyToCover(o.symbol, o.qty))
  \/ o.side = "SELL" /\ (SellShort(o.symbol, o.qty, o.stop, o.target) \/ SellLong(o.symbol, o.qty))

(* No buying power, or fewer shares to sell than ordered.                   *)
BrokerRejects ==
  LET o    == pending
      fill == ApplySlippage(latestPrices[o.symbol], o.side)
      cost == o.qty * fill + ComputeCharges(o.side, o.qty, fill, FALSE)
  IN  \/ o.side = "BUY" /\ ~Open(book.shorts[o.symbol]) /\ BuyingPower(book) < cost
      \/ o.side = "SELL" /\ ~Open(book.longs[o.symbol]) /\ BuyingPower(book) < cost
      \/ o.side = "SELL" /\ Open(book.longs[o.symbol]) /\ book.longs[o.symbol].qty < o.qty

PlaceOrder ==
  /\ pc = "place"
  /\ \/ BrokerFills
     \/ /\ BrokerRejects
        /\ orders' = orders + 1
        /\ UNCHANGED <<book, latestPrices, entryFees>>
  /\ LET s == pending.symbol
         replaced == pending.side = "SELL" /\ Open(book'.shorts[s]) /\ book' # book
     IN  /\ trail' = [Forget(book', trail) EXCEPT ![s] = IF replaced THEN NoTrail ELSE @]
         /\ age' = [ForgetAge(book', age) EXCEPT ![s] = IF replaced THEN 0 ELSE @]
         /\ added' = {x \in added : IsOpen(book', x) /\ ~(x = s /\ replaced)}
                       \cup {x \in {s} : book'.longs[x].qty > book.longs[x].qty /\ Open(book.longs[x])}
  /\ pending' = NoOrder
  /\ pc' = "signals"
  /\ UNCHANGED <<today, cursor, baseline, recorded>>

-----------------------------------------------------------------------------
(* The close                                                                *)

NoMoreSignals ==
  /\ pc = "signals"
  /\ pc' = "close"
  /\ cursor' = 1
  /\ UNCHANGED <<ledger, trail, age, today, pending, baseline, recorded, history>>

(* Every symbol is marked at its close, which may close its position at the *)
(* stop or target, ...                                                      *)
MarkClose ==
  /\ pc = "close"
  /\ cursor <= Len(Universe)
  /\ LET s     == Universe[cursor]
         after == IF bars[s] = NoBar THEN book ELSE Marked(book, s, bars[s].close)
     IN  /\ book' = after
         /\ latestPrices' = IF bars[s] = NoBar THEN latestPrices
                            ELSE [latestPrices EXCEPT ![s] = bars[s].close]
         /\ trail' = Forget(after, trail)
         /\ age' = ForgetAge(after, age)
         /\ added' = {x \in added : IsOpen(after, x)}
  /\ cursor' = cursor + 1
  /\ UNCHANGED <<entryFees, orders, pc, today, pending, baseline, recorded>>

(* ... and the day's equity is recorded.                                    *)
EndDay ==
  /\ pc = "close"
  /\ cursor > Len(Universe)
  /\ recorded' = Equity(book)
  /\ baseline' = [baseline EXCEPT !.peak = Larger(@, Equity(book))]
  /\ pc' = "day"
  /\ cursor' = 1
  /\ UNCHANGED <<ledger, trail, age, today, pending, added>>

BacktestNext ==
  \/ StartDay \/ IntradayExits \/ Classify
  \/ Evaluate \/ PriceOrder \/ PlaceOrder
  \/ NoMoreSignals \/ MarkClose \/ EndDay

BacktestSpec == BacktestInit /\ [][BacktestNext]_engineVars

-----------------------------------------------------------------------------
(* What a backtest may do to its account, whatever the bars and signals are *)

(* Once its stop has been moved to breakeven a trade cannot lose any more:  *)
(* however it is closed, by the trailed stop, the target, its age or an     *)
(* opposite signal, it does not lower the realized result, unless it has    *)
(* been added to (_process_intraday_exits; without charges and slippage).   *)
NoLossAfterBreakeven ==
  [][\A s \in Symbols :
       trail[s].moved /\ s \notin added /\ IsOpen(book, s) /\ ~IsOpen(book', s)
         => book'.realized >= book.realized]_engineVars

(* Whatever happens to an open position, but for an order in its symbol,    *)
(* its stop never moves away from the price.                                *)
StopsOnlyTighten ==
  [][\A s \in Symbols :
       pc # "place" \/ pending.symbol # s =>
         /\ Open(book.longs[s]) /\ Open(book'.longs[s])
              => book'.longs[s].stop >= book.longs[s].stop
         /\ Open(book.shorts[s]) /\ Open(book'.shorts[s])
              => book'.shorts[s].stop <= book.shorts[s].stop]_engineVars

(* A bar that reaches the stop in force pays the stop and nothing better,   *)
(* also when it reaches the target as well.                                 *)
PessimisticBars ==
  [][\A s \in Symbols :
       LET pos == PositionOf(book, s)
           t == Risked(pos, trail[s])
           stop == TrailedStop(pos, t, Open(book.shorts[s]))
       IN  pc = "exits" /\ IsOpen(book, s) /\ bars[s] # NoBar /\ cursor' > cursor
           /\ Universe[cursor] = s
           /\ (IF Open(book.shorts[s]) THEN bars[s].high >= stop ELSE bars[s].low <= stop)
           => /\ ~IsOpen(book', s)
              /\ book'.realized - book.realized
                   <= (IF Open(book.shorts[s]) THEN pos.cost - pos.qty * stop
                       ELSE pos.qty * stop - pos.cost)]_engineVars

(* A stop is kept to: it only tightens, and a bar that reaches it pays it.  *)
StopsAreKept == StopsOnlyTighten /\ PessimisticBars

(* The boost of range signals never reaches the broker beyond its rounding: *)
(* an unboosted quantity fills one of the two limits to the last share, so  *)
(* that the guardrails turn half as much again away.                        *)
BoostNeverTrades ==
  pc = "price" /\ Boosted => pending.qty < 6

(* When the day's signals are taken on no position is older than MaxAge of  *)
(* its bars, and the equity that a classified day records is the account's  *)
(* value at its closes (_check_time_exits, _mark_to_market).                *)
DayIsSettled ==
  /\ pc \in {"signals", "price", "place", "close"} =>
       \A s \in Symbols : IsOpen(book, s) /\ bars[s] # NoBar => age[s] <= MaxAge
  /\ pc = "day" /\ day > 0 /\ context.regime # "UNKNOWN" =>
       LET price(s, pos) == IF bars[s] = NoBar THEN pos.last ELSE bars[s].close
           worth(s) == book.longs[s].qty * price(s, book.longs[s])
                       + book.shorts[s].cost
                       - book.shorts[s].qty * price(s, book.shorts[s])
       IN  recorded = book.cash + SumFunction([s \in Symbols |-> worth(s)])
=============================================================================
