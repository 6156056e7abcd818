----------------------------- MODULE SignalPipeline ----------------------------
(***************************************************************************)
(* From a closed candle to the order that is checked: the candle handler of *)
(* the agent (core/execution/orchestrator.py) classifies the regime, asks   *)
(* every strategy the regime has, drops what the index forbids, and hands   *)
(* each signal to sizing and the guardrails, which store what they decided. *)
(* All strategies are asked here, those that only the backtest engine       *)
(* builds among them; the agent hands on what its own have found.           *)
(*                                                                          *)
(* The account's equity walks on its own here: what happens between a       *)
(* signal and the next is the other modules' business.                      *)
(***************************************************************************)
EXTENDS Strategies, GuardrailsProps, DecisionTrace

CONSTANTS
  Enabled,     \* strategies that the configuration enables
  Histories,   \* bars of the warm-up
  Readings,    \* what the index and the feeds around it can say
  Bars,        \* shapes of a new bar: gap, body, wicks, volume
  Contexts,    \* portfolios and markets that an order can meet
  MinHistory,  \* bars below which the handler returns
  MaxBars      \* bound: bars of a behaviour, below the 500 that the
               \* aggregator keeps before it slides (aggregator.py:42)

VARIABLES
  candles,   \* the aggregator's history of the symbol
  reading,   \* the index at the last close
  handed,    \* the signals of the last close that went on to sizing
  context    \* the portfolio and market of the order at hand; NoContext: none

pipeline == <<sizing, candles, reading, handed, context>>

NoContext == [halted |-> FALSE]

(* What _handle_signal puts together for the check.                         *)
PortfolioNow ==
  [equity |-> equity, starting_equity_today |-> context.start,
   peak_equity |-> context.peak, open_positions |-> context.open,
   last_exit_by_symbol |-> [symbol |-> context.lastExit], halted |-> context.halted]

Stored == SignalRow(signal, FirstRejection(signal, Sized, PortfolioNow, context.market))

(* The shape of a bar after a close. Prices stay above zero.                *)
Shaped(close, shape) ==
  LET open == close + shape.gap
      end  == open + shape.body
  IN  [open |-> open, close |-> end, high |-> Max({open, end}) + shape.upper,
       low |-> Min({open, end}) - shape.lower, volume |-> shape.volume]

(* vix or 15.0: a zero is a VIX that was never fetched.                     *)
RegimeOf(r) == Classify(r.bars, r.adx, r.width, IF r.vix = 0 THEN 15 ELSE r.vix)

(* _build_strategies, the agent's and the backtest engine's: each knows     *)
(* some of the strategies, and of those the enabled ones are built.         *)
AgentBuilds ==
  Enabled \cap
    {"trend_breakout", "mean_reversion", "volatility_compression", "supertrend_short",
     "rsi_bounce", "vix_spike_bounce", "momentum_strength", "nr_pattern",
     "volume_breakout_confirm", "gap_and_hold"}

EngineBuilds ==
  Enabled \cap
    {"trend_breakout", "mean_reversion", "volatility_compression", "ema_crossover",
     "rsi_momentum", "bb_squeeze", "supertrend", "obv_trend", "supertrend_short",
     "rsi_bounce", "momentum_strength", "nr_pattern", "volume_breakout_confirm",
     "gap_and_hold"}

(* _nifty_market_filter                                                     *)
AllowAny(r) == r.days => r.above200
AllowRange(r) == r.days => r.above200 /\ r.rising50
AllowTrend(r) ==
  r.days => /\ r.above200 /\ r.above50 /\ r.rising50
            /\ ~r.putcall /\ r.vix < 18 /\ ~r.selling

(* What the handler lets a buy through; shorts pass unasked.                *)
Admitted(found, r) ==
  \/ found.side = "SELL"
  \/ /\ found.side = "BUY"
     /\ AllowAny(r)
     /\ RegimeOf(r) = "TREND" => AllowTrend(r)
     /\ RegimeOf(r) \in {"RANGE", "VOLATILE"} => AllowRange(r)
     /\ ~r.blackout

NothingHanded == [name \in StrategyNames |-> NoSignal]

(* _on_candle_close: what is handed on, by strategy.                        *)
Handed(c, r) ==
  LET found == Evaluated(c, RegimeOf(r), r.trends)
  IN  [name \in StrategyNames |->
         IF Len(c) >= MinHistory /\ Admitted(found[name], r) THEN found[name] ELSE NoSignal]

(* A bar as the feeds deliver it.                                           *)
BarType == [open: Nat, close: Nat, high: Nat, low: Nat, volume: Nat]
IsBar(b) ==
  /\ b \in BarType
  /\ 0 < b.low
  /\ b.low <= b.open /\ b.open <= b.high
  /\ b.low <= b.close /\ b.close <= b.high

ASSUME PipelineAssumption ==
  /\ MinHistory \in Nat /\ MaxBars \in Nat
  /\ \A c \in Histories :
       /\ Len(c) >= 2
       /\ c \in Seq(BarType)
       /\ \A i \in 1..Len(c) : IsBar(c[i])
  /\ Bars \subseteq [gap: Int, body: Int, upper: Nat, lower: Nat, volume: Nat]
  /\ \A x \in Contexts : x # NoContext
  /\ EntryPrices \cap StopPrices # {}
  /\ Enabled \subseteq StrategyNames

-----------------------------------------------------------------------------

NoOrder ==
  LET price == CHOOSE p \in EntryPrices : p \in StopPrices
  IN  [symbol |-> "symbol", side |-> "BUY", entry |-> price, stop |-> price]

PipelineInit ==
  /\ equity = MaxEquity
  /\ signal = NoOrder
  /\ candles \in Histories
  /\ reading \in Readings
  /\ handed = Handed(candles, reading)
  /\ context = NoContext

(* A candle closes; what the index says is read anew.                       *)
CandleClose ==
  /\ Len(candles) < MaxBars
  /\ context = NoContext
  /\ \E shape \in Bars :
       LET bar == Shaped(Latest(candles).close, shape)
       IN  bar.low > 0 /\ candles' = Append(candles, bar)
  /\ reading' \in Readings
  /\ handed' = Handed(candles', reading')
  /\ UNCHANGED <<sizing, context>>

(* _handle_signal: sized against the equity, checked and stored. A history  *)
(* that has served its purpose is forgotten.                                *)
HandleOne ==
  /\ context = NoContext
  /\ \E name \in AgentBuilds :
       /\ Fires(handed[name])
       /\ signal' = [symbol |-> "symbol", side |-> handed[name].side,
                     entry |-> handed[name].entry, stop |-> handed[name].stop]
  /\ context' \in Contexts
  /\ candles' = <<>>
  /\ handed' = NothingHanded
  /\ UNCHANGED <<equity, reading>>

(* The account moves on, and with it what the next check would say.         *)
EquityMoves ==
  /\ context # NoContext
  /\ Gain \/ Lose
  /\ UNCHANGED <<candles, reading, handed, context>>

PipelineNext == CandleClose \/ HandleOne \/ EquityMoves

PipelineSpec == PipelineInit /\ [][PipelineNext]_pipeline
=============================================================================
