------------------------------ MODULE Guardrails ------------------------------
(***************************************************************************)
(* The hard limits every order passes (core/risk/guardrails.py) and the     *)
(* position sizing before them (core/risk/sizing.py), as pure operators.    *)
(*                                                                          *)
(* A signal is [symbol, side, entry, stop]; a portfolio is what             *)
(* PortfolioState carries, with the symbols of its open positions; a market *)
(* is a MarketContext. Percentages are whole numbers, and comparisons are   *)
(* multiplied out, so that nothing is rounded but what the code rounds.     *)
(***************************************************************************)
EXTENDS Integers, FiniteSets

CONSTANTS
  Risk,       \* RiskCfg, with signal_cooldown_minutes of ExecutionCfg
  Hours,      \* MarketCfg: trading_start and no_new_entries_after
  LiveMode    \* mode == "live": missing liquidity and spread data reject

ASSUME GuardrailsAssumption ==
  /\ Risk \in [per_trade_risk_pct: Nat, max_position_pct: Nat,
               max_open_positions: Nat, daily_loss_circuit_pct: Nat,
               drawdown_circuit_pct: Nat, stale_tick_seconds: Nat,
               black_swan_nifty_move_pct: Nat, black_swan_vix_jump_pct: Nat,
               liquidity_max_pct_of_adv: Nat, max_spread_pct: Nat,
               signal_cooldown_minutes: Nat]
  /\ Hours \in [trading_start: Nat, no_new_entries_after: Nat]
  /\ LiveMode \in BOOLEAN

NoData == -1

-----------------------------------------------------------------------------
(* Sizing                                                                   *)

RiskPerShare(signal) ==
  LET risk == IF signal.side = "BUY" THEN signal.entry - signal.stop
              ELSE signal.stop - signal.entry
  IN  IF risk > 0 THEN risk ELSE 0

AtLeastZero(n) == IF n > 0 THEN n ELSE 0

(* Mutant of PositionSize: the position cap is left to the guardrails.      *)
PositionSizeByRisk(equity, signal) ==
  LET risk == RiskPerShare(signal)
  IN  IF risk <= 0 THEN 0
      ELSE AtLeastZero((equity * Risk.per_trade_risk_pct) \div (100 * risk))

(* The quantity whose loss at the stop is within the risk budget and whose  *)
(* value is within the position cap.                                        *)
PositionSize(equity, signal) ==
  LET risk   == RiskPerShare(signal)
      byRisk == (equity * Risk.per_trade_risk_pct) \div (100 * risk)
      bySize == (equity * Risk.max_position_pct) \div (100 * signal.entry)
  IN  IF risk <= 0 THEN 0
      ELSE AtLeastZero(IF byRisk < bySize THEN byRisk ELSE bySize)

-----------------------------------------------------------------------------
(* The rules. Each says when it rejects; a budget is let 0.1% over.         *)

GlobalHalt(portfolio) == portfolio.halted

QtyNotPositive(qty) == qty <= 0

NoStopLoss(signal) ==
  \/ signal.stop <= 0
  \/ signal.side = "BUY" /\ signal.stop >= signal.entry
  \/ signal.side = "SELL" /\ signal.stop <= signal.entry

(* Mutant of OutsideMarketWindow: entries are allowed until the close.      *)
BeforeMarketOpen(market) == market.now < Hours.trading_start

OutsideMarketWindow(market) ==
  \/ market.now < Hours.trading_start
  \/ market.now >= Hours.no_new_entries_after

StaleData(market) == market.last_tick_age_seconds > Risk.stale_tick_seconds

BlackSwan(market) ==
  \/ market.nifty_change_pct_15m > Risk.black_swan_nifty_move_pct
  \/ -market.nifty_change_pct_15m > Risk.black_swan_nifty_move_pct
  \/ market.vix_change_pct_15m > Risk.black_swan_vix_jump_pct

(* Mutant of TooManyPositions: one position too many.                       *)
TooManyPositionsByOne(signal, portfolio) ==
  /\ signal.symbol \notin portfolio.open_positions
  /\ Cardinality(portfolio.open_positions) > Risk.max_open_positions

TooManyPositions(signal, portfolio) ==
  /\ signal.symbol \notin portfolio.open_positions
  /\ Cardinality(portfolio.open_positions) >= Risk.max_open_positions

(* Mutant of TooMuchRisk: the risk of one share is compared.                *)
TooMuchRiskPerShare(signal, qty, portfolio) ==
  RiskPerShare(signal) * 100000
    > portfolio.equity * Risk.per_trade_risk_pct * 1001

TooMuchRisk(signal, qty, portfolio) ==
  qty * RiskPerShare(signal) * 100000
    > portfolio.equity * Risk.per_trade_risk_pct * 1001

TooLarge(signal, qty, portfolio) ==
  qty * signal.entry * 100000
    > portfolio.equity * Risk.max_position_pct * 1001

Illiquid(qty, market) ==
  IF market.adv \in {NoData, 0} THEN LiveMode
  ELSE qty > (market.adv * Risk.liquidity_max_pct_of_adv) \div 100

WideSpread(market) ==
  IF market.spread_pct = NoData THEN LiveMode
  ELSE market.spread_pct > Risk.max_spread_pct

DailyLossCircuit(portfolio) ==
  /\ portfolio.starting_equity_today > 0
  /\ (portfolio.equity - portfolio.starting_equity_today) * 100
       < -(Risk.daily_loss_circuit_pct * portfolio.starting_equity_today)

DrawdownCircuit(portfolio) ==
  /\ portfolio.peak_equity > 0
  /\ (portfolio.peak_equity - portfolio.equity) * 100
       > Risk.drawdown_circuit_pct * portfolio.peak_equity

CoolingDown(signal, portfolio, market) ==
  LET last == portfolio.last_exit_by_symbol[signal.symbol]
  IN  /\ last # NoData
      /\ market.now - last < Risk.signal_cooldown_minutes

(* check: the first rule that rejects ends it, so an order is allowed when  *)
(* none does. _check_duplicate_position, the last, allows everything.       *)
Allowed(signal, qty, portfolio, market) ==
  /\ ~GlobalHalt(portfolio)
  /\ ~QtyNotPositive(qty)
  /\ ~NoStopLoss(signal)
  /\ ~OutsideMarketWindow(market)
  /\ ~StaleData(market)
  /\ ~BlackSwan(market)
  /\ ~TooManyPositions(signal, portfolio)
  /\ ~TooMuchRisk(signal, qty, portfolio)
  /\ ~TooLarge(signal, qty, portfolio)
  /\ ~Illiquid(qty, market)
  /\ ~WideSpread(market)
  /\ ~DailyLossCircuit(portfolio)
  /\ ~DrawdownCircuit(portfolio)
  /\ ~CoolingDown(signal, portfolio, market)
=============================================================================
