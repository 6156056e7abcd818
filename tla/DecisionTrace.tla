----------------------------- MODULE DecisionTrace -----------------------------
(***************************************************************************)
(* The checklist a user sees for a stored signal                            *)
(* (core/analytics/decision_trace.py), rebuilt from the one reason the row  *)
(* holds, beside the check that gave the reason (Guardrails.check).         *)
(***************************************************************************)
EXTENDS Guardrails, Sequences

(* Mutant of RuleOrder: the cooldown is listed before the circuits.         *)
RuleOrderSwapped ==
  <<"global_halt", "qty_positive", "stop_loss_required", "market_window", "stale_data",
    "black_swan_nifty", "black_swan_vix", "max_open_positions", "per_trade_risk",
    "max_position_size", "liquidity", "spread", "signal_cooldown",
    "daily_loss_circuit", "drawdown_circuit", "duplicate_position">>

(* _RULE_ORDER                                                              *)
RuleOrder ==
  <<"global_halt", "qty_positive", "stop_loss_required", "market_window", "stale_data",
    "black_swan_nifty", "black_swan_vix", "max_open_positions", "per_trade_risk",
    "max_position_size", "liquidity", "spread", "daily_loss_circuit",
    "drawdown_circuit", "signal_cooldown", "duplicate_position">>

NiftyMoved(market) ==
  \/ market.nifty_change_pct_15m > Risk.black_swan_nifty_move_pct
  \/ -market.nifty_change_pct_15m > Risk.black_swan_nifty_move_pct

(* What each rule of check says of an order.                                *)
Rejects(rule, signal, qty, portfolio, market) ==
  CASE rule = "global_halt"        -> GlobalHalt(portfolio)
    [] rule = "qty_positive"       -> QtyNotPositive(qty)
    [] rule = "stop_loss_required" -> NoStopLoss(signal)
    [] rule = "market_window"      -> OutsideMarketWindow(market)
    [] rule = "stale_data"         -> StaleData(market)
    [] rule = "black_swan_nifty"   -> NiftyMoved(market)
    [] rule = "black_swan_vix"     -> BlackSwan(market) /\ ~NiftyMoved(market)
    [] rule = "max_open_positions" -> TooManyPositions(signal, portfolio)
    [] rule = "per_trade_risk"     -> TooMuchRisk(signal, qty, portfolio)
    [] rule = "max_position_size"  -> TooLarge(signal, qty, portfolio)
    [] rule = "liquidity"          -> Illiquid(qty, market)
    [] rule = "spread"             -> WideSpread(market)
    [] rule = "daily_loss_circuit" -> DailyLossCircuit(portfolio)
    [] rule = "drawdown_circuit"   -> DrawdownCircuit(portfolio)
    [] rule = "signal_cooldown"    -> CoolingDown(signal, portfolio, market)
    [] rule = "duplicate_position" -> FALSE

(* The rules in the order in which check calls them.                        *)
CheckOrderOfRules ==
  <<"global_halt", "qty_positive", "stop_loss_required", "market_window", "stale_data",
    "black_swan_nifty", "black_swan_vix", "max_open_positions", "per_trade_risk",
    "max_position_size", "liquidity", "spread", "daily_loss_circuit",
    "drawdown_circuit", "signal_cooldown", "duplicate_position">>

NoRule == "none"

(* The rule that check returns with, if one does.                           *)
FirstRejection(signal, qty, portfolio, market) ==
  LET rejecting == {i \in 1..Len(CheckOrderOfRules) :
                      Rejects(CheckOrderOfRules[i], signal, qty, portfolio, market)}
  IN  IF rejecting = {} THEN NoRule
      ELSE CheckOrderOfRules[CHOOSE i \in rejecting : \A j \in rejecting : i <= j]

(* The row that record_signal writes.                                       *)
SignalRow(signal, rejection) ==
  [side |-> signal.side, entry |-> signal.entry, stop |-> signal.stop,
   accepted |-> rejection = NoRule, reason |-> rejection]

(* _check; the stop is compared again, whatever rule has fired.             *)
Passed(row, rule) ==
  IF row.reason = rule THEN "no"
  ELSE IF rule = "stop_loss_required" /\ row.stop # 0 /\ row.entry # 0
  THEN IF \/ row.side = "BUY" /\ row.stop < row.entry
          \/ row.side # "BUY" /\ row.stop > row.entry
       THEN "yes" ELSE "no"
  ELSE IF row.accepted THEN "yes" ELSE "unknown"

Position(rule) == CHOOSE i \in 1..Len(RuleOrder) : RuleOrder[i] = rule

(* _build_guardrail_checklist and _mark_unreached                           *)
Checklist(row) ==
  [i \in 1..Len(CheckOrderOfRules) |->
     LET rule == CheckOrderOfRules[i]
     IN  [rule |-> rule, passed |-> Passed(row, rule),
          reached |-> ~(/\ ~row.accepted
                        /\ Position(rule) > Position(row.reason)
                        /\ Passed(row, rule) = "unknown")]]
=============================================================================
