---------------------------- MODULE MCOrchestrator ----------------------------
EXTENDS OrchestratorProps, TLC

Symmetry == Permutations(Symbols)
MCTwoPrices == {9, 12}
MCQuantities == {1}
MCExec ==
  [slippage_bps |-> 0, leverage |-> 1, brokerage |-> 1, min_brokerage |-> 1,
   stt_bps |-> 0, levy_bps |-> 0, stamp_bps |-> 0]
MCRisk ==
  [per_trade_risk_pct |-> 10, max_position_pct |-> 60, max_open_positions |-> 1,
   daily_loss_circuit_pct |-> 6, drawdown_circuit_pct |-> 8,
   stale_tick_seconds |-> 10, black_swan_nifty_move_pct |-> 2,
   black_swan_vix_jump_pct |-> 20, liquidity_max_pct_of_adv |-> 1,
   max_spread_pct |-> 1, signal_cooldown_minutes |-> 30]
(* One loss trips the drawdown circuit, two trip the daily one as well.     *)
MCTwoLosses == [MCRisk EXCEPT !.daily_loss_circuit_pct = 12]
MCHours == [trading_start |-> 2, no_new_entries_after |-> 3]
(* A day that begins with the open.                                        *)
MCFromTheOpen == [trading_start |-> 1, no_new_entries_after |-> 2]
MCLongOnly == {"open_long", "add_long", "close_long"}
MCTwoSided == {"open_long", "close_long", "open_short", "cover"}
=============================================================================
