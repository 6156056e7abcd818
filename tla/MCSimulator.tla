------------------------------ MODULE MCSimulator ------------------------------
EXTENDS Simulator

CONSTANTS s1, s2, s3

MCUniverse == <<s1, s2, s3>>
MCExec ==
  [slippage_bps |-> 0, leverage |-> 4, brokerage |-> 1, min_brokerage |-> 1,
   stt_bps |-> 0, levy_bps |-> 0, stamp_bps |-> 0]
MCRisk ==
  [per_trade_risk_pct |-> 4, max_position_pct |-> 60, max_open_positions |-> 2,
   daily_loss_circuit_pct |-> 50, drawdown_circuit_pct |-> 60,
   stale_tick_seconds |-> 10, black_swan_nifty_move_pct |-> 2,
   black_swan_vix_jump_pct |-> 20, liquidity_max_pct_of_adv |-> 1,
   max_spread_pct |-> 1, signal_cooldown_minutes |-> 30]
MCHours == [trading_start |-> 9 * 60 + 15, no_new_entries_after |-> 14 * 60 + 45]
MCSignals ==
  {[stop |-> 8, target |-> 0, offset |-> 0], [stop |-> 9, target |-> 11, offset |-> 2]}
MCPrices == {8, 12}
MCQuantities == 1..20
=============================================================================
