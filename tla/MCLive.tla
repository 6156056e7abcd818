--------------------------------- MODULE MCLive ---------------------------------
EXTENDS LiveAgent, TLC

MCRisk ==
  [per_trade_risk_pct |-> 2, max_position_pct |-> 20, max_open_positions |-> 1,
   daily_loss_circuit_pct |-> 6, drawdown_circuit_pct |-> 30,
   stale_tick_seconds |-> 10, black_swan_nifty_move_pct |-> 2,
   black_swan_vix_jump_pct |-> 20, liquidity_max_pct_of_adv |-> 1,
   max_spread_pct |-> 1, signal_cooldown_minutes |-> 30]
MCHours == [trading_start |-> 1, no_new_entries_after |-> 2]
=============================================================================
