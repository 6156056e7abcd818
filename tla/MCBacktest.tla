------------------------------ MODULE MCBacktest ------------------------------
EXTENDS Backtest

CONSTANTS s1, s2

MCUniverse == <<s1, s2>>
MCExec ==
  [slippage_bps |-> 0, leverage |-> 1, brokerage |-> 0, min_brokerage |-> 0,
   stt_bps |-> 0, levy_bps |-> 0, stamp_bps |-> 0]
MCRisk ==
  [per_trade_risk_pct |-> 5, max_position_pct |-> 60, max_open_positions |-> 1,
   daily_loss_circuit_pct |-> 50, drawdown_circuit_pct |-> 60,
   stale_tick_seconds |-> 10, black_swan_nifty_move_pct |-> 2,
   black_swan_vix_jump_pct |-> 20, liquidity_max_pct_of_adv |-> 1,
   max_spread_pct |-> 1, signal_cooldown_minutes |-> 30]
MCHours == [trading_start |-> 1, no_new_entries_after |-> 2]
MCAdv == [s \in Symbols |-> NoData]
Bar(o, h, l, c) == [open |-> o, high |-> h, low |-> l, close |-> c]
MCBars == {NoBar, Bar(10, 12, 10, 12), Bar(12, 16, 12, 14), Bar(13, 16, 7, 9), Bar(10, 11, 9, 10)}
Calm(r) ==
  [regime |-> r, above200 |-> TRUE, above50 |-> TRUE, rising50 |-> TRUE, calm |-> TRUE,
   persistent |-> TRUE, broad |-> TRUE, stockTrends |-> TRUE, strong |-> TRUE]
MCContexts == {Calm("UNKNOWN"), Calm("TREND"), [Calm("RANGE") EXCEPT !.above50 = FALSE]}
MCSignals ==
  {[side |-> "BUY", stop |-> 8, target |-> 16, breakout |-> FALSE],
   [side |-> "SELL", stop |-> 12, target |-> 0, breakout |-> TRUE]}
MCPrices == 1..20
MCQuantities == 1..20
=============================================================================
