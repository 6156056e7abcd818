------------------------------- MODULE MCSignals -------------------------------
EXTENDS SignalProps

(* Periods that keep the order of the code's: 14, 20, 9, 21, 10, 20, 50 ... *)
MCPeriods ==
  [atr |-> 3, volume |-> 4, emaFast |-> 2, emaSlow |-> 4, supertrend |-> 3,
   multiplier |-> 1, dmaShort |-> 3, dma |-> 4, dmaLong |-> 7, lookback |-> 2,
   rsi |-> 3, rsiLong |-> 4, bollinger |-> 6, squeeze |-> 4, donchian |-> 4,
   donchianShort |-> 2, obv |-> 4, narrow |-> 4]
MCRegimeCfg == [vix |-> 20, adx |-> 25, width |-> 20]

MCEnabled == StrategyNames

(* Warm-ups: a bar opens where the one before closed.                       *)
Warm(closes) ==
  [i \in 1..Len(closes) |->
     LET open == IF i = 1 THEN closes[1] ELSE closes[i - 1]
     IN  [open |-> open, close |-> closes[i], high |-> Max({open, closes[i]}) + 1,
          low |-> Min({open, closes[i]}) - 1, volume |-> 2]]
MCHistories ==
  {Warm(<<30, 29, 28, 27, 26, 25, 24, 23, 22, 21>>),
   Warm(<<20, 21, 22, 23, 24, 25, 26, 27, 28, 29>>),
   Warm(<<25, 25, 25, 25, 25, 25, 25, 25, 25, 25>>),
   Warm(<<12, 13, 14, 15, 16, 26, 26, 25, 24, 23>>),
   Warm(<<14, 14, 14, 14, 14, 14, 30, 30, 27, 24>>)}

Quiet ==
  [bars |-> TRUE, adx |-> 10, width |-> 30, vix |-> 14, trends |-> TRUE, days |-> TRUE,
   above200 |-> TRUE, above50 |-> TRUE, rising50 |-> TRUE, putcall |-> FALSE,
   selling |-> FALSE, blackout |-> FALSE]
MCReadings ==
  {[Quiet EXCEPT !.adx = 30], [Quiet EXCEPT !.adx = 30, !.above200 = FALSE],
   [Quiet EXCEPT !.width = 10, !.vix = 0], [Quiet EXCEPT !.vix = 25, !.above50 = FALSE]}

Shape(gap, body, upper, lower, volume) ==
  [gap |-> gap, body |-> body, upper |-> upper, lower |-> lower, volume |-> volume]
MCBars ==
  {Shape(0, 1, 0, 0, 6), Shape(0, 2, 0, 0, 6), Shape(0, 4, 0, 0, 6), Shape(1, 0, 1, 0, 3),
   Shape(2, 2, 0, 1, 12), Shape(0, -4, 0, 0, 6), Shape(-2, 1, 0, 1, 2), Shape(0, -1, 1, 1, 2),
   Shape(0, 7, 0, 1, 12), Shape(-5, -2, 0, 0, 9)}

CalmMarket ==
  [now |-> 2, last_tick_age_seconds |-> 0, nifty_change_pct_15m |-> 0,
   vix_change_pct_15m |-> 0, adv |-> NoData, spread_pct |-> NoData]
Idle == [halted |-> FALSE, start |-> 0, peak |-> 0, open |-> {}, lastExit |-> NoData,
         market |-> CalmMarket]
MCContexts ==
  {Idle, [Idle EXCEPT !.halted = TRUE],
   [Idle EXCEPT !.start = 8000, !.peak = 11000, !.lastExit = 1],
   [Idle EXCEPT !.open = {"other"}, !.market.adv = 300],
   [Idle EXCEPT !.market.spread_pct = 2, !.start = 7000],
   [Idle EXCEPT !.market.nifty_change_pct_15m = -3, !.market.vix_change_pct_15m = 30],
   [Idle EXCEPT !.market.vix_change_pct_15m = 30, !.market.last_tick_age_seconds = 0],
   [Idle EXCEPT !.market.last_tick_age_seconds = 60],
   [Idle EXCEPT !.market.now = 3]}

MCEntryPrices == 100..10000
MCStopPrices == -10000..20000
MCRisk ==
  [per_trade_risk_pct |-> 10, max_position_pct |-> 60, max_open_positions |-> 1,
   daily_loss_circuit_pct |-> 6, drawdown_circuit_pct |-> 8,
   stale_tick_seconds |-> 10, black_swan_nifty_move_pct |-> 2,
   black_swan_vix_jump_pct |-> 20, liquidity_max_pct_of_adv |-> 1,
   max_spread_pct |-> 1, signal_cooldown_minutes |-> 30]
MCHours == [trading_start |-> 2, no_new_entries_after |-> 3]
MCMinEquity == -5000
=============================================================================
