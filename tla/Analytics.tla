------------------------------- MODULE Analytics -------------------------------
(***************************************************************************)
(* What the reports say of a list of closed trades: the per-strategy table  *)
(* of the MCP server and its totals, the extended metrics and attributions  *)
(* of the API and the dashboard, the monthly and sector tables and the      *)
(* end-of-day report. Each counts anew, with code of its own:               *)
(* core/analytics/metrics.py, core/analytics/performance_report.py and      *)
(* mcp_server/tools.py.                                                     *)
(*                                                                          *)
(* A trade is [pnl, strategy, symbol, closed], closed the day it ended, and *)
(* what Reports adds; a list is in the order of closing. Rounding for       *)
(* display is left out.                                                     *)
(***************************************************************************)
EXTENDS Metrics

CONSTANTS
  DaysPerMonth,
  RegimeOfStrategy,   \* _STRATEGY_REGIME_MAP
  SectorOfSymbol      \* NIFTY50_SECTORS

ASSUME AnalyticsAssumption == DaysPerMonth \in Nat \ {0}

ClosedTrade ==
  [pnl : Int, strategy : STRING, symbol : STRING, closed : Nat, part : Nat, charges : Int]

Pnls(trades) == [i \in DOMAIN trades |-> trades[i].pnl]

(* One group of trades for every value of a key.                            *)
GroupBy(trades, Key(_)) ==
  [k \in {Key(trades[i]) : i \in DOMAIN trades} |->
     Select(trades, LAMBDA t : Key(t) = k)]

-----------------------------------------------------------------------------
(* The tables of the MCP server                                             *)

(* _pf: without a loss, the profit itself.                                  *)
Pf(profit, loss) ==
  IF loss < 0 THEN <<profit, -loss>> ELSE IF profit > 0 THEN <<profit, 1>> ELSE Zero

(* strategy_performance: what did not win lost.                             *)
StrategyPerformance(trades) ==
  LET groups == GroupBy(trades, LAMBDA t : t.strategy)
      row(ts) == LET pnls == Pnls(ts)
                     rest == Select(pnls, LAMBDA p : p <= 0)
                 IN  [trades |-> Len(ts), win_rate |-> WinRate(pnls),
                      profit_factor |-> Pf(Total(Wins(pnls)), Total(rest)),
                      net_pnl |-> Total(pnls)]
  IN  [s \in DOMAIN groups |-> row(groups[s])]

Sign(p) == IF p > 0 THEN 1 ELSE -1

(* current_streak of trade_analytics: from the last trade backwards, while  *)
(* the sign is the same.                                                    *)
CurrentStreak(pnls) ==
  LET n == Len(pnls)
      broken == {i \in 1..n : Sign(pnls[i]) # Sign(pnls[n])}
  IN  IF n = 0 THEN 0
      ELSE IF broken = {} THEN Sign(pnls[n]) * n
      ELSE Sign(pnls[n]) * (n - Max(broken))

BestOf(totals) ==
  CHOOSE k \in DOMAIN totals : \A j \in DOMAIN totals : totals[j] <= totals[k]

TotalsBy(trades, Key(_)) ==
  LET groups == GroupBy(trades, Key)
  IN  [k \in DOMAIN groups |-> Total(Pnls(groups[k]))]

(* trade_analytics, of a list that is not empty.                            *)
TradeAnalytics(trades) ==
  LET pnls     == Pnls(trades)
      strategy == TotalsBy(trades, LAMBDA t : t.strategy)
  IN  [trade_count |-> Len(trades), total_net_pnl |-> Total(pnls),
       gross_profit |-> Total(Wins(pnls)), gross_loss |-> Total(Losses(pnls)),
       best_trade |-> Max(Range(pnls)), worst_trade |-> Min(Range(pnls)),
       current_streak |-> CurrentStreak(pnls),
       best_strategy_pnl |-> strategy[BestOf(strategy)]]

(* Mutant of MaxDdScan: the peak stays where the account began.             *)
MaxDdScanFromStart(pnls) ==
  LET step(s, p) ==
        LET running == s.running + p
        IN  [running |-> running, dd |-> IF -running > s.dd THEN -running ELSE s.dd]
  IN  FoldLeft(step, [running |-> 0, dd |-> 0], pnls).dd

(* get_trade_stats: the largest loss from a peak, trade by trade, the       *)
(* account before the first trade being a peak.                             *)
MaxDdScan(pnls) ==
  LET step(s, p) ==
        LET running == s.running + p
            peak    == IF running > s.peak THEN running ELSE s.peak
        IN  [running |-> running, peak |-> peak,
             dd |-> IF peak - running > s.dd THEN peak - running ELSE s.dd]
  IN  FoldLeft(step, [running |-> 0, peak |-> 0, dd |-> 0], pnls).dd

(* Its other columns, from one SELECT: a NULL is reported as 0.             *)
TradeStats(trades) ==
  LET pnls == Pnls(trades)
      loss == -Total(Losses(pnls))
  IN  [total_trades |-> Len(pnls), total_pnl |-> Total(pnls),
       win_rate |-> WinRate(pnls),
       profit_factor |-> IF loss = 0 THEN Zero ELSE <<Total(Wins(pnls)), loss>>,
       max_dd |-> MaxDdScan(pnls)]

-----------------------------------------------------------------------------
(* The extended metrics                                                     *)

TradingDays(trades) == Ascending({trades[i].closed : i \in DOMAIN trades})

(* The P&L of the days that had trades, and its running sum.                *)
DailyPnl(trades) ==
  LET days == TradingDays(trades)
  IN  [k \in DOMAIN days |->
         Total(Pnls(Select(trades, LAMBDA t : t.closed = days[k])))]

EquityCurve(trades) ==
  LET daily == DailyPnl(trades)
  IN  [k \in DOMAIN daily |-> Total(SubSeq(daily, 1, k))]

PeakAt(curve, i) == Max({curve[j] : j \in 1..i})

(* In per cent of the peak, where the peak is positive.                     *)
Underwater(curve, i) ==
  LET peak == PeakAt(curve, i)
  IN  IF peak > 0 THEN <<100 * (peak - curve[i]), peak>> ELSE Zero

Worse(a, b) == IF AtLeast(a, b) THEN a ELSE b

(* The episodes of _em_drawdown_stats, each with its worst day and its      *)
(* length in days; one that has not ended is closed at the end.             *)
Episodes(curve) ==
  LET step(s, i) ==
        LET dd == Underwater(curve, i)
        IN  IF dd[1] > 0
            THEN [s EXCEPT !.length = @ + 1, !.worst = Worse(dd, @)]
            ELSE IF s.length > 0
            THEN [length |-> 0, worst |-> Zero,
                  done |-> Append(s.done, [worst |-> s.worst, length |-> s.length])]
            ELSE s
      end == FoldLeftDomain(step, [length |-> 0, worst |-> Zero, done |-> <<>>], curve)
  IN  IF end.length = 0 THEN end.done
      ELSE Append(end.done, [worst |-> end.worst, length |-> end.length])

MaxDdPct(curve) == GreatestOf([i \in DOMAIN curve |-> Underwater(curve, i)])

AvgDrawdownDays(curve) ==
  LET lengths == [k \in DOMAIN Episodes(curve) |-> Episodes(curve)[k].length]
  IN  Mean(lengths)

(* _em_max_dd_inr                                                           *)
MaxDdInr(curve) ==
  IF curve = <<>> THEN 0 ELSE Max({PeakAt(curve, i) - curve[i] : i \in DOMAIN curve})

(* _em_streak_stats: a trade without profit or loss ends either streak.     *)
StreakStats(pnls) ==
  LET step(s, p) ==
        LET w == IF p > 0 THEN s.w + 1 ELSE 0
            l == IF p < 0 THEN s.l + 1 ELSE 0
        IN  [w |-> w, l |-> l, wins |-> Max({s.wins, w}), losses |-> Max({s.losses, l})]
  IN  FoldLeft(step, [w |-> 0, l |-> 0, wins |-> 0, losses |-> 0], pnls)

Ratio(n, d) == IF d > 0 THEN <<n, d>> ELSE IF n > 0 THEN Infinite ELSE Zero

(* _em_omega: gains and losses of whole days; 1 when there are neither.     *)
Omega(daily) ==
  LET gains  == Total(Wins(daily))
      losses == -Total(Losses(daily))
  IN  IF losses > 0 THEN <<gains, losses>>
      ELSE IF gains > 0 THEN Infinite ELSE <<1, 1>>

(* compute_extended_metrics, without the roots.                             *)
ExtendedMetrics(trades) ==
  LET pnls    == Pnls(trades)
      wins    == Wins(pnls)
      losses  == Losses(pnls)
      curve   == EquityCurve(trades)
      streaks == StreakStats(pnls)
  IN  [n_trades |-> Len(pnls), total_pnl |-> Total(pnls), win_rate |-> WinRate(pnls),
       win_loss_ratio |-> Ratio(Len(wins), Len(losses)),
       profit_factor |-> Ratio(Total(wins), -Total(losses)),
       expectancy |-> Mean(pnls),
       largest_win |-> Max(Range(wins) \cup {0}),
       largest_loss |-> Min(Range(losses) \cup {0}),
       consecutive_wins_max |-> streaks.wins,
       consecutive_losses_max |-> streaks.losses,
       max_drawdown |-> MaxDdPct(curve),
       drawdown_duration_avg_days |-> AvgDrawdownDays(curve),
       recovery_factor |-> Ratio(Total(pnls), MaxDdInr(curve)),
       omega |-> Omega(DailyPnl(trades))]

StrategyAttribution(trades) ==
  LET groups == GroupBy(trades, LAMBDA t : t.strategy)
  IN  [s \in DOMAIN groups |-> ExtendedMetrics(groups[s])]

(* By the regime a strategy is made for, not the one it traded in.          *)
RegimeAttribution(trades) ==
  LET regime(t) == IF t.strategy \in DOMAIN RegimeOfStrategy
                   THEN RegimeOfStrategy[t.strategy] ELSE "UNKNOWN"
      groups == GroupBy(trades, regime)
  IN  [r \in DOMAIN groups |-> ExtendedMetrics(groups[r])]

MonthlyPnl(trades) ==
  LET groups == GroupBy(trades, LAMBDA t : t.closed \div DaysPerMonth)
  IN  [m \in DOMAIN groups |->
         [pnl |-> Total(Pnls(groups[m])), n_trades |-> Len(groups[m]),
          win_rate |-> WinRate(Pnls(groups[m]))]]

(* monthly_summary, the same table for the MCP server.                      *)
MonthlySummary(trades) ==
  LET groups == GroupBy(trades, LAMBDA t : t.closed \div DaysPerMonth)
      row(ts) == [pnl |-> Total(Pnls(ts)), n_trades |-> Len(ts),
                  win_rate |-> <<100 * Len(Select(ts, LAMBDA t : t.pnl > 0)), Len(ts)>>]
  IN  [m \in DOMAIN groups |-> row(groups[m])]

SectorPerformance(trades) ==
  LET sector(t) == IF t.symbol \in DOMAIN SectorOfSymbol
                   THEN SectorOfSymbol[t.symbol] ELSE "Other"
      groups == GroupBy(trades, sector)
      row(ts) == LET bySymbol == TotalsBy(ts, LAMBDA t : t.symbol)
                 IN  [n_trades |-> Len(ts), win_rate |-> WinRate(Pnls(ts)),
                      pnl |-> Total(Pnls(ts)), best_symbol |-> BestOf(bySymbol)]
  IN  [s \in DOMAIN groups |-> row(groups[s])]

(* _query_strategy_perf of the end-of-day report.                           *)
ReportStrategyPerf(trades) ==
  LET groups == GroupBy(trades, LAMBDA t : t.strategy)
      row(ts) == LET profit == Total(Wins(Pnls(ts)))
                     loss   == -Total(Losses(Pnls(ts)))
                 IN  [trades |-> Len(ts), win_rate |-> WinRate(Pnls(ts)),
                      profit_factor |-> IF loss # 0 THEN <<profit, loss>>
                                        ELSE IF profit # 0 THEN Infinite ELSE Zero,
                      net_pnl |-> Total(Pnls(ts))]
  IN  [s \in DOMAIN groups |-> row(groups[s])]
=============================================================================
