---------------------------- MODULE WalkForwardProps ----------------------------
(***************************************************************************)
(* What a walk-forward validation must get right: its own verdict, and the  *)
(* numbers that the reports would give of the same trades.                  *)
(***************************************************************************)
EXTENDS WalkForward, Reports, Preflight

Finished == wf.stage = "pool" /\ Unfinished = {}

(* Whatever the order the workers finish in and whatever windows are left   *)
(* out, the stitched curve ends at the starting equity times the return of  *)
(* every window (_aggregate).                                               *)
StitchedReturn ==
  LET growth(i) == LET ec == windows[i].curve IN Lowest(Last(ec), ec[1])
      ending    == FoldLeft(LAMBDA r, i : Times(r, growth(i)),
                            <<StartingEquity, 1>>, InOrder)
  IN  Finished => Same(EndingEquity(Stitched, StartingEquity), ending)

(* Stitching hides no drawdown: the report's is at least that of every      *)
(* window (_aggregate, compute_metrics).                                    *)
DrawdownNotHidden ==
  Finished =>
    \A i \in DOMAIN windows :
      AtLeast(MaxDrawdown(Stitched),
              MaxDrawdown([j \in DOMAIN windows[i].curve |-> <<windows[i].curve[j], 1>>]))

(* The stitched curve is the whole story of the windows.                    *)
CurveWhole == StitchedReturn /\ DrawdownNotHidden

-----------------------------------------------------------------------------
(* The reports, of the trades of the validation                             *)

Reported(Holds(_)) == Finished /\ AllTrades # <<>> => Holds(AllTrades)

(* Five pieces of code count the same trades and agree: on every strategy's *)
(* win rate and profit, on its profit factor once it has lost something,    *)
(* and month by month (strategy_performance, compute_strategy_attribution,  *)
(* _query_strategy_perf, monthly_summary and compute_monthly_pnl).          *)
SameNumbers ==
  Reported(LAMBDA trades :
    LET table == StrategyPerformance(trades)
        attribution == StrategyAttribution(trades)
        eod == ReportStrategyPerf(trades)
    IN  /\ DOMAIN table = DOMAIN attribution
        /\ DOMAIN table = DOMAIN eod
        /\ \A s \in DOMAIN table :
             /\ Same(table[s].win_rate, attribution[s].win_rate)
             /\ Same(table[s].win_rate, eod[s].win_rate)
             /\ table[s].net_pnl = eod[s].net_pnl
             /\ table[s].net_pnl = attribution[s].total_pnl
             /\ Same(eod[s].profit_factor, attribution[s].profit_factor)
             /\ attribution[s].largest_loss < 0 =>
                  Same(table[s].profit_factor, eod[s].profit_factor)
        /\ MonthlySummary(trades) = MonthlyPnl(trades))

(* Attributed by strategy, regime, month or sector, no trade is lost and    *)
(* none counts twice: the parts add up to the totals that the database's    *)
(* own aggregate gives (get_trade_stats).                                   *)
NothingUnattributed ==
  Reported(LAMBDA trades :
    LET stats == TradeStats(trades)
        byRegime == RegimeAttribution(trades)
        byMonth  == MonthlyPnl(trades)
        bySector == SectorPerformance(trades)
    IN  /\ Total([r \in DOMAIN byRegime |-> byRegime[r].total_pnl]) = stats.total_pnl
        /\ Total([r \in DOMAIN byRegime |-> byRegime[r].n_trades]) = stats.total_trades
        /\ Total([m \in DOMAIN byMonth |-> byMonth[m].pnl]) = stats.total_pnl
        /\ Total([s \in DOMAIN bySector |-> bySector[s].pnl]) = stats.total_pnl
        /\ Total([s \in DOMAIN bySector |-> bySector[s].n_trades]) = stats.total_trades)

(* The streak an account is on is no longer than the longest it had, as     *)
(* long as every trade won or lost something: the two are counted by        *)
(* trade_analytics and compute_extended_metrics.                            *)
StreakWithinLongest ==
  Reported(LAMBDA trades :
    LET streak == TradeAnalytics(trades).current_streak
        all    == ExtendedMetrics(trades)
    IN  (\A i \in DOMAIN trades : trades[i].pnl # 0) =>
          /\ streak <= all.consecutive_wins_max
          /\ -streak <= all.consecutive_losses_max)

(* The episodes of a drawdown account for every day under water, and the    *)
(* worst of them is the drawdown that is reported (_em_drawdown_stats).     *)
EpisodesCoverDrawdown ==
  Reported(LAMBDA trades :
    LET curve    == EquityCurve(trades)
        episodes == Episodes(curve)
    IN  /\ Total([k \in DOMAIN episodes |-> episodes[k].length])
             = Cardinality({i \in DOMAIN curve : Underwater(curve, i)[1] > 0})
        /\ Same(MaxDdPct(curve),
                GreatestOf([k \in DOMAIN episodes |-> episodes[k].worst])))

(* The drawdown in rupees is counted trade by trade from the account before *)
(* the first trade (get_trade_stats) and day by day from the account after  *)
(* the first day (_em_max_dd_inr): the first is never the smaller.          *)
ScanBoundsDaily ==
  Reported(LAMBDA trades : TradeStats(trades).max_dd >= MaxDdInr(EquityCurve(trades)))

(* Whoever follows the pages reads every row once, newest first; a trade    *)
(* that closes between two pages repeats a row and hides none; and of those *)
(* that close between the two queries of a page, it hides at most as many   *)
(* old rows, while has_more always has another row to follow                *)
(* (get_recent_trades, GET /api/trades).                                    *)
PagesComplete ==
  Reported(LAMBDA trades :
    \A limit \in 0..(MaxPage + 1) :
      /\ FollowPages(trades, limit) = Reverse(trades)
      /\ \A n \in 1..Len(trades) :
           LET before == SubSeq(trades, 1, n)
               first  == QuietPage(before, limit, 0)
               second == QuietPage(trades, limit, Len(first.data))
           IN  IsSuffix(SubSeq(Reverse(before), Len(first.data) + 1, n),
                        SubSeq(Reverse(trades), second.offset + 1, second.total))
      /\ \A n \in 0..Len(trades), offset \in 0..Len(trades) :
           LET page   == ApiPage(n, trades, limit, offset)
               unread == Len(trades) - (page.offset + Len(page.data))
           IN  IF page.has_more THEN unread > 0 ELSE unread <= Len(trades) - n)

(* The same number of days is the same trades but for those that closed on  *)
(* the first of them: the charges, the summary and MCP's tables count that  *)
(* whole day, the other reports from the hour on. Whichever signals the     *)
(* join picks, no trade is lost or counted twice (get_costs,                *)
(* get_performance_summary, get_regime_performance, _load_trades_filtered). *)
Nested(trades, now, days) ==
  LET costs   == GetCosts(trades, now, days)
      summary == PeriodStats(trades, now, days)
      sectors == GetSectorPerformance(trades, now, days)
      months  == GetMonthlyPnl(trades, now, days)
      table   == McpStrategyPerformance(trades, now, days)
      counted == Total([s \in DOMAIN sectors |-> sectors[s].n_trades])
      firstDay == Select(trades, LAMBDA t : t.closed = now[1] - days)
  IN  /\ summary.trades = costs.total_trades /\ summary.pnl = costs.gross_pnl
      /\ GetTradeAnalytics(trades, now, days).trade_count = summary.trades
      /\ \A s \in DOMAIN table : table[s].trades = costs.by_strategy[s].trades
      /\ counted \in (summary.trades - Len(firstDay))..summary.trades
      /\ counted = Total([m \in DOMAIN months |-> months[m].n_trades])
      /\ \A s \in DOMAIN GetStrategyPerformance(trades, now, days) :
           GetStrategyPerformance(trades, now, days)[s].n_trades
             <= costs.by_strategy[s].trades
      /\ \A regimes \in GetRegimePerformance(trades, now, days) :
           /\ Total([r \in DOMAIN regimes |-> regimes[r].trades]) = summary.trades
           /\ Total([r \in DOMAIN regimes |-> regimes[r].avg_pnl[1]]) = summary.pnl

(* At the last close and after it, and of one day or two.                   *)
WindowsNest ==
  Reported(LAMBDA trades :
    \A now \in {Last(trades).closed, Last(trades).closed + 1} \X {0, 1}, days \in 1..2 :
      Nested(trades, now, days))

(* Two counts of the accepted signals agree (get_signals_today,             *)
(* get_recent_signals).                                                     *)
SignalsCounted ==
  LET strategies == SignalsToday(0)
  IN  Total([s \in DOMAIN strategies |-> strategies[s].accepted])
        = RecentSignals(1, 0, TRUE).total

(* What different pieces of code count of the same trades agrees.           *)
ReportsAgree ==
  /\ SameNumbers /\ NothingUnattributed /\ StreakWithinLongest
  /\ EpisodesCoverDrawdown /\ ScanBoundsDaily
  /\ PagesComplete /\ WindowsNest /\ SignalsCounted

-----------------------------------------------------------------------------
(* The diagnostics, while validations replace and destroy the verdict       *)

(* "All checks passed - safe to run" (cli.py:1455) leaves a start no more   *)
(* to fail of than what the preflight does not try: that the feed is the    *)
(* one that is implemented, that it connects with the data credentials and, *)
(* without --check-live, that the broker of a live agent does.              *)
GreenMeansGo(m) ==
  \A checkLive \in BOOLEAN :
    Preflight(m, checkLive) =>
      \/ Start(m) = "running"
      \/ Start(m) = "no session" /\ m.config = "live" /\ ~checkLive
      \/ Start(m) = "no feed" /\ m.feed # "angelone"
      \/ Start(m) = "no data" /\ ~FeedConnects(m)

(* Four ways to try the broker's session give one answer, the server's as   *)
(* long as it has the variables that a command has; and a session that is   *)
(* found is one that the start finds.                                       *)
OneVerdictOnBroker(m) ==
  LET test == TestLiveBroker(m) = "OK"
  IN  /\ GateRead => (CheckGate(m).live = "OK" <=> test)
      /\ m.config # "invalid" => (LiveConnects(m, CliEnv(m)) <=> test)
      /\ Environ(ServerVariables(m)) = CliEnv(m) =>
           (~TestLiveBrokerConnection(m).error <=> test)
      /\ test => Start(m) # "no session"

(* api/main.py:1046 "mirrors the same checks": where the shell hides no     *)
(* variable of the file, the server's preflight, the tests and the keys of  *)
(* the orders make up the command's.                                        *)
ServerMirrors(m) ==
  (\A k \in DataKeys \cup LiveKeys : m.shell[k] = "absent" /\ m.served[k] = "absent") =>
    (Preflight(m, FALSE)
       <=> GetPreflight(m) /\ m.tests /\ LiveCredentials(m, CliEnv(m)))

(* What is shown of the gate and of the process is the same wherever it is  *)
(* shown, and of the gate what the start reads; the server's status shows   *)
(* at least as much as passed. No warning means no refusal.                 *)
ShownAsItIs(m) ==
  /\ (GateLabel = "PASSED") = IsLiveAllowed
  /\ HealthCheck(m).gate_passed = IsLiveAllowed
  /\ IsLiveAllowed => GetStatus(m).gate_passed
  /\ (Status(m).running = "yes") = HealthCheck(m).agent_running
  /\ CheckConfig(m) = {} => Start(m) # "blocked" /\ ~SameApp(CliEnv(m))

(* Credentials that were saved are those the next start uses, unless the    *)
(* shell hides them; the keys of the orders stay.                           *)
SavedIsUsed(m) ==
  \A key \in {"app A", "app B"} :
    LET saved == SaveAngelOne(m, key, "A")
    IN  /\ m.shell["DATA_KEY"] = "absent" => CliEnv(saved)["DATA_KEY"] = key
        /\ \A k \in LiveKeys : CliEnv(saved)[k] = CliEnv(m)[k]

(* What the diagnostics foretell of a start holds. A validation leaves the  *)
(* verdict alone or torn, as an aborted one has left it: it is enough to    *)
(* ask when none is running.                                                *)
DiagnosticsForetell ==
  wf = Idle =>
    \A m \in Machines :
      /\ GreenMeansGo(m) /\ OneVerdictOnBroker(m)
      /\ ServerMirrors(m) /\ ShownAsItIs(m) /\ SavedIsUsed(m)
=============================================================================
