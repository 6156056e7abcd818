-------------------------------- MODULE Reports --------------------------------
(***************************************************************************)
(* What the API (api/main.py) and the MCP server (mcp_server/tools.py) read *)
(* from the agent's database: the lists a page at a time, the trades of the *)
(* last so many days, the charges, and the tables that join each trade with *)
(* the signal it came from.                                                 *)
(*                                                                          *)
(* A moment is <<day, part of the day>>; a trade also has the part of the   *)
(* day it closed at and its charges, pnl being net of them                  *)
(* (Store.record_trade). Rows are listed by id, the order of their writing. *)
(***************************************************************************)
EXTENDS Analytics

CONSTANTS
  Signals,   \* the rows of the signals table, [symbol, strategy, accepted,
             \* regime, at]
  MaxPage    \* bound: rows on a page (200 in the code)

ASSUME ReportsAssumption ==
  /\ MaxPage \in Nat \ {0}
  /\ Signals \in Seq([symbol : STRING, strategy : STRING, accepted : BOOLEAN,
                      regime : STRING, at : Nat \X Nat])

Earlier(a, b) == a[1] < b[1] \/ (a[1] = b[1] /\ a[2] <= b[2])
ClosedAt(t) == <<t.closed, t.part>>

-----------------------------------------------------------------------------
(* Pages                                                                    *)

AtLeastOne(n) == IF n < 1 THEN 1 ELSE n
Clamp(limit) == IF limit > MaxPage THEN MaxPage ELSE AtLeastOne(limit)

(* The paged lists of the MCP server, newest first. The rows are counted by  *)
(* one query and selected by the next, without a transaction: a row that is  *)
(* written in between is in the page and not in the count.                   *)
Page(counted, rows, limit, offset) ==
  LET from == IF offset < 0 THEN 0 ELSE offset
      to   == Min({from + Clamp(limit), Len(rows)})
      data == SubSeq(Reverse(rows), from + 1, to)
  IN  [data |-> data, total |-> counted, offset |-> from,
       has_more |-> from + Len(data) < counted]

(* The API's pages of the same lists: limit and offset are clamped twice.   *)
ApiPage(counted, rows, limit, offset) ==
  Page(counted, rows, Clamp(limit), IF offset < 0 THEN 0 ELSE offset)

(* A page during which nothing is written.                                  *)
QuietPage(rows, limit, offset) == ApiPage(Len(rows), rows, limit, offset)

(* A client that follows has_more to the end.                               *)
FollowPages(rows, limit) ==
  LET step(s, row) ==
        LET page == QuietPage(rows, limit, Len(s.read))
        IN  IF s.more THEN [read |-> s.read \o page.data, more |-> page.has_more] ELSE s
  IN  FoldLeft(step, [read |-> <<>>, more |-> TRUE], rows).read

(* get_recent_signals                                                       *)
RecentSignals(limit, offset, acceptedOnly) ==
  LET rows == Select(Signals, LAMBDA s : acceptedOnly => s.accepted)
  IN  Page(Len(rows), rows, limit, offset)

-----------------------------------------------------------------------------
(* Windows of days                                                          *)

(* Compared as text with a date, or with a date and a time after a blank    *)
(* (a "T" in the row is after the blank): the whole first day is in.        *)
SinceDay(trades, now, days) ==
  Select(trades, LAMBDA t : t.closed >= now[1] - days)

(* Compared as moments, or as text of the same form.                        *)
SinceMoment(trades, now, days) ==
  Select(trades, LAMBDA t : Earlier(<<now[1] - days, now[2]>>, ClosedAt(t)))

(* _load_trades_filtered: no window when days is not positive.              *)
LoadTradesFiltered(trades, now, days) ==
  IF days > 0 THEN SinceMoment(trades, now, days) ELSE trades

GetSectorPerformance(trades, now, days) ==
  SectorPerformance(LoadTradesFiltered(trades, now, days))
GetStrategyPerformance(trades, now, days) ==
  StrategyAttribution(LoadTradesFiltered(trades, now, days))
GetMonthlyPnl(trades, now, days) == MonthlyPnl(LoadTradesFiltered(trades, now, days))

Charges(trades) == [i \in DOMAIN trades |-> trades[i].charges]

(* get_costs: takes the charges from a P&L that is net of them.             *)
GetCosts(trades, now, days) ==
  LET of == SinceDay(trades, now, days)
      groups == GroupBy(of, LAMBDA t : t.strategy)
  IN  [total_charges |-> Total(Charges(of)), gross_pnl |-> Total(Pnls(of)),
       net_pnl |-> Total(Pnls(of)) - Total(Charges(of)), total_trades |-> Len(of),
       by_strategy |->
         [s \in DOMAIN groups |->
            [total_charges |-> Total(Charges(groups[s])), trades |-> Len(groups[s]),
             gross_pnl |-> Total(Pnls(groups[s]))]]]

(* get_performance_summary, of one of its periods.                          *)
PeriodStats(trades, now, days) ==
  LET pnls == Pnls(SinceDay(trades, now, days))
  IN  [trades |-> Len(pnls), pnl |-> Total(pnls), win_rate |-> WinRate(pnls)]

-----------------------------------------------------------------------------
(* Joins with the signals                                                   *)

(* The accepted signals of a trade's symbol and strategy up to its close;   *)
(* grouped by trade, the query keeps one of them, it does not say which.    *)
SignalsOf(t) ==
  {s \in Range(Signals) : /\ s.symbol = t.symbol /\ s.strategy = t.strategy
                          /\ s.accepted /\ Earlier(s.at, ClosedAt(t))}
RegimesOf(t) ==
  IF SignalsOf(t) = {} THEN {"UNKNOWN"} ELSE {s.regime : s \in SignalsOf(t)}

(* One list for every way the query may pick.                               *)
WithRegime(trades) ==
  LET ways == {pick \in [DOMAIN trades -> UNION {RegimesOf(t) : t \in Range(trades)}] :
                 \A i \in DOMAIN trades : pick[i] \in RegimesOf(trades[i])}
  IN  {[i \in DOMAIN trades |->
          [pnl |-> trades[i].pnl, regime |-> pick[i]]] : pick \in ways}

(* regime_performance, of trades with their regimes.                        *)
RegimePerformance(trades) ==
  LET groups == GroupBy(trades, LAMBDA t : t.regime)
  IN  [r \in DOMAIN groups |->
         [trades |-> Len(groups[r]), win_rate |-> WinRate(Pnls(groups[r])),
          avg_pnl |-> Mean(Pnls(groups[r]))]]

(* The tables of the MCP server, of its window.                             *)
GetRegimePerformance(trades, now, days) ==
  {RegimePerformance(ts) : ts \in WithRegime(SinceDay(trades, now, days))}
McpStrategyPerformance(trades, now, days) ==
  StrategyPerformance(SinceDay(trades, now, days))
GetTradeAnalytics(trades, now, days) ==
  LET of == SinceDay(trades, now, days)
  IN  IF of = <<>> THEN [trade_count |-> 0] ELSE TradeAnalytics(of)

(* get_signals_today                                                        *)
SignalsToday(date) ==
  LET of == Select(Signals, LAMBDA s : s.at[1] >= date)
      groups == GroupBy(of, LAMBDA s : s.strategy)
      row(ss) == LET yes == Len(Select(ss, LAMBDA s : s.accepted))
                 IN  [total |-> Len(ss), accepted |-> yes, rejected |-> Len(ss) - yes]
  IN  [g \in DOMAIN groups |-> row(groups[g])]
=============================================================================
