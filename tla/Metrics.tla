-------------------------------- MODULE Metrics --------------------------------
(***************************************************************************)
(* The metrics of a backtest (backtest/metrics.py): what a list of closed   *)
(* trades and an equity curve are worth. A trade counts by its P&L alone.   *)
(*                                                                          *)
(* A ratio is <<numerator, denominator>>, the denominator not negative;     *)
(* <<1, 0>> is float("inf"). Roots and the risk-free rate are beyond whole  *)
(* numbers: the Sharpe ratio is one of Sharpes wherever the code does not   *)
(* fix it.                                                                  *)
(***************************************************************************)
EXTENDS Integers, FiniteSets, Functions, SequencesExt

CONSTANT Sharpes   \* what a Sharpe ratio may come out as: ratios

Infinite == <<1, 0>>
Zero == <<0, 1>>

AtLeast(a, b) == a[1] * b[2] >= b[1] * a[2]
Same(a, b) == a[1] * b[2] = b[1] * a[2]

Gcd[p \in Nat \X Nat] == IF p[2] = 0 THEN p[1] ELSE Gcd[<<p[2], p[1] % p[2]>>]

(* In lowest terms, so that products of ratios stay small.                  *)
Lowest(n, d) == LET g == Gcd[<<n, d>>] IN <<n \div g, d \div g>>

Times(a, b) == Lowest(a[1] * b[1], a[2] * b[2])
Over(a, b) == Lowest(a[1] * b[2], a[2] * b[1])

(* sorted: the k-th is the one with k up to it.                             *)
Ascending(S) ==
  [k \in 1..Cardinality(S) |-> CHOOSE x \in S : Cardinality({y \in S : y <= x}) = k]

(* SelectSeq, by the places of what passes: the rows stay in their order.   *)
RowsAt(rows, places) ==
  LET order == Ascending(places) IN [k \in DOMAIN order |-> rows[order[k]]]
Select(rows, Test(_)) == RowsAt(rows, {i \in DOMAIN rows : Test(rows[i])})

Wins(pnls) == Select(pnls, LAMBDA p : p > 0)
Losses(pnls) == Select(pnls, LAMBDA p : p < 0)
Total(pnls) == SumFunction(pnls)

Mean(pnls) == IF pnls = <<>> THEN Zero ELSE <<Total(pnls), Len(pnls)>>

WinRate(pnls) ==
  IF pnls = <<>> THEN Zero ELSE <<100 * Len(Wins(pnls)), Len(pnls)>>

ProfitFactor(pnls) ==
  LET profit == Total(Wins(pnls))
      loss   == -Total(Losses(pnls))
  IN  IF loss > 0 THEN <<profit, loss>> ELSE IF profit > 0 THEN Infinite ELSE Zero

(* The max of a list of ratios, zero if it is empty.                        *)
GreatestOf(ratios) ==
  IF ratios = <<>> THEN Zero
  ELSE ratios[CHOOSE i \in DOMAIN ratios :
                \A j \in DOMAIN ratios : AtLeast(ratios[i], ratios[j])]

(* cummax                                                                   *)
RunningPeak(curve, i) ==
  curve[CHOOSE j \in 1..i : \A k \in 1..i : AtLeast(curve[j], curve[k])]

Drawdown(curve, i) ==
  LET kept == Over(curve[i], RunningPeak(curve, i))
  IN  <<100 * (kept[2] - kept[1]), kept[2]>>

(* Mutant of MaxDrawdown: the drawdown the curve ends with.                 *)
LastDrawdown(curve) ==
  IF curve = <<>> THEN Zero ELSE Drawdown(curve, Len(curve))

(* max_drawdown_pct                                                         *)
MaxDrawdown(curve) == GreatestOf([i \in DOMAIN curve |-> Drawdown(curve, i)])

(* pct_change                                                               *)
Returns(curve) == {Over(curve[i + 1], curve[i]) : i \in 1..(Len(curve) - 1)}

(* Zero when the deviation of the returns is, or is not defined.            *)
SharpeOf(curve) ==
  IF Len(curve) < 3 \/ Cardinality(Returns(curve)) < 2 THEN {Zero} ELSE Sharpes

EndingEquity(curve, starting) == IF curve = <<>> THEN <<starting, 1>> ELSE Last(curve)

(* compute_metrics: one record for every Sharpe ratio there may be.         *)
ComputeMetrics(pnls, curve, starting, months) ==
  {[n_trades |-> Len(pnls), win_rate |-> WinRate(pnls),
    profit_factor |-> ProfitFactor(pnls), expectancy |-> Mean(pnls),
    avg_win |-> Mean(Wins(pnls)), avg_loss |-> Mean(Losses(pnls)),
    total_pnl |-> Total(pnls), sharpe |-> sharpe,
    max_drawdown |-> MaxDrawdown(curve),
    ending_equity |-> EndingEquity(curve, starting), months |-> months] :
     sharpe \in SharpeOf(curve)}
=============================================================================
