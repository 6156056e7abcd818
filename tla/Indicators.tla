------------------------------ MODULE Indicators -------------------------------
(***************************************************************************)
(* The indicators of core/strategies/indicators.py over the bars of one     *)
(* symbol, oldest first.  A mean is kept as a sum, and comparisons are      *)
(* multiplied out.  Where the code's value is not rational or is a running  *)
(* average, it is a whole number of hundredths of a tick.                   *)
(***************************************************************************)
EXTENDS Integers, Sequences, FiniteSetsExt

Abs(x) == IF x < 0 THEN -x ELSE x

(* The bars i - n + 1 .. i, which a rolling window of n looks at.           *)
Window(n, i) == (i - n + 1)..i

CloseSum(c, n, i) == SumFunction([j \in Window(n, i) |-> c[j].close])
VolumeSum(c, n, i) == SumFunction([j \in Window(n, i) |-> c[j].volume])

TrueRange(c, i) ==
  IF i = 1 THEN c[i].high - c[i].low
  ELSE Max({c[i].high - c[i].low, Abs(c[i].high - c[i - 1].close),
            Abs(c[i].low - c[i - 1].close)})

(* atr, in hundredths; the first bar has a true range as well.              *)
Atr(c, n, i) == (100 * SumFunction([j \in Window(n, i) |-> TrueRange(c, j)])) \div n

Change(c, i) == IF i = 1 THEN 0 ELSE c[i].close - c[i - 1].close

Gains(c, n, i) == SumFunction([j \in Window(n, i) |-> Max({Change(c, j), 0})])
Losses(c, n, i) == SumFunction([j \in Window(n, i) |-> Max({-Change(c, j), 0})])

(* rsi, in hundredths; without a loss in the window there is none.          *)
HasRsi(c, n, i) == i >= n /\ Losses(c, n, i) > 0
Rsi(c, n, i) == (10000 * Gains(c, n, i)) \div (Gains(c, n, i) + Losses(c, n, i))

(* The sample deviation of n closes, in hundredths.                         *)
Deviation(c, n, i) ==
  LET squares  == SumFunction([j \in Window(n, i) |-> c[j].close * c[j].close])
      variance == (10000 * (n * squares - CloseSum(c, n, i) * CloseSum(c, n, i)))
                    \div (n * (n - 1))
  IN  CHOOSE r \in 0..variance : r * r <= variance /\ variance < (r + 1) * (r + 1)

Middle(c, n, i) == (100 * CloseSum(c, n, i)) \div n
UpperBand(c, n, i) == Middle(c, n, i) + 2 * Deviation(c, n, i)
LowerBand(c, n, i) == Middle(c, n, i) - 2 * Deviation(c, n, i)

(* The distance of the bands relative to their middle, in ten-thousandths.  *)
Width(c, n, i) == (40000 * Deviation(c, n, i)) \div Middle(c, n, i)

(* donchian                                                                 *)
Highest(c, n, i) == Max({c[j].high : j \in Window(n, i)})

(* volume_ratio is at least tenths / 10; the bar itself counts in the mean. *)
VolumeRatioAtLeast(c, n, i, tenths) ==
  VolumeSum(c, n, i) > 0 /\ 10 * n * c[i].volume >= tenths * VolumeSum(c, n, i)

(* ewm(span, adjust=False).mean(), seeded by the oldest bar.                *)
Ewm(c, span) ==
  LET e[i \in 1..Len(c)] ==
        IF i = 1 THEN 100 * c[1].close
        ELSE LET before == e[i - 1]
             IN  before + (2 * (100 * c[i].close - before)) \div (span + 1)
  IN  e

(* On-balance volume.                                                       *)
Obv(c) ==
  LET v[i \in 1..Len(c)] ==
        IF i = 1 THEN 0
        ELSE v[i - 1] + (IF Change(c, i) > 0 THEN c[i].volume
                         ELSE IF Change(c, i) < 0 THEN -c[i].volume ELSE 0)
  IN  v

-----------------------------------------------------------------------------
(* supertrend_bands                                                         *)

(* A line only tightens, until the bar before closed beyond it; a close     *)
(* beyond the line of the bar before turns the direction.                   *)
NextLine(c, i, was, n, mult) ==
  LET middle == 50 * (c[i].high + c[i].low)
      atr    == Atr(c, n, i)
      upper  == middle + mult * atr
      lower  == middle - mult * atr
      before == 100 * c[i - 1].close
      close  == 100 * c[i].close
  IN  [upper |-> IF upper < was.upper \/ before > was.upper THEN upper ELSE was.upper,
       lower |-> IF lower > was.lower \/ before < was.lower THEN lower ELSE was.lower,
       direction |-> IF close > was.upper THEN 1 ELSE IF close < was.lower THEN -1
                     ELSE was.direction]

(* The lines from the first bar with an atr on; before it the direction is  *)
(* up, and the first lines are compared with themselves.                    *)
Supertrend(c, n, mult) ==
  LET first == 50 * (c[n].high + c[n].low)
      line[i \in n..Len(c)] ==
        IF i = n
        THEN NextLine(c, n, [upper |-> first + mult * Atr(c, n, n),
                             lower |-> first - mult * Atr(c, n, n), direction |-> 1], n, mult)
        ELSE NextLine(c, i, line[i - 1], n, mult)
  IN  line
=============================================================================
