------------------------------- MODULE Strategies ------------------------------
(***************************************************************************)
(* The strategies (core/strategies) and the regime classifier, as pure      *)
(* operators over the bars of one symbol.  Each has its conditions in the   *)
(* code's order, which matters only for those that make a later one         *)
(* defined.  Prices of a signal are in hundredths of a tick.                *)
(*                                                                          *)
(* The periods are parameters here as they are there.  ADX, a running       *)
(* average of running averages, is an input: what it says of a market.      *)
(***************************************************************************)
EXTENDS Indicators

CONSTANTS
  Periods,    \* the periods of the strategies' constructors
  RegimeCfg   \* thresholds of the classifier

ASSUME StrategiesAssumption ==
  /\ Periods \in [atr: Nat, volume: Nat, emaFast: Nat, emaSlow: Nat, supertrend: Nat,
                  multiplier: Nat, dmaShort: Nat, dma: Nat, dmaLong: Nat, lookback: Nat,
                  rsi: Nat, rsiLong: Nat, bollinger: Nat, squeeze: Nat, donchian: Nat,
                  donchianShort: Nat, obv: Nat, narrow: Nat]
  /\ \A p \in DOMAIN Periods : Periods[p] > 0
  /\ Periods.supertrend > 1 /\ Periods.bollinger > 1
  /\ Periods.dma >= 4          \* five bars back there is a bar: 50 in the code
  /\ Periods.lookback <= Periods.donchian         \* 10 <= 15,
  /\ Periods.lookback <= Periods.donchianShort    \* 10 <= 10 and
  /\ Periods.lookback <= Periods.obv              \* 10 <= 15 in the code
  /\ RegimeCfg \in [vix: Nat, adx: Nat, width: Nat]

NoSignal == [side |-> "NONE", entry |-> 0, stop |-> 0, target |-> 0]
Fires(signal) == signal # NoSignal

AtLeastBars(c, periods, more) == Len(c) >= Max(periods) + more

Latest(c) == c[Len(c)]
Before(c) == c[Len(c) - 1]

(* A long from the last close, with a stop some atr below (in tenths) and   *)
(* the target at a multiple of the risk (in tenths).                        *)
LongByAtr(c, atrs, reward) ==
  LET entry == 100 * Latest(c).close
      stop  == entry - (atrs * Atr(c, Periods.atr, Len(c))) \div 10
  IN  IF Atr(c, Periods.atr, Len(c)) <= 0 THEN NoSignal
      ELSE [side |-> "BUY", entry |-> entry, stop |-> stop,
            target |-> entry + (reward * (entry - stop)) \div 10]

(* A long with a given stop, unless there is no risk in it.                 *)
LongWithStop(c, stop, reward) ==
  LET entry == 100 * Latest(c).close
  IN  IF stop >= entry THEN NoSignal
      ELSE [side |-> "BUY", entry |-> entry, stop |-> stop,
            target |-> entry + (reward * (entry - stop)) \div 10]

(* Relations of the last close to a moving average, and of the average to   *)
(* what it was some bars ago.                                               *)
AboveAverage(c, n) == n * Latest(c).close > CloseSum(c, n, Len(c))
Rising(c, n, bars) == CloseSum(c, n, Len(c)) > CloseSum(c, n, Len(c) - bars)
FallingAt(c, n, bars, i) == CloseSum(c, n, i) < CloseSum(c, n, i - bars)

(* A fall of the average by more than 1% over five bars; unknown before.    *)
FallingAway(c) ==
  /\ Len(c) - 5 >= Periods.dma
  /\ 100 * CloseSum(c, Periods.dma, Len(c)) < 99 * CloseSum(c, Periods.dma, Len(c) - 5)

-----------------------------------------------------------------------------
(* Trend                                                                    *)

CrossedAt(c, i) == Ewm(c, Periods.emaFast)[i] > Ewm(c, Periods.emaSlow)[i]

EmaCrossover(c) ==
  IF /\ AtLeastBars(c, {Periods.emaSlow, Periods.atr}, 3)
     /\ ~CrossedAt(c, Len(c) - 1) /\ CrossedAt(c, Len(c))
     /\ \/ Len(c) < Periods.volume
        \/ VolumeSum(c, Periods.volume, Len(c)) = 0
        \/ VolumeRatioAtLeast(c, Periods.volume, Len(c), 10)
  THEN LongByAtr(c, 15, 20) ELSE NoSignal

TrendBreakout(c) ==
  IF /\ AtLeastBars(c, {Periods.donchian, Periods.atr, Periods.volume}, 2)
     /\ VolumeRatioAtLeast(c, Periods.volume, Len(c), 10)
     /\ Latest(c).close > Highest(c, Periods.donchian, Len(c) - 1)
  THEN LongByAtr(c, 20, 25) ELSE NoSignal

VolumeBreakoutConfirm(c) ==
  IF /\ AtLeastBars(c, {Periods.donchianShort, Periods.volume, Periods.dma, Periods.atr}, 3)
     /\ AboveAverage(c, Periods.dma)
     /\ Latest(c).close > Highest(c, Periods.donchianShort, Len(c) - 1)
     /\ VolumeRatioAtLeast(c, Periods.volume, Len(c), 25)
     /\ Latest(c).high > Latest(c).low
     /\ 10 * (Latest(c).close - Latest(c).low) >= 8 * (Latest(c).high - Latest(c).low)
  THEN LongByAtr(c, 15, 20) ELSE NoSignal

ObvTrend(c) ==
  LET past == (Len(c) - Periods.obv)..(Len(c) - 1)
      obv  == Obv(c)
  IN  IF /\ AtLeastBars(c, {Periods.obv, Periods.atr}, 3)
         /\ Latest(c).close > Max({c[j].close : j \in past})
         /\ obv[Len(c)] >= Max({obv[j] : j \in past})
      THEN LongByAtr(c, 15, 25) ELSE NoSignal

MomentumStrength(c) ==
  IF /\ AtLeastBars(c, {Periods.rsiLong, Periods.dma, Periods.dmaShort, Periods.atr}, 5)
     /\ AboveAverage(c, Periods.dma)
     /\ Rising(c, Periods.dma, 5)
     /\ AboveAverage(c, Periods.dmaShort)
     /\ HasRsi(c, Periods.rsiLong, Len(c))
     /\ Rsi(c, Periods.rsiLong, Len(c)) \in 5500..7000
     /\ VolumeRatioAtLeast(c, Periods.volume, Len(c), 12)
  THEN LongByAtr(c, 15, 25) ELSE NoSignal

RsiMomentum(c) ==
  LET ema == Ewm(c, Periods.dma)
      n   == Len(c)
  IN  IF /\ AtLeastBars(c, {Periods.rsi, Periods.dma, Periods.atr}, 3)
         /\ 100 * Latest(c).close > ema[n]
         /\ ema[n] > ema[n - 4]
         /\ HasRsi(c, Periods.rsi, n)
         /\ Rsi(c, Periods.rsi, n) \in 4000..5500
         /\ HasRsi(c, Periods.rsi, n - 1) => Rsi(c, Periods.rsi, n) > Rsi(c, Periods.rsi, n - 1)
         /\ VolumeRatioAtLeast(c, Periods.volume, n, 10)
      THEN LongByAtr(c, 15, 20) ELSE NoSignal

(* The lines at the last bar and before it.                                 *)
LineOf(c) == Supertrend(c, Periods.supertrend, Periods.multiplier)

LineDistance(c) == Atr(c, Periods.supertrend, Len(c)) \div 10

(* Mutant of SupertrendLong: every bar of an uptrend is a signal.           *)
SupertrendLongAgain(c, trends) ==
  LET line == LineOf(c)
      n    == Len(c)
  IN  IF /\ AtLeastBars(c, {Periods.supertrend, Periods.atr, Periods.volume,
                            Periods.dma + Periods.lookback}, 5)
         /\ line[n].direction = 1
         /\ trends
         /\ VolumeRatioAtLeast(c, Periods.volume, n, 12)
         /\ AboveAverage(c, Periods.dmaShort)
         /\ Rising(c, Periods.dma, Periods.lookback)
         /\ LineDistance(c) > 0
      THEN LongWithStop(c, line[n].lower - LineDistance(c), 20) ELSE NoSignal

(* A fresh turn upwards, in a market that trends.                           *)
SupertrendLong(c, trends) ==
  LET line == LineOf(c)
      n    == Len(c)
  IN  IF /\ AtLeastBars(c, {Periods.supertrend, Periods.atr, Periods.volume,
                            Periods.dma + Periods.lookback}, 5)
         /\ line[n].direction = 1 /\ line[n - 1].direction # 1
         /\ trends
         /\ VolumeRatioAtLeast(c, Periods.volume, n, 12)
         /\ AboveAverage(c, Periods.dmaShort)
         /\ Rising(c, Periods.dma, Periods.lookback)
         /\ LineDistance(c) > 0
      THEN LongWithStop(c, line[n].lower - LineDistance(c), 20) ELSE NoSignal

(* Mutant of SupertrendShort: the target of a long.                         *)
SupertrendShortOfLong(c) ==
  LET line  == LineOf(c)[Len(c)]
      n     == Len(c)
      entry == 100 * Latest(c).close
      stop  == line.upper + LineDistance(c)
  IN  IF /\ AtLeastBars(c, {Periods.supertrend, Periods.dma + Periods.lookback,
                            Periods.volume}, 5)
         /\ line.direction = -1
         /\ FallingAt(c, Periods.dma, Periods.lookback, n)
         /\ 100 * Latest(c).close < 97 * c[n - Periods.lookback].close
         /\ VolumeRatioAtLeast(c, Periods.volume, n, 15)
         /\ ~FallingAt(c, Periods.dma, Periods.lookback, n - 1)
         /\ LineDistance(c) > 0
         /\ stop > entry
      THEN [side |-> "SELL", entry |-> entry, stop |-> stop,
            target |-> entry + 2 * (stop - entry)]
      ELSE NoSignal

(* The one short: below the line, in an average that has begun to fall.     *)
SupertrendShort(c) ==
  LET line  == LineOf(c)[Len(c)]
      n     == Len(c)
      entry == 100 * Latest(c).close
      stop  == line.upper + LineDistance(c)
  IN  IF /\ AtLeastBars(c, {Periods.supertrend, Periods.dma + Periods.lookback,
                            Periods.volume}, 5)
         /\ line.direction = -1
         /\ FallingAt(c, Periods.dma, Periods.lookback, n)
         /\ 100 * Latest(c).close < 97 * c[n - Periods.lookback].close
         /\ VolumeRatioAtLeast(c, Periods.volume, n, 15)
         /\ ~FallingAt(c, Periods.dma, Periods.lookback, n - 1)
         /\ LineDistance(c) > 0
         /\ stop > entry
      THEN [side |-> "SELL", entry |-> entry, stop |-> stop,
            target |-> entry - 2 * (stop - entry)]
      ELSE NoSignal

-----------------------------------------------------------------------------
(* Range and volatility                                                     *)

MeanReversion(c) ==
  LET n     == Len(c)
      entry == 100 * Latest(c).close
      lower == LowerBand(c, Periods.bollinger, n)
      ma    == Middle(c, Periods.bollinger, n)
      stop  == (98 * lower) \div 100
  IN  IF /\ AtLeastBars(c, {Periods.rsi, Periods.bollinger, Periods.dma}, 2)
         /\ ~FallingAway(c)
         /\ HasRsi(c, Periods.rsi, n)
         /\ Rsi(c, Periods.rsi, n) < 3000
         /\ 1000 * entry <= 1005 * lower
         /\ ma > entry /\ stop < entry
      THEN [side |-> "BUY", entry |-> entry, stop |-> stop, target |-> ma]
      ELSE NoSignal

(* The bands were as narrow as ever in the window, and the close leaves     *)
(* them upwards.                                                            *)
BbSqueeze(c) ==
  LET n      == Len(c)
      widths == {Width(c, Periods.bollinger, j) :
                   j \in {i \in (n - Periods.squeeze)..(n - 1) : i >= Periods.bollinger}}
  IN  IF /\ AtLeastBars(c, {Periods.bollinger, Periods.squeeze, Periods.atr}, 3)
         /\ ~FallingAway(c)
         /\ 100 * Width(c, Periods.bollinger, n - 1) <= 105 * Min(widths)
         /\ 100 * Before(c).close <= UpperBand(c, Periods.bollinger, n - 1)
         /\ 100 * Latest(c).close > UpperBand(c, Periods.bollinger, n)
      THEN LongByAtr(c, 15, 20) ELSE NoSignal

Ranges(c) == {c[j].high - c[j].low : j \in Window(Periods.narrow, Len(c))}
RangeOf(bar) == bar.high - bar.low

(* The narrowest bar of the window, or one of them.                         *)
VolatilityCompression(c) ==
  IF /\ AtLeastBars(c, {Periods.narrow, Periods.atr - 5}, 5)
     /\ RangeOf(Latest(c)) = Min(Ranges(c))
     /\ Latest(c).close > Before(c).high
  THEN LongByAtr(c, 15, 20) ELSE NoSignal

(* The narrowest bar of the window, alone.                                  *)
NRPatternBreakout(c) ==
  LET range == RangeOf(Latest(c))
  IN  IF /\ AtLeastBars(c, {Periods.narrow, Periods.atr}, 3)
         /\ range > 0
         /\ \A j \in Window(Periods.narrow - 1, Len(c) - 1) : range < RangeOf(c[j])
         /\ 10 * (Latest(c).close - Latest(c).low) >= 7 * range
         /\ Latest(c).close > Before(c).high
         /\ Atr(c, Periods.atr, Len(c)) > 0
      THEN LongWithStop(c, 100 * Latest(c).low, 20) ELSE NoSignal

(* The open left yesterday's close behind, and the close kept it.           *)
GapAndHold(c) ==
  IF /\ AtLeastBars(c, {Periods.volume, Periods.atr}, 3)
     /\ 1000 * Latest(c).open >= 1005 * Before(c).close
     /\ Latest(c).close >= Latest(c).open
     /\ VolumeRatioAtLeast(c, Periods.volume, Len(c), 15)
     /\ Atr(c, Periods.atr, Len(c)) > 0
  THEN LongWithStop(c, 100 * Before(c).close - Atr(c, Periods.atr, Len(c)) \div 2, 20)
  ELSE NoSignal

(* A green bar that closes higher, above the long average.                  *)
Reversal(c) ==
  /\ AtLeastBars(c, {Periods.rsi, Periods.dmaLong, Periods.atr}, 3)
  /\ AboveAverage(c, Periods.dmaLong)
  /\ Latest(c).close > Latest(c).open
  /\ Latest(c).close > Before(c).close

Oversold(c, threshold) ==
  HasRsi(c, Periods.rsi, Len(c)) /\ Rsi(c, Periods.rsi, Len(c)) < 100 * threshold

RsiBounce(c) ==
  IF Reversal(c) /\ Oversold(c, 30) /\ VolumeRatioAtLeast(c, Periods.volume, Len(c), 12)
  THEN LongByAtr(c, 15, 20) ELSE NoSignal

VixSpikeBounce(c) ==
  IF Reversal(c) /\ Oversold(c, 35) /\ VolumeRatioAtLeast(c, Periods.volume, Len(c), 15)
  THEN LongByAtr(c, 20, 15) ELSE NoSignal

-----------------------------------------------------------------------------
(* Which strategies a regime has                                            *)

(* classify: fear first, then strength, then narrowness.                    *)
Classify(bars, adx, width, vix) ==
  IF ~bars THEN "UNKNOWN"
  ELSE IF vix > RegimeCfg.vix THEN "VOLATILE"
  ELSE IF adx > RegimeCfg.adx THEN "TREND"
  ELSE IF width < RegimeCfg.width THEN "RANGE"
  ELSE "UNKNOWN"

Supports ==
  [ema_crossover |-> {"TREND"}, trend_breakout |-> {"TREND"},
   volume_breakout_confirm |-> {"TREND"}, obv_trend |-> {"TREND"},
   momentum_strength |-> {"TREND"}, rsi_momentum |-> {"TREND"},
   supertrend |-> {"TREND", "VOLATILE"}, supertrend_short |-> {"VOLATILE", "TREND"},
   mean_reversion |-> {"RANGE"}, bb_squeeze |-> {"TREND", "RANGE"},
   volatility_compression |-> {"VOLATILE"}, nr_pattern |-> {"TREND", "RANGE"},
   gap_and_hold |-> {"TREND", "RANGE"}, rsi_bounce |-> {"RANGE", "VOLATILE"},
   vix_spike_bounce |-> {"VOLATILE"}]

StrategyNames == DOMAIN Supports

(* evaluate, of every strategy; trends is what adx_value says.              *)
Evaluated(c, regime, trends) ==
  LET found(name) ==
        CASE name = "ema_crossover"           -> EmaCrossover(c)
          [] name = "trend_breakout"          -> TrendBreakout(c)
          [] name = "volume_breakout_confirm" -> VolumeBreakoutConfirm(c)
          [] name = "obv_trend"               -> ObvTrend(c)
          [] name = "momentum_strength"       -> MomentumStrength(c)
          [] name = "rsi_momentum"            -> RsiMomentum(c)
          [] name = "supertrend"              -> SupertrendLong(c, trends)
          [] name = "supertrend_short"        -> SupertrendShort(c)
          [] name = "mean_reversion"          -> MeanReversion(c)
          [] name = "bb_squeeze"              -> BbSqueeze(c)
          [] name = "volatility_compression"  -> VolatilityCompression(c)
          [] name = "nr_pattern"              -> NRPatternBreakout(c)
          [] name = "gap_and_hold"            -> GapAndHold(c)
          [] name = "rsi_bounce"              -> RsiBounce(c)
          [] name = "vix_spike_bounce"        -> VixSpikeBounce(c)
  IN  [name \in StrategyNames |-> IF regime \in Supports[name] THEN found(name) ELSE NoSignal]
=============================================================================
