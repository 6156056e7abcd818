------------------------------ MODULE SignalProps ------------------------------
(***************************************************************************)
(* What the signals promise, from the bars to the stored decision.          *)
(***************************************************************************)
EXTENDS SignalPipeline

(* Every signal has its stop and its target on the two sides of its entry,  *)
(* so that none is turned away by guardrails.py:110 for the lack of a stop  *)
(* unless the stop is at or below zero, and a position never starts beyond  *)
(* its exits: whatever bars make the bands, lines and averages cross.       *)
SignalsAreLegal ==
  \A name \in StrategyNames :
    /\ handed[name].side = "BUY" =>
         handed[name].stop < handed[name].entry /\ handed[name].entry < handed[name].target
    /\ handed[name].side = "SELL" =>
         handed[name].target < handed[name].entry /\ handed[name].entry < handed[name].stop

(* Strategies that ask for a turn, a cross or a break-out of a narrow band  *)
(* (supertrend.py:68, supertrend_short.py:101, ema_crossover.py, bb_squeeze)*)
(* do not ask for it twice: no such strategy signals at two closes running, *)
(* though the index and the averages are all computed anew.                 *)
OnceOnly == {"ema_crossover", "supertrend", "supertrend_short", "bb_squeeze"}
FreshSignals ==
  [][Len(candles') > Len(candles) =>
       \A name \in OnceOnly : ~(Fires(handed[name]) /\ Fires(handed'[name]))]_pipeline

(* Signals of one close are handed on one after the other, and a SELL after *)
(* a BUY of the same symbol would close what was just opened. The short is  *)
(* never found at the close at which a breakout or an uptrend is: its fall  *)
(* over the last bars rules them out.                                       *)
Breakouts == {"supertrend", "trend_breakout", "volume_breakout_confirm", "obv_trend"}
ShortAgainstNoBreakout ==
  Fires(handed["supertrend_short"]) => \A name \in Breakouts : ~Fires(handed[name])

(* vix_spike_bounce.py:4 has the looser threshold: where rsi_bounce finds a *)
(* reversal in a volatile market, on a volume that is enough for both, it   *)
(* finds one too.                                                           *)
VixSpikeSeesMore ==
  /\ RegimeOf(reading) = "VOLATILE"
  /\ Fires(handed["rsi_bounce"])
  /\ VolumeRatioAtLeast(candles, Periods.volume, Len(candles), 15)
  => Fires(handed["vix_spike_bounce"])

(* The gate's verdict is about the strategies that its engine builds. Of    *)
(* those the agent trades, a single one never was on trial: the bounce      *)
(* after a spike of the VIX, which trades in a volatile market only.        *)
TradedWasTried ==
  \A name \in AgentBuilds \ EngineBuilds :
    Fires(handed[name]) => RegimeOf(reading) = "VOLATILE" /\ name = "vix_spike_bounce"

(* What the strategies hand on can be traded as it is.                      *)
SignalsAreSound ==
  SignalsAreLegal /\ ShortAgainstNoBreakout /\ VixSpikeSeesMore /\ TradedWasTried

(* The checklist of a stored decision tells the truth about the check that  *)
(* made it (decision_trace.py:270 "must match Guardrails.check() call       *)
(* order"): the first rule shown as failed is the one that rejected, what   *)
(* is shown as failed or passed did fail or pass, and a rule that is shown  *)
(* as not reached comes after it.                                           *)
TraceNamesTheRule ==
  context # NoContext =>
    LET row    == Stored
        list   == Checklist(row)
        says(i) == Rejects(list[i].rule, signal, Sized, PortfolioNow, context.market)
        cutoff == CHOOSE i \in 1..Len(list) : list[i].rule = row.reason
    IN  /\ row.accepted <=> Allowed(signal, Sized, PortfolioNow, context.market)
        /\ row.accepted => \A i \in 1..Len(list) : list[i].passed = "yes" /\ list[i].reached
        /\ ~row.accepted =>
             /\ list[cutoff].passed = "no"
             /\ \A i \in 1..(cutoff - 1) : list[i].passed # "no"
             /\ \A i \in 1..Len(list) :
                  /\ list[i].passed = "no" => says(i)
                  /\ list[i].passed = "yes" /\ signal.stop > 0 => ~says(i)
                  /\ list[i].passed = "unknown" => (list[i].reached <=> i < cutoff)
=============================================================================
