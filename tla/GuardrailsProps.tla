---------------------------- MODULE GuardrailsProps ----------------------------
(***************************************************************************)
(* Sizing and the limits that check it (core/risk/sizing.py, the rules of   *)
(* core/risk/guardrails.py) over every signal and over an account whose     *)
(* equity goes up and down a step at a time, below zero included.           *)
(***************************************************************************)
EXTENDS Guardrails

CONSTANTS
  EntryPrices,   \* entry prices of the signals
  StopPrices,    \* and their stops, which may be below zero
  MinEquity,     \* bound: MinEquity..MaxEquity
  MaxEquity,
  EquityStep     \* what the equity gains or loses at a time

ASSUME SizingAssumption ==
  /\ EntryPrices \subseteq Nat \ {0}
  /\ StopPrices \subseteq Int
  /\ MinEquity \in Int /\ MaxEquity \in Int
  /\ EquityStep \in Nat \ {0}

VARIABLES
  equity,   \* the account's equity
  signal    \* the signal to be sized

sizing == <<equity, signal>>

Signals == [symbol: {"symbol"}, side: {"BUY", "SELL"},
            entry: EntryPrices, stop: StopPrices]

SizingInit ==
  /\ equity \in {MinEquity, MaxEquity}
  /\ signal \in Signals

Gain ==
  /\ equity + EquityStep <= MaxEquity
  /\ equity' = equity + EquityStep
  /\ UNCHANGED signal

Lose ==
  /\ equity - EquityStep >= MinEquity
  /\ equity' = equity - EquityStep
  /\ UNCHANGED signal

(* Another signal, at the same equity.                                      *)
Offer == signal' \in Signals /\ UNCHANGED equity

SizingSpec == SizingInit /\ [][Gain \/ Lose \/ Offer]_sizing

Sized == PositionSize(equity, signal)

SizingInv == equity \in Int /\ signal \in Signals

-----------------------------------------------------------------------------
(* Properties                                                               *)

WithinLimits(qty) ==
  /\ qty * RiskPerShare(signal) * 100 <= equity * Risk.per_trade_risk_pct
  /\ qty * signal.entry * 100 <= equity * Risk.max_position_pct

(* What sizing.py:14 asks for: the quantity is within the risk budget and   *)
(* the position cap and one share more is not, and none is bought on the    *)
(* wrong side of the stop or out of an account that is under water.         *)
SizingIsExact ==
  IF RiskPerShare(signal) = 0 \/ equity < 0 THEN Sized = 0
  ELSE WithinLimits(Sized) /\ ~WithinLimits(Sized + 1)

(* What was sized is not rejected for its size: the two floors of sizing.py *)
(* never leave an order that guardrails.py:159 or guardrails.py:169 turns   *)
(* away.                                                                    *)
SizedOrdersFit ==
  Sized > 0 => /\ ~TooMuchRisk(signal, Sized, [equity |-> equity])
               /\ ~TooLarge(signal, Sized, [equity |-> equity])
=============================================================================
