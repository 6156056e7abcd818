---------------------------------- MODULE Gate ----------------------------------
(***************************************************************************)
(* The gate in front of live trading (backtest/gate.py), as live trading    *)
(* sees it: a file with a verdict and the day of the verdict, which a       *)
(* validation replaces and an interrupted write destroys. How a validation  *)
(* comes to its verdict is WalkForward's, which implements this module.     *)
(***************************************************************************)
EXTENDS Integers

CONSTANTS
  GateMaxAge,   \* GATE_MAX_AGE_DAYS
  LastDay       \* bound: days 0..LastDay

ASSUME GateAssumption == GateMaxAge \in Nat /\ LastDay \in Nat

VARIABLES
  today,      \* the date
  gateFile,   \* data/backtest_gate.json
  sound       \* history: days on which a validation met every threshold

gateVars == <<today, gateFile, sound>>

NoFile == [passed |-> FALSE, timestamp |-> -1]

(* What a process that died while writing leaves: read_gate_result cannot   *)
(* parse it.                                                                *)
Torn == [passed |-> FALSE, timestamp |-> -2]

GateInit ==
  /\ today = 0
  /\ gateFile = NoFile
  /\ sound = {}

NextDay ==
  /\ today < LastDay
  /\ today' = today + 1
  /\ UNCHANGED <<gateFile, sound>>

(* A validation has its verdict; write_text truncates the file ...          *)
Verdict(passed) ==
  /\ gateFile' = Torn
  /\ sound' = IF passed THEN sound \cup {today} ELSE sound
  /\ UNCHANGED today

(* ... and writes it, a passing one only of a day that had one.             *)
WriteVerdict(passed, day) ==
  /\ gateFile = Torn
  /\ passed => day \in sound
  /\ gateFile' = [passed |-> passed, timestamp |-> day]
  /\ UNCHANGED <<today, sound>>

(* Mutant of IsLiveAllowed: a verdict never grows old.                      *)
IsLiveAllowedForEver == gateFile.passed

IsLiveAllowed ==
  /\ gateFile.passed
  /\ today - gateFile.timestamp <= GateMaxAge

GateNext ==
  \/ NextDay
  \/ \E passed \in BOOLEAN :
       \/ Verdict(passed)
       \/ \E day \in 0..today : WriteVerdict(passed, day)

GateSpec == GateInit /\ [][GateNext]_gateVars
=============================================================================
