--------------------------- MODULE OrchestratorProps ---------------------------
(***************************************************************************)
(* What the agent process (core/execution/orchestrator.py) has to get       *)
(* right across ticks, threads, days, crashes and restarts.                 *)
(***************************************************************************)
EXTENDS Orchestrator, PaperBrokerProps

Up == pc # "down"

(* The daily-loss circuit measures a day against the first equity the agent *)
(* saw that day, and the row a restart reads says the same, however often   *)
(* the process crashed, restarted or ran across midnight                    *)
(* (orchestrator.py:544: "On a same-day restart we MUST restore the         *)
(* morning's baseline").                                                    *)
MorningBaseline ==
  Up => /\ daily.start = morning[daily.date]
        /\ Row(daily) = dailyRows[daily.date]

(* Once the square-off has run, the account stays flat to the end of the    *)
(* day, for the process that ran it and for any that restarts: no signal or *)
(* command opens a position again and no stale row brings one back          *)
(* (orchestrator.py:896, guardrails.py:119).                                *)
FlatAfterClose ==
  Up /\ closedOn = clock.day => OpenPositions(book) = {}

WithinLimit == Cardinality(OpenPositions(book)) <= Risk.max_open_positions

(* Signals and commands together never hold more positions than the limit,  *)
(* restarts included, unless orders for two symbols were in flight at once  *)
(* (guardrails.py:150): that race is the only way past it.                  *)
LimitUnlessRaced == Up /\ ~overlapped => WithinLimit

SamePositions(b, a) ==
  \A s \in Symbols : /\ Unmarked(a.longs[s]) = Unmarked(b.longs[s])
                     /\ Unmarked(a.shorts[s]) = Unmarked(b.shorts[s])

(* orchestrator.py:137: a process that restarts on the day it was started   *)
(* has the cash and the positions its predecessor had.                      *)
Restarts == pc = "down" /\ pc' # "down" /\ daily.date = clock.day

CarriedOver == book'.cash = book.cash /\ SamePositions(book, book')

SameDayRestart ==
  [][Restarts /\ startedOn = clock.day => CarriedOver]_agentVars

Triggered == DailyLossCircuit(Portfolio) \/ DrawdownCircuit(Portfolio)

(* A loss past a circuit that lasts halts the agent, on whichever thread it *)
(* came about and wherever in its tick the main thread was                  *)
(* (orchestrator.py:946).                                                   *)
CircuitHalts == Up /\ Triggered ~> ~Up \/ halted \/ ~Triggered

=============================================================================
