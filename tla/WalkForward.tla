------------------------------ MODULE WalkForward ------------------------------
(***************************************************************************)
(* Walk-forward validation and the gate in front of live trading            *)
(* (backtest/walk_forward.py, backtest/gate.py, cli.py walk-forward): the   *)
(* windows of a run are backtested by a pool of worker processes, which     *)
(* finish in any order; their results are stitched together, measured and   *)
(* held against thresholds, and the verdict is a file that live trading     *)
(* reads when it starts.                                                    *)
(*                                                                          *)
(* A backtest is one of Results: its trades and its equity curve, or        *)
(* NoBars where there are none for the window. A trade is closed so many    *)
(* days into the window. Time is counted in months inside the history and   *)
(* in days outside.                                                         *)
(***************************************************************************)
EXTENDS Analytics, Gate

CONSTANTS
  Results,        \* results of a window, with NoBars among them
  Years,          \* what --years may ask for
  MonthsPerYear,
  WindowMonths,   \* --window-months
  Workers,        \* processes in the pool
  StartingEquity,
  GateCfg         \* thresholds, as BacktestGateCfg; walk_forward_years in years

NoBars == [trades |-> <<>>, curve |-> <<>>]
ASSUME WalkForwardAssumption ==
  /\ MonthsPerYear \in Nat \ {0}
  /\ WindowMonths \in Nat \ {0}
  /\ Workers \in Nat \ {0}
  /\ Years \subseteq Nat \ {0}
  /\ StartingEquity \in Nat \ {0}

(* The engine refuses a window without bars, and its first record is the    *)
(* cash it starts with. An account that shorts took below zero is left out. *)
(* It appends a trade when it closes, on a day of the window.               *)
ASSUME ResultsAssumption ==
  \A result \in Results \ {NoBars} :
    /\ result.curve \in Seq(Nat) /\ result.curve # <<>> /\ result.curve[1] > 0
    /\ result.trades \in Seq(ClosedTrade)
    /\ \A k \in DOMAIN result.trades :
         /\ result.trades[k].closed <= WindowMonths * DaysPerMonth
         /\ \A j \in 1..k : result.trades[j].closed <= result.trades[k].closed

VARIABLES
  wf,         \* the command: its stage, the years asked for and its verdict
  ranges,     \* date_ranges: the windows, in order
  windows,    \* windows_map: by index, the result of a window that has one
  skipped     \* indexes of the windows that raised ValueError

run == <<wf, ranges, windows, skipped>>
wfVars == <<gateVars, run>>

Idle == [stage |-> "idle", years |-> 0, verdict |-> NoFile]

WalkForwardInit ==
  /\ GateInit
  /\ wf = Idle
  /\ ranges = <<>>
  /\ windows = <<>>
  /\ skipped = {}

(* The command ends, and what was in its memory is gone.                    *)
EndOfCommand ==
  /\ wf' = Idle
  /\ ranges' = <<>>
  /\ windows' = <<>>
  /\ skipped' = {}

-----------------------------------------------------------------------------
(* run_walk_forward                                                         *)

(* From the start, WindowMonths at a time; the last is what is left.        *)
DateRanges(years) ==
  LET months == years * MonthsPerYear
      end(i) == IF i * WindowMonths < months THEN i * WindowMonths ELSE months
  IN  [i \in 1..((months + WindowMonths - 1) \div WindowMonths) |->
         [start |-> (i - 1) * WindowMonths, end |-> end(i)]]

StartWalkForward(years) ==
  /\ wf = Idle
  /\ wf' = [stage |-> "pool", years |-> years, verdict |-> NoFile]
  /\ ranges' = DateRanges(years)
  /\ UNCHANGED <<gateVars, windows, skipped>>

Unfinished == DOMAIN ranges \ (DOMAIN windows \cup skipped)

(* The pool takes windows from its queue as workers become free.            *)
Running ==
  {i \in Unfinished : Cardinality({j \in Unfinished : j < i}) < Workers}

(* The engine raises ValueError when it has no bars, and the window is left *)
(* out.                                                                     *)
WindowCompletes(i, result) ==
  /\ wf.stage = "pool"
  /\ i \in Running
  /\ IF result = NoBars
     THEN skipped' = skipped \cup {i} /\ UNCHANGED windows
     ELSE /\ windows' = [j \in DOMAIN windows \cup {i} |->
                           IF j = i THEN result ELSE windows[j]]
          /\ UNCHANGED skipped
  /\ UNCHANGED <<gateVars, wf, ranges>>

(* Any other exception of a worker, and the operator's Ctrl-C, end the      *)
(* command; the file is as it was.                                          *)
Abort ==
  /\ wf.stage = "pool"
  /\ EndOfCommand
  /\ UNCHANGED gateVars

-----------------------------------------------------------------------------
(* _aggregate                                                               *)

(* The windows that have a result, in the order of their dates.             *)
InOrder == Ascending(DOMAIN windows)

(* The trades of a window, with the days on which they closed.              *)
TradesOf(i) ==
  [k \in DOMAIN windows[i].trades |->
     [windows[i].trades[k] EXCEPT !.closed = @ + ranges[i].start * DaysPerMonth]]

AllTrades == FoldLeft(LAMBDA trades, i : trades \o TradesOf(i), <<>>, InOrder)

(* Each curve is scaled to begin where the one before it ended.             *)
Stitched ==
  LET append(curve, i) ==
        LET ec      == windows[i].curve
            running == EndingEquity(curve, StartingEquity)
        IN  curve \o [j \in DOMAIN ec |-> Times(running, Lowest(ec[j], ec[1]))]
  IN  FoldLeft(append, <<>>, InOrder)

Covered(i) == ranges[i].end - ranges[i].start

PeriodMonths == MapThenSumSet(Covered, DOMAIN windows)

Aggregate == ComputeMetrics(Pnls(AllTrades), Stitched, StartingEquity, PeriodMonths)

-----------------------------------------------------------------------------
(* The gate                                                                 *)

(* Mutant of Failures: the drawdown is not among the checks.                *)
FailuresWithoutDrawdown(metrics, years) ==
  {name \in {"sharpe", "win_rate", "profit_factor"} :
     ~AtLeast(metrics[name], GateCfg[name])}

(* _ge and _le; too few years is a failure of its own.                      *)
Failures(metrics, years) ==
  {name \in {"sharpe", "win_rate", "profit_factor"} :
     ~AtLeast(metrics[name], GateCfg[name])}
  \cup (IF AtLeast(GateCfg.max_drawdown, metrics.max_drawdown) THEN {}
        ELSE {"max_drawdown"})
  \cup (IF metrics.n_trades >= GateCfg.min_trades THEN {} ELSE {"n_trades"})
  \cup (IF years >= GateCfg.walk_forward_years THEN {} ELSE {"walk_forward_years"})

(* The reference: every threshold of the gate, one by one.                  *)
MeetsAll(metrics) ==
  /\ AtLeast(metrics.sharpe, GateCfg.sharpe)
  /\ AtLeast(metrics.win_rate, GateCfg.win_rate)
  /\ AtLeast(metrics.profit_factor, GateCfg.profit_factor)
  /\ AtLeast(GateCfg.max_drawdown, metrics.max_drawdown)
  /\ metrics.n_trades >= GateCfg.min_trades

(* The years the verdict is given for are those that were asked for.        *)
EvaluateGate(metrics) ==
  /\ wf.stage = "pool"
  /\ Unfinished = {}
  /\ wf' = [stage |-> "write", years |-> wf.years,
            verdict |-> [passed |-> Failures(metrics, wf.years) = {},
                         timestamp |-> today]]
  /\ sound' = IF MeetsAll(metrics) THEN sound \cup {today} ELSE sound
  /\ gateFile' = Torn
  /\ UNCHANGED <<today, ranges, windows, skipped>>

(* write_text truncates the file, and then writes it.                       *)
WriteGateResult ==
  /\ wf.stage = "write"
  /\ gateFile' = wf.verdict
  /\ EndOfCommand
  /\ UNCHANGED <<today, sound>>

(* The process dies between the two.                                        *)
DiesWriting ==
  /\ wf.stage = "write"
  /\ EndOfCommand
  /\ UNCHANGED gateVars

WalkForwardNext ==
  \/ NextDay /\ UNCHANGED run
  \/ \E years \in Years : StartWalkForward(years)
  \/ \E i \in DOMAIN ranges, result \in Results : WindowCompletes(i, result)
  \/ Abort
  \/ Unfinished = {} /\ \E metrics \in Aggregate : EvaluateGate(metrics)
  \/ WriteGateResult
  \/ DiesWriting

WalkForwardSpec == WalkForwardInit /\ [][WalkForwardNext]_wfVars
=============================================================================
