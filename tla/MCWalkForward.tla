----------------------------- MODULE MCWalkForward -----------------------------
EXTENDS WalkForwardProps

MCSharpes == {<<2, 1>>, <<1, 2>>}
MCRegimeOfStrategy == [supertrend |-> "TREND", bb_squeeze |-> "VOLATILE"]
MCSectorOfSymbol == [TCS |-> "IT", SBIN |-> "Banking"]
MCGateCfg ==
  [sharpe |-> <<6, 5>>, win_rate |-> <<45, 1>>, profit_factor |-> <<3, 2>>,
   max_drawdown |-> <<20, 1>>, min_trades |-> 2, walk_forward_years |-> 2]

Trade(pnl, strategy, symbol, closed) ==
  [pnl |-> pnl, strategy |-> strategy, symbol |-> symbol, closed |-> closed,
   part |-> IF pnl > 0 THEN 1 ELSE 0, charges |-> 1]

Signal(strategy, symbol, regime, accepted, at) ==
  [strategy |-> strategy, symbol |-> symbol, regime |-> regime, accepted |-> accepted,
   at |-> at]
MCSignalRows ==
  <<Signal("supertrend", "TCS", "TREND", TRUE, <<0, 0>>),
    Signal("bb_squeeze", "SBIN", "RANGE", FALSE, <<0, 0>>),
    Signal("bb_squeeze", "SBIN", "VOLATILE", TRUE, <<0, 1>>),
    Signal("supertrend", "TCS", "RANGE", TRUE, <<1, 0>>)>>

Winning ==
  [trades |-> <<Trade(2, "supertrend", "TCS", 0), Trade(-1, "bb_squeeze", "SBIN", 1),
                Trade(2, "supertrend", "SBIN", 1)>>,
   curve |-> <<12, 11, 13>>]
Losing ==
  [trades |-> <<Trade(-2, "nr_pattern", "ITC", 0), Trade(1, "bb_squeeze", "TCS", 1)>>,
   curve |-> <<8, 9>>]
Falling ==
  [trades |-> <<Trade(3, "bb_squeeze", "TCS", 0), Trade(-1, "supertrend", "ITC", 1),
                Trade(-3, "bb_squeeze", "SBIN", 1)>>,
   curve |-> <<13, 12, 9>>]
Even ==
  [trades |-> <<Trade(1, "nr_pattern", "TCS", 0), Trade(0, "supertrend", "TCS", 1)>>,
   curve |-> <<11, 11>>]
Quiet == [trades |-> <<>>, curve |-> <<10, 10, 10>>]

MCResults == {NoBars, Winning, Losing, Falling, Even, Quiet}

(* A machine in order, and those that differ from it in one or two things.  *)
VariablesOf(key, rest, liveKey, liveRest) ==
  [DATA_KEY |-> key, DATA_REST |-> rest, LIVE_KEY |-> liveKey, LIVE_REST |-> liveRest]
Hidden == VariablesOf("absent", "absent", "absent", "absent")
Written == VariablesOf("app A", "A", "app B", "B")
Ready ==
  [venv |-> TRUE, shell |-> Hidden, dotenv |-> Written, served |-> Hidden,
   config |-> "live", feed |-> "angelone", tests |-> TRUE, data |-> "writable",
   logs |-> TRUE, clock |-> "open", pidFile |-> FALSE, snapshot |-> "missing",
   pid |-> "none", reachable |-> TRUE, account |-> TRUE, balance |-> TRUE,
   dataAccount |-> TRUE, instruments |-> TRUE, socket |-> TRUE]
Conditions ==
  [venv |-> BOOLEAN,
   shell |-> {Hidden, VariablesOf("app B", "absent", "absent", "absent"),
              VariablesOf("", "absent", "absent", "absent")},
   dotenv |-> {Written, Hidden, VariablesOf("app A", "A", "app A", "B"),
               VariablesOf("app A", "A", "absent", "B"), VariablesOf("app A", "A", "app B", ""),
               VariablesOf("app A", "placeholder", "app B", "B"),
               VariablesOf("app A", "A", "app B", "A"), VariablesOf("app A", "A", "absent", "absent")},
   served |-> {Hidden, Written, VariablesOf("app A", "A", "app A", "B")},
   config |-> {"live", "paper", "invalid"}, feed |-> {"angelone", "upstox"},
   tests |-> BOOLEAN, data |-> {"missing", "readonly", "writable"}, logs |-> BOOLEAN,
   clock |-> {"weekend", "early", "open", "late"}, pidFile |-> BOOLEAN,
   snapshot |-> {"missing", "unreadable", "untimed", "old", "fresh"},
   pid |-> {"none", "dead", "alive"}, reachable |-> BOOLEAN, account |-> BOOLEAN,
   balance |-> BOOLEAN, dataAccount |-> BOOLEAN, instruments |-> BOOLEAN,
   socket |-> BOOLEAN]
Changed(S) ==
  S \cup UNION {UNION {{[m EXCEPT ![f] = v] : v \in Conditions[f]} : f \in DOMAIN Conditions} :
                 m \in S}
MCMachines == Changed(Changed({Ready}))
=============================================================================
