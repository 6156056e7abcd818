-------------------------------- MODULE Preflight --------------------------------
(***************************************************************************)
(* What the program says of itself before it trades: the start of the agent *)
(* (cli.py run) and the diagnostics that foretell it, on the command line   *)
(* (preflight, check-gate, check-config, status, health-check,              *)
(* test-live-broker) and over HTTP (api/main.py).                           *)
(*                                                                          *)
(* Each is an operator on a machine: the shell's variables, the .env file,  *)
(* the directories, the clock, the snapshot a running agent leaves, whether *)
(* the broker is reachable and knows the accounts of data and orders, and   *)
(* what else the data feed needs. The gate is the state's.                  *)
(***************************************************************************)
EXTENDS Gate, FiniteSets

CONSTANT Machines   \* the machines that are asked about

(* The keys of the two apps of Angel One, that of the data and that of the  *)
(* orders; client code, password and TOTP secret of an app are one.         *)
DataKeys == {"DATA_KEY", "DATA_REST"}
LiveKeys == {"LIVE_KEY", "LIVE_REST"}

(* "absent" is a variable that is not there.                                *)
Variables == [DataKeys \cup LiveKeys -> STRING]
Machine ==
  [venv: BOOLEAN, shell: Variables, dotenv: Variables, served: Variables,
   config: {"live", "paper", "invalid"}, feed: {"angelone", "upstox"},
   tests: BOOLEAN, data: {"missing", "readonly", "writable"}, logs: BOOLEAN,
   clock: {"weekend", "early", "open", "late"}, pidFile: BOOLEAN,
   snapshot: {"missing", "unreadable", "untimed", "old", "fresh"},
   pid: {"none", "dead", "alive"}, reachable: BOOLEAN, account: BOOLEAN,
   balance: BOOLEAN, dataAccount: BOOLEAN, instruments: BOOLEAN, socket: BOOLEAN]

ASSUME PreflightAssumption == \A m \in Machines : m \in Machine

(* load_dotenv: a variable that the process has, be it empty, hides that of *)
(* the file unless it is to be overridden.                                  *)
Loaded(above, below) ==
  [k \in DataKeys \cup LiveKeys |-> IF above[k] # "absent" THEN above[k] ELSE below[k]]

(* getenv gives "" for none.                                                *)
Environ(variables) ==
  [k \in DOMAIN variables |-> IF variables[k] = "absent" THEN "" ELSE variables[k]]

(* The variables of a command, and those of the server, which overrode the  *)
(* shell's with the file as it was when it last read it.                    *)
CliEnv(m) == Environ(Loaded(m.shell, m.dotenv))
ServerVariables(m) == Loaded(m.served, m.shell)

Complete(env, keys) == \A k \in keys : env[k] # ""
SameApp(env) == env["LIVE_KEY"] # "" /\ env["LIVE_KEY"] = env["DATA_KEY"]
WellFormed(env) ==
  Complete(env, DataKeys) /\ \A k \in DataKeys : env[k] # "placeholder"

-----------------------------------------------------------------------------
(* Starting                                                                 *)

(* from_env and connect: the constructor wants a key of its own, and the    *)
(* broker an account it knows.                                              *)
BrokerFromEnv(env) == env["LIVE_KEY"] # "" /\ ~SameApp(env)
Session(m, env) ==
  BrokerFromEnv(env) /\ env["LIVE_REST"] # "" /\ m.reachable /\ m.account

(* _build_feed: one feed is implemented, and its constructor wants all of   *)
(* the data credentials.                                                    *)
FeedBuilt(m, env) == m.feed = "angelone" /\ Complete(env, DataKeys)

(* connect and subscribe: a login within the tries, today's instrument      *)
(* master from the cache or the network, and a socket that opens in time.   *)
FeedConnects(m) == m.reachable /\ m.dataAccount /\ m.instruments /\ m.socket

(* cmd_run, up to the loop.                                                 *)
Start(m) ==
  IF m.config = "invalid" THEN "config error"
  ELSE IF m.config = "live" /\ ~IsLiveAllowed THEN "blocked"
  ELSE IF m.data = "readonly" THEN "no store"
  ELSE IF m.config = "live" /\ ~Session(m, CliEnv(m)) THEN "no session"
  ELSE IF ~FeedBuilt(m, CliEnv(m)) THEN "no feed"
  ELSE IF ~FeedConnects(m) THEN "no data"
  ELSE "running"

-----------------------------------------------------------------------------
(* The gate, as it is shown                                                 *)

GateRead == gateFile \notin {NoFile, Torn}
GateAge == today - gateFile.timestamp

(* check-gate and status.                                                   *)
GateLabel ==
  IF ~GateRead THEN "NO FILE"
  ELSE IF gateFile.passed /\ GateAge <= GateMaxAge THEN "PASSED"
  ELSE IF gateFile.passed THEN "EXPIRED" ELSE "FAILED"

-----------------------------------------------------------------------------
(* Sessions that are tried                                                  *)

(* check-gate --check-live.                                                 *)
CheckGateLive(m) ==
  LET env == CliEnv(m)
  IN  IF ~Complete(env, LiveKeys) THEN "SKIP"
      ELSE IF SameApp(env) \/ m.config = "invalid" \/ ~Session(m, env) THEN "FAIL"
      ELSE IF m.balance THEN "OK" ELSE "WARN"

(* check-gate: without a file it ends before it tries.                      *)
CheckGate(m) ==
  [label |-> GateLabel, allowed |-> IsLiveAllowed,
   live  |-> IF GateRead THEN CheckGateLive(m) ELSE "none"]

(* test-live-broker.                                                        *)
TestLiveBroker(m) ==
  LET env == CliEnv(m)
  IN  IF ~Complete(env, LiveKeys) \/ SameApp(env) THEN "FAIL"
      ELSE IF m.config = "invalid" \/ ~Session(m, env) THEN "FAIL"
      ELSE IF m.balance THEN "OK" ELSE "WARN"

(* POST /api/live-broker/test: the server does not read the file again.     *)
TestLiveBrokerConnection(m) ==
  LET env == Environ(ServerVariables(m))
      connected == /\ Complete(env, LiveKeys) /\ ~SameApp(env)
                   /\ m.config # "invalid" /\ Session(m, env)
  IN  [connected |-> connected, error |-> ~connected \/ ~m.balance]

-----------------------------------------------------------------------------
(* preflight                                                                *)

SnapshotRead(m) == m.snapshot \in {"untimed", "old", "fresh"}

(* Check 10: asked only when there is a pid file.                           *)
SnapshotFresh(m) == m.pidFile => m.snapshot \in {"untimed", "fresh"}

(* Checks 1 to 5, with the variables at hand.                               *)
EnvironmentChecks(m, env) ==
  [venv |-> m.venv, present |-> Complete(env, DataKeys), format |-> WellFormed(env),
   gate |-> IsLiveAllowed, config |-> m.config # "invalid"]

(* Checks 7 to 10.                                                          *)
MachineChecks(m) ==
  [data |-> m.data = "writable", logs |-> m.logs, hours |-> m.clock = "open",
   snapshot |-> SnapshotFresh(m)]

(* Check 15: in paper mode the keys may be missing, not be the same.        *)
LiveCredentials(m, env) ==
  /\ m.config = "live" => Complete(env, LiveKeys)
  /\ m.config = "live" \/ Complete(env, LiveKeys) => ~SameApp(env)

(* Mutant of LiveConnects: the session itself is not tried.                 *)
LiveConnectsUntried(m, env) == Complete(env, LiveKeys) /\ ~SameApp(env) /\ m.balance

(* Check 16, of --check-live.                                               *)
LiveConnects(m, env) ==
  Complete(env, LiveKeys) /\ ~SameApp(env) /\ Session(m, env) /\ m.balance

AllPass(checks) == \A name \in DOMAIN checks : checks[name]

(* cmd_preflight: the command succeeds when every check does, that of the   *)
(* hours among them.                                                        *)
Preflight(m, checkLive) ==
  /\ AllPass(EnvironmentChecks(m, CliEnv(m)))
  /\ m.tests
  /\ AllPass(MachineChecks(m))
  /\ LiveCredentials(m, CliEnv(m))
  /\ checkLive => LiveConnects(m, CliEnv(m))

(* GET /api/preflight: reads the file, overriding; a smoke test loads the   *)
(* configuration once more in place of the tests.                           *)
GetPreflight(m) ==
  /\ AllPass(EnvironmentChecks(m, Environ(Loaded(m.dotenv, ServerVariables(m)))))
  /\ AllPass(MachineChecks(m))

-----------------------------------------------------------------------------
(* Warnings and states                                                      *)

(* check-config: warnings. The pairs of the two apps are compared one by    *)
(* one.                                                                     *)
CheckConfig(m) ==
  LET env == CliEnv(m)
      pair == [LIVE_KEY |-> "DATA_KEY", LIVE_REST |-> "DATA_REST"]
  IN  (IF \E k \in DataKeys : env[k] = "placeholder" THEN {"placeholder"} ELSE {})
      \cup (IF m.config = "live" /\ ~IsLiveAllowed THEN {"gate"} ELSE {})
      \cup (IF \E k \in LiveKeys : env[k] # "" /\ env[k] = env[pair[k]]
            THEN {"same app"} ELSE {})

(* status: the process whose id is in the snapshot is looked for.           *)
Status(m) ==
  [running |-> IF ~SnapshotRead(m) \/ m.pid = "none" THEN "unknown"
               ELSE IF m.pid = "alive" THEN "yes" ELSE "no",
   gate    |-> GateLabel]

(* health-check --json.                                                     *)
HealthCheck(m) ==
  [healthy       |-> m.config # "invalid",
   agent_running |-> SnapshotRead(m) /\ m.pid = "alive",
   gate_passed   |-> GateRead /\ gateFile.passed /\ GateAge <= GateMaxAge]

(* GET /api/status: no snapshot has a key "running", and a verdict does not *)
(* grow old.                                                                *)
GetStatus(m) ==
  [agent_running |-> FALSE,
   gate_passed   |-> GateRead /\ gateFile.passed,
   service       |-> m.pid = "alive"]

(* POST /api/credentials/save-angel-one: lines are replaced or appended.    *)
SaveAngelOne(m, key, rest) ==
  IF key = "" \/ rest = "" THEN m
  ELSE [m EXCEPT !.dotenv["DATA_KEY"] = key, !.dotenv["DATA_REST"] = rest]
=============================================================================
