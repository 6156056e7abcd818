------------------------------ MODULE CommandQueue ------------------------------
(***************************************************************************)
(* The file-based command queue (core/command_queue.py) between the API,    *)
(* MCP and CLI processes, which append commands to data/commands.jsonl, and *)
(* the agent, which reads the pending ones at the start of every tick,      *)
(* executes them and rewrites the file to record what became of each        *)
(* (Orchestrator._process_command_queue).                                   *)
(*                                                                          *)
(* update_status reads the whole file, truncates it and writes it back, and *)
(* no lock keeps a producer or a crash out of the middle: the three are     *)
(* steps of their own here. Two of the commands change the limits in force, *)
(* which the config file sets too, with the overlay of an environment over  *)
(* it, at the start and once a minute; one of them, max_open_positions,     *)
(* stands for all.                                                          *)
(***************************************************************************)
EXTENDS Integers, SequencesExt

CONSTANTS
  Commands,     \* the commands that may be submitted
  Request,      \* what each of them asks for, who submits it, and the limit,
                \* the quantity and the symbol (in Nifty 50 or not) it carries
  Unsigned,     \* those whose signature the agent's secret does not verify
  NoCommand,    \* no command in hand
  NoCap,        \* no limit
  Torn, Ruined, \* a config file caught while it is written, or without the rest
  DefaultCap,   \* the limit in config/default.yaml at first
  StartCap,     \* the one in the file --config names instead, or NoCap
  Environments, \* the overlays a process may be started with: what the one
                \* of --env or else APP_ENV sets at the start, and what the
                \* one of APP_ENV sets at a reload; NoCap is no such setting
  ReloadTicks,  \* bound: ticks between two reloads (60 s in the code)
  MaxSubmitted, \* bound: commands submitted in a behaviour
  MaxCrashes    \* bound: crashes in a behaviour

AllowedTypes ==
  {"halt_agent", "resume_agent", "update_risk_param", "place_paper_order", "reload_config"}
Producers == {"mcp", "api", "simulator", "cli", "controls", "positions", "review"}
Statuses == {"pending", "processing", "done", "rejected"}

ASSUME CommandQueueAssumption ==
  /\ Request \in [Commands -> [kind : AllowedTypes, by : Producers, cap : Nat \cup {NoCap},
                             qty : Int, listed : BOOLEAN]]
  /\ Unsigned \subseteq Commands
  /\ NoCommand \notin Commands
  /\ {NoCap, Torn, Ruined} \cap Nat = {}
  /\ DefaultCap \in Nat
  /\ StartCap \in Nat \cup {NoCap}
  /\ Environments # {}
  /\ Environments \subseteq [start : Nat \cup {NoCap}, reload : Nat \cup {NoCap}]
  /\ {ReloadTicks, MaxSubmitted, MaxCrashes} \subseteq Nat

VARIABLES
  file,        \* the lines of commands.jsonl
  pc,          \* where the agent is; "down" when no agent runs
  scan,        \* lines that read_pending has yet to look at
  batch,       \* commands read and verified, not yet taken
  cmd,         \* the command in hand
  verdict,     \* the status update_status is recording for it
  copy,        \* the lines update_status is about to write back
  halted,      \* Orchestrator.halted
  risk,        \* max_open_positions in force (Settings.risk)
  since,       \* ticks since the last reload; a new process is due for one
  disk,        \* what default.yaml says of it: a limit, Torn or Ruined
  overlay,     \* the environment of the last process that was started
  saving,      \* dashboard requests queued, the file not yet opened
  writing,     \* dashboard requests the file is open for, and what they read
  submitted,   \* history: commands in the order of enqueue
  log,         \* history: commands in the order of their execution
  crashes      \* history: crashes so far

limits == <<risk, since>>
config == <<disk, overlay, saving, writing>>
agent == <<pc, scan, batch, cmd, verdict, copy, halted>>
vars == <<file, agent, limits, config, submitted, log, crashes>>

Entry == [id: Commands, status: Statuses]
PendingIn(lines) == {e.id : e \in {e \in ToSet(lines) : e.status = "pending"}}

Init ==
  /\ file = <<>>
  /\ pc = "down"
  /\ scan = <<>>
  /\ batch = <<>>
  /\ cmd = NoCommand
  /\ verdict = "pending"
  /\ copy = <<>>
  /\ halted = FALSE
  /\ risk = DefaultCap
  /\ since = ReloadTicks
  /\ disk = DefaultCap
  /\ overlay \in Environments
  /\ saving = {}
  /\ writing = {}
  /\ submitted = <<>>
  /\ log = <<>>
  /\ crashes = 0

-----------------------------------------------------------------------------
(* The producers                                                            *)

IsUpdate(r) == r.kind = "update_risk_param"
IsOrder(r) == r.kind = "place_paper_order"
IsHalt(r) == r.kind = "halt_agent"
IsResume(r) == r.kind = "resume_agent"

(* MCP's tools: SAFE_BOUNDS on the limits, 1-1000 shares of a Nifty 50      *)
(* symbol in an order.                                                      *)
McpHalts(r) == IsHalt(r)
McpResumes(r) == IsResume(r)
McpUpdates(r) == IsUpdate(r) /\ r.cap \in 1..5
McpOrders(r) == IsOrder(r) /\ r.qty \in 1..1000 /\ r.listed

(* The API's: an order is any symbol and at least one share, from the order *)
(* form and from the simulator's, whose limits are 1 to 20.                 *)
ApiHalts(r) == IsHalt(r)
ApiResumes(r) == IsResume(r)
ApiOrders(r) == IsOrder(r) /\ r.qty >= 1
SimulatorOrders(r) == IsOrder(r) /\ r.qty >= 1
SimulatorLimits(r) == IsUpdate(r) /\ r.cap \in 1..20

(* The command line, the dashboard's controls, its Close button on an open  *)
(* position, and what the last review suggested, queued as it stands.       *)
CommandLine(r) == IsHalt(r) \/ IsResume(r) \/ r.kind = "reload_config"
Sliders(r) == IsUpdate(r) /\ r.cap \in 1..8
Buttons(r) == IsHalt(r) \/ IsResume(r)
CloseButton(r) == IsOrder(r) /\ r.qty >= 1
Suggestions(r) == IsUpdate(r)

Validated(r) ==
  CASE r.by = "mcp" -> McpHalts(r) \/ McpResumes(r) \/ McpUpdates(r) \/ McpOrders(r)
    [] r.by = "api" -> ApiHalts(r) \/ ApiResumes(r) \/ ApiOrders(r)
    [] r.by = "simulator" -> SimulatorOrders(r) \/ SimulatorLimits(r)
    [] r.by = "cli" -> CommandLine(r)
    [] r.by = "controls" -> Sliders(r) \/ Buttons(r)
    [] r.by = "positions" -> CloseButton(r)
    [] r.by = "review" -> Suggestions(r)

(* The sliders' values go to the queue and then to the config file.         *)
SavesToo(c) == Request[c].by = "controls" /\ IsUpdate(Request[c])

(* One appending write: it lands wherever the file ends at that moment.     *)
enqueue(c) ==
  /\ c \notin ToSet(submitted)
  /\ Len(submitted) < MaxSubmitted
  /\ Validated(Request[c])
  /\ submitted' = Append(submitted, c)
  /\ file' = Append(file, [id |-> c, status |-> "pending"])
  /\ saving' = IF SavesToo(c) THEN saving \cup {c} ELSE saving
  /\ UNCHANGED <<agent, limits, disk, overlay, writing, log, crashes>>

(* write_config_risk, first part: what the file says is read, and opening   *)
(* it for writing empties it.                                               *)
OpenConfig(c) ==
  /\ c \in saving
  /\ saving' = saving \ {c}
  /\ writing' = writing \cup {[id |-> c, whole |-> disk \notin {Torn, Ruined}]}
  /\ disk' = Torn
  /\ UNCHANGED <<file, agent, limits, overlay, submitted, log, crashes>>

(* write_config_risk, second part: the section on risk is written back with *)
(* the rest of what was read: a file read empty loses everything else.      *)
SaveConfig(w) ==
  /\ w \in writing
  /\ writing' = writing \ {w}
  /\ disk' = IF w.whole THEN Request[w.id].cap ELSE Ruined
  /\ UNCHANGED <<file, agent, limits, overlay, saving, submitted, log, crashes>>

-----------------------------------------------------------------------------
(* The agent                                                                *)

(* A tick begins: read_pending goes through the lines it finds now.         *)
ReadPending ==
  /\ pc = "idle"
  /\ pc' = "scan"
  /\ scan' = file
  /\ UNCHANGED <<file, batch, cmd, verdict, copy, halted, limits, config, submitted, log, crashes>>

StartUpdate(c, status) ==
  /\ cmd' = c
  /\ verdict' = status
  /\ pc' = "read"

(* read_pending leaves out a line that is not pending, and rejects, on the  *)
(* way, a command that does not verify.                                     *)
VerifyNext ==
  /\ pc = "scan"
  /\ scan # <<>>
  /\ scan' = Tail(scan)
  /\ \/ /\ Head(scan).status # "pending"
        /\ UNCHANGED <<batch, pc, cmd, verdict>>
     \/ /\ Head(scan).status = "pending"
        /\ Head(scan).id \in Unsigned
        /\ StartUpdate(Head(scan).id, "rejected")
        /\ UNCHANGED batch
     \/ /\ Head(scan).status = "pending"
        /\ Head(scan).id \notin Unsigned
        /\ batch' = Append(batch, Head(scan).id)
        /\ UNCHANGED <<pc, cmd, verdict>>
  /\ UNCHANGED <<file, copy, halted, limits, config, submitted, log, crashes>>

(* Mutant of TakeNext: the command is executed before it is marked.         *)
TakeNextUnmarked ==
  /\ pc = "scan"
  /\ scan = <<>>
  /\ batch # <<>>
  /\ batch' = Tail(batch)
  /\ cmd' = Head(batch)
  /\ pc' = "execute"
  /\ UNCHANGED <<verdict, file, scan, copy, halted, limits, config, submitted, log, crashes>>

(* Mutant of TakeNext: the command is settled without being executed.       *)
TakeNextAsDone ==
  /\ pc = "scan"
  /\ scan = <<>>
  /\ batch # <<>>
  /\ batch' = Tail(batch)
  /\ StartUpdate(Head(batch), "done")
  /\ UNCHANGED <<file, scan, copy, halted, limits, config, submitted, log, crashes>>

(* Every command of the batch is marked before it is executed.              *)
TakeNext ==
  /\ pc = "scan"
  /\ scan = <<>>
  /\ batch # <<>>
  /\ batch' = Tail(batch)
  /\ StartUpdate(Head(batch), "processing")
  /\ UNCHANGED <<file, scan, copy, halted, limits, config, submitted, log, crashes>>

(* update_status, read: the line of the command gets its new status.        *)
UpdateRead ==
  /\ pc = "read"
  /\ copy' = [i \in DOMAIN file |->
                IF file[i].id = cmd THEN [file[i] EXCEPT !.status = verdict]
                ELSE file[i]]
  /\ pc' = "truncate"
  /\ UNCHANGED <<file, scan, batch, cmd, verdict, halted, limits, config, submitted, log, crashes>>

(* update_status, write_text: opening the file for writing empties it.      *)
UpdateTruncate ==
  /\ pc = "truncate"
  /\ file' = <<>>
  /\ pc' = "write"
  /\ UNCHANGED <<scan, batch, cmd, verdict, copy, halted, limits, config, submitted, log, crashes>>

(* update_status, write_text: the copy goes to the start of the file, over  *)
(* whatever was appended meanwhile.                                         *)
UpdateWrite ==
  /\ pc = "write"
  /\ file' = copy
  /\ pc' = IF verdict = "processing" THEN "execute" ELSE "scan"
  /\ UNCHANGED <<scan, batch, cmd, verdict, copy, halted, limits, config, submitted, log, crashes>>

(* An overlay cannot be merged over an empty file, and none of those there  *)
(* are has all of what a ruined one lacks.                                  *)
CanLoad == disk \notin {Torn, Ruined}

(* _deep_merge: what the overlay sets replaces what the file says.          *)
Merged(base, over) == IF over = NoCap THEN base ELSE over

(* Mutant of Reload: the reload leaves the overlay out.                     *)
ReloadBase ==
  /\ risk' = IF CanLoad THEN disk ELSE risk
  /\ since' = 0

(* Orchestrator's two reloads take the default file and the overlay of      *)
(* APP_ENV, whichever of them the process was started with.                 *)
Reload ==
  /\ risk' = IF CanLoad THEN Merged(disk, overlay.reload) ELSE risk
  /\ since' = 0

(* The agent finds the limit it is to set: the simulator's form names it    *)
(* "key" where the agent reads "param", and a suggestion may name a setting *)
(* of a strategy, which the risk settings do not have.                      *)
NamesLimit(r) == r.by # "simulator" /\ r.cap # NoCap

(* What a command does once it is marked, and the verdict on it.            *)
Effect(r, v) ==
  \/ /\ IsHalt(r) /\ v = "done"
     /\ halted' = TRUE
     /\ UNCHANGED limits
  \* refused while the day's loss is over the circuit
  \/ /\ IsResume(r) /\ v \in {"done", "rejected"}
     /\ halted' = (halted /\ v = "rejected")
     /\ UNCHANGED limits
  \/ /\ IsUpdate(r) /\ NamesLimit(r) /\ v = "done"
     /\ risk' = r.cap
     /\ UNCHANGED <<halted, since>>
  \/ /\ IsUpdate(r) /\ ~NamesLimit(r) /\ v = "rejected"
     /\ UNCHANGED <<halted, limits>>
  \* refused for want of a price or by a guardrail, always while halted
  \/ /\ IsOrder(r)
     /\ v \in IF halted \/ r.qty <= 0 THEN {"rejected"} ELSE {"done", "rejected"}
     /\ UNCHANGED <<halted, limits>>
  \/ /\ r.kind = "reload_config"
     /\ \/ v = "done" /\ CanLoad /\ Reload
        \/ v = "rejected" /\ ~CanLoad /\ UNCHANGED limits
     /\ UNCHANGED halted

(* The command takes effect, or raises, which rejects it.                   *)
Execute ==
  /\ pc = "execute"
  /\ \E v \in {"done", "rejected"} :
       /\ Effect(Request[cmd], v)
       /\ StartUpdate(cmd, v)
       /\ log' = Append(log, [id |-> cmd, verdict |-> v])
  /\ UNCHANGED <<file, scan, batch, copy, config, submitted, crashes>>

(* The rest of the tick: the reload, when it is due, then the circuits,     *)
(* which may halt the agent; cmd_run leaves its loop, and the process ends, *)
(* once the agent is halted.                                                *)
EndTick ==
  /\ pc = "scan"
  /\ scan = <<>>
  /\ batch = <<>>
  /\ IF since = ReloadTicks THEN Reload
     ELSE since' = since + 1 /\ UNCHANGED risk
  /\ halted' \in {halted, TRUE}
  /\ pc' = IF halted' THEN "down" ELSE "idle"
  /\ UNCHANGED <<file, scan, batch, cmd, verdict, copy, config, submitted, log, crashes>>

(* A new process (restart: unless-stopped, or by hand) is not halted, and   *)
(* does not come up without a config file it can load, under the overlay of *)
(* the environment it is started in.                                        *)
Start ==
  /\ pc = "down"
  /\ StartCap = NoCap => CanLoad
  /\ pc' = "idle"
  /\ halted' = FALSE
  /\ overlay' \in Environments
  /\ risk' = Merged(IF StartCap = NoCap THEN disk ELSE StartCap, overlay'.start)
  /\ since' = ReloadTicks
  /\ UNCHANGED <<file, scan, batch, cmd, verdict, copy, disk, saving, writing, submitted, log,
                 crashes>>

(* The process dies at any point; the file stays as it is just then.        *)
Crash ==
  /\ crashes < MaxCrashes
  /\ pc # "down"
  /\ crashes' = crashes + 1
  /\ pc' = "down"
  /\ scan' = <<>>
  /\ batch' = <<>>
  /\ cmd' = NoCommand
  /\ verdict' = "pending"
  /\ copy' = <<>>
  /\ UNCHANGED <<file, halted, limits, config, submitted, log>>

Tick ==
  \/ ReadPending \/ VerifyNext \/ TakeNext \/ EndTick
  \/ UpdateRead \/ UpdateTruncate \/ UpdateWrite \/ Execute

Next ==
  \/ \E c \in Commands : enqueue(c) \/ OpenConfig(c)
  \/ \E w \in writing : SaveConfig(w)
  \/ Tick
  \/ Start
  \/ Crash

(* The agent's loop runs on by itself, and a supervisor restarts it.        *)
Fairness == WF_vars(Tick) /\ WF_vars(Start)

Spec == Init /\ [][Next]_vars /\ Fairness

-----------------------------------------------------------------------------
(* Properties                                                               *)

(* One command was submitted before another.                                *)
Before(c, d) ==
  \E i, j \in DOMAIN submitted : i < j /\ submitted[i] = c /\ submitted[j] = d

(* Commands take effect in the order they were submitted, and each at most  *)
(* once, whatever crashes and rewrites of the file come between: a resume   *)
(* never overtakes the halt before it and no order is placed twice          *)
(* (command_queue.py:52, orchestrator.py:680).                              *)
InOrder ==
  \A i, j \in DOMAIN log :
    /\ log[i].id \in ToSet(submitted)
    /\ i < j => /\ log[i].id # log[j].id
                /\ Before(log[i].id, log[j].id)

(* What the file says of a command is what became of it: one that is        *)
(* pending has had no effect, and one that is settled ran with that very    *)
(* verdict or was rejected unread for its signature. The copy being written *)
(* back must be as true as the file.                                        *)
FileIsTrue ==
  LET ran == {e.id : e \in ToSet(log)}
      true(lines) ==
        \A e \in ToSet(lines) :
          /\ e.status = "pending" => e.id \notin ran
          /\ e.status \in {"done", "rejected"} =>
               \/ [id |-> e.id, verdict |-> e.status] \in ToSet(log)
               \/ e.status = "rejected" /\ e.id \in Unsigned
  IN  /\ file \in Seq(Entry)
      /\ true(file)
      /\ (pc \in {"truncate", "write"} => true(copy))

(* Every limit an overlay may set.                                          *)
OverlayCaps == UNION {{e.start, e.reload} : e \in Environments}

(* The limit in force has an author: a config file, the overlay of an       *)
(* environment, or a command that was signed and is recorded as done.       *)
(* Nothing a producer's looser validation lets through reaches it any other *)
(* way (orchestrator.py:707, config.py:204).                                *)
LimitHasAnAuthor ==
  risk \in {DefaultCap, StartCap} \cup OverlayCaps
        \cup {Request[c].cap : c \in {c \in ToSet(submitted) : SavesToo(c)}}
        \cup {Request[e.id].cap : e \in {e \in ToSet(log) :
                                    e.verdict = "done" /\ e.id \notin Unsigned}}

Truthful == FileIsTrue /\ LimitHasAnAuthor

Settled(c) ==
  \E i \in DOMAIN file : file[i].id = c /\ file[i].status \in {"done", "rejected"}

(* Once the agent has read a command it settles it, even if an earlier one  *)
(* of the batch halts the agent, unless the process crashes.                *)
BatchIsSettled ==
  \A i \in 1..MaxSubmitted, n \in 0..MaxCrashes :
    (/\ i \in DOMAIN submitted
     /\ submitted[i] \in PendingIn(scan) \cup ToSet(batch)
     /\ crashes = n)
      ~> (crashes > n \/ (i \in DOMAIN submitted /\ Settled(submitted[i])))

(* Whatever the queue, the command line or a restart did to the limit, it   *)
(* comes back, again and again, to what the default config file says under  *)
(* the overlay of the process's APP_ENV, as long as that file can be        *)
(* loaded: an overlay that sets the limit has the last word, over what the  *)
(* sliders saved as well (orchestrator.py:218, config.py:228).              *)
FileWins == []<>(risk = Merged(disk, overlay.reload) \/ ~CanLoad)

ReadIsSettled == BatchIsSettled /\ FileWins

=============================================================================
