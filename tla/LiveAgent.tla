------------------------------- MODULE LiveAgent -------------------------------
(***************************************************************************)
(* The agent in live mode (cli.py run, core/broker/angelone_live.py): the   *)
(* gate it passes when it starts, the session it opens, and the orders it   *)
(* sends to an exchange over an API that fails, or that takes a request and *)
(* loses the answer. The exchange alone knows what is open: the broker has  *)
(* a cached balance and nothing else.                                       *)
(*                                                                          *)
(* With this broker a tick of the market closes nothing and the square-off  *)
(* is skipped, both being PaperBroker's; a manual order fails for want of   *)
(* _latest_prices. What is left of the agent is here: signals, baselines,   *)
(* circuits. A signal is one of two, at one price. The market's hours are   *)
(* not modelled.                                                            *)
(***************************************************************************)
EXTENDS Gate, Guardrails, Functions

CONSTANTS
  Symbols,
  Balances,     \* what the account may be worth
  Entry,        \* the price of every signal
  StopAway,     \* and how far away its stop is
  MaxOrders     \* bound: orders decided on in a day

ASSUME LiveAssumption ==
  /\ Balances \subseteq Nat
  /\ Entry \in Nat /\ StopAway \in 1..(Entry - 1)
  /\ MaxOrders \in Nat

VARIABLES
  proc,       \* "down", "connected", or what the main thread does next
  api,        \* the API: "up", "down", or "lossy": answers are lost
  broker,     \* AngelOneLiveBroker: has its instruments, _equity
  agent,      \* starting_equity_today, peak_equity, trade date, halted
  dailyRow,   \* table daily_state: the row of today
  inFlight,   \* the order the feed thread has checked and not yet sent
  exchange,   \* positions and working orders, and the worth of the account
  decided,    \* history: quantity decided on today, by symbol; orders in all
  seen,       \* history: what the account was worth since the session began
  blind       \* history: an order was decided on without knowing all of today's

process == <<proc, broker, agent, inFlight>>
history == <<decided, seen, blind>>
liveVars == <<gateVars, process, api, dailyRow, exchange, history>>

Down == [tokens |-> FALSE, equity |-> 0]
NoAgent == [start |-> NoData, peak |-> NoData, date |-> NoData, halted |-> FALSE]
NoRow == [start |-> NoData, peak |-> NoData]
Nothing == [qty |-> [s \in Symbols |-> 0], orders |-> 0]

LiveInit ==
  /\ GateInit
  /\ proc = "down"
  /\ api = "up"
  /\ broker = Down
  /\ agent = NoAgent
  /\ dailyRow = NoRow
  /\ inFlight = {}
  /\ exchange \in [net: {[s \in Symbols |-> 0]}, working: {{}}, balance: Balances]
  /\ seen = {}
  /\ decided = Nothing
  /\ blind = FALSE

Up == proc \notin {"down", "connected"}

Larger(a, b) == IF a > b THEN a ELSE b

-----------------------------------------------------------------------------
(* The account, through the API                                             *)

(* _refresh_balance: a failure keeps the cached value.                      *)
RefreshBalance ==
  [broker EXCEPT !.equity = IF api = "up" THEN exchange.balance ELSE @]

Held == {s \in Symbols : exchange.net[s] # 0}

(* get_positions: none, when they cannot be fetched.                        *)
GetPositions == IF api = "up" THEN Held ELSE {}

-----------------------------------------------------------------------------
(* Starting                                                                 *)

(* Past the gate, connect: a login that fails ends the process, while the   *)
(* instrument master and the balance may each fail to load.                 *)
Connect ==
  /\ proc = "down"
  /\ IsLiveAllowed
  /\ api = "up"
  /\ proc' = "connected"
  /\ \E tokens \in BOOLEAN, equity \in {0, exchange.balance} :
       broker' = [tokens |-> tokens, equity |-> equity]
  /\ seen' = {exchange.balance}
  /\ UNCHANGED <<gateVars, agent, inFlight, api, dailyRow, exchange, decided, blind>>

(* The constructor of the orchestrator takes the baselines of today's row,  *)
(* or the equity of the moment, which is 0 as long as it was never read.    *)
Initialise ==
  LET read == RefreshBalance
      row  == dailyRow
      base == IF row # NoRow
              THEN [start |-> row.start, peak |-> Larger(row.peak, read.equity)]
              ELSE [start |-> read.equity, peak |-> read.equity]
  IN  /\ proc = "connected"
      /\ proc' = "baselines"
      /\ broker' = read
      /\ agent' = [start |-> base.start, peak |-> base.peak,
                   date |-> today, halted |-> FALSE]
      /\ dailyRow' = base
      /\ UNCHANGED <<gateVars, inFlight, api, exchange, history>>

Dies ==
  /\ proc' = "down"
  /\ broker' = Down
  /\ agent' = NoAgent
  /\ inFlight' = {}
  /\ seen' = {}

Crash ==
  /\ proc # "down"
  /\ Dies
  /\ UNCHANGED <<gateVars, api, dailyRow, exchange, decided, blind>>

-----------------------------------------------------------------------------
(* A signal, on the feed thread                                             *)

(* What an order is sized on and checked against.                           *)
SignalEquity(b) == b.equity

Portfolio(b, positions) ==
  [equity |-> SignalEquity(b), starting_equity_today |-> agent.start,
   peak_equity |-> agent.peak, open_positions |-> positions,
   last_exit_by_symbol |-> [s \in Symbols |-> NoData], halted |-> agent.halted]

(* A liquid market in its hours; the other contexts reject.                 *)
CalmMarket ==
  [now |-> Hours.trading_start, last_tick_age_seconds |-> 0,
   nifty_change_pct_15m |-> 0, vix_change_pct_15m |-> 0,
   adv |-> 1000, spread_pct |-> 0]

HandleSignal(s, side) ==
  LET read   == RefreshBalance
      signal == [symbol |-> s, side |-> side, entry |-> Entry,
                 stop |-> IF side = "BUY" THEN Entry - StopAway ELSE Entry + StopAway]
      qty    == PositionSize(SignalEquity(read), signal)
      order  == [id |-> decided.orders + 1, symbol |-> s, side |-> side, qty |-> qty]
  IN  /\ Up
      /\ inFlight = {}
      /\ decided.orders < MaxOrders
      /\ Allowed(signal, qty, Portfolio(read, GetPositions), CalmMarket)
      /\ broker' = read
      /\ inFlight' = {order}
      /\ decided' = [qty |-> [decided.qty EXCEPT ![s] = @ + qty],
                     orders |-> order.id]
      /\ blind' = (blind \/ GetPositions # Held \/ exchange.working # {})
      /\ UNCHANGED <<gateVars, proc, agent, api, dailyRow, exchange, seen>>

(* place_order without a token for the symbol: the instrument master is     *)
(* loaded again, and if that fails the order is rejected.                   *)
RejectForToken ==
  /\ inFlight # {}
  /\ ~broker.tokens
  /\ inFlight' = {}
  /\ UNCHANGED <<gateVars, proc, broker, agent, api, dailyRow, exchange, history>>

(* Mutant of Arrives: a request without an answer is sent once more.        *)
ArrivesTwice(order) ==
  IF api = "lossy" THEN {order, [order EXCEPT !.id = @ + MaxOrders]} ELSE {order}

Arrives(order) == {order}

(* place_order: the exchange accepts, and it is reported as filled; or the  *)
(* exchange has it and the answer is lost, which is reported as a rejection *)
(* like the request that never arrived and the one that was refused.        *)
PlaceOrder ==
  \E order \in inFlight :
    /\ broker' = [broker EXCEPT !.tokens = TRUE]
    /\ inFlight' = {}
    /\ \/ /\ api \in {"up", "lossy"}
          /\ exchange' = [exchange EXCEPT !.working = @ \cup Arrives(order)]
       \/ UNCHANGED exchange
    /\ UNCHANGED <<gateVars, proc, agent, api, dailyRow, history>>

-----------------------------------------------------------------------------
(* tick_lifecycle, on the main thread                                       *)

Baselines ==
  LET read == RefreshBalance
      rolled == IF agent.date # today
                THEN [agent EXCEPT !.start = read.equity, !.date = today]
                ELSE agent
  IN  /\ proc = "baselines"
      /\ proc' = "halts"
      /\ broker' = read
      /\ agent' = [rolled EXCEPT !.peak = Larger(@, read.equity)]
      /\ dailyRow' = IF agent' = agent THEN dailyRow
                     ELSE [start |-> agent'.start, peak |-> agent'.peak]
      /\ UNCHANGED <<gateVars, inFlight, api, exchange, history>>

(* Mutant of CheckGlobalHalts: the daily loss is not looked at.             *)
CheckDrawdownOnly ==
  LET read == RefreshBalance
  IN  /\ proc = "halts"
      /\ broker' = read
      /\ agent' = [agent EXCEPT !.halted = @ \/ DrawdownCircuit(Portfolio(read, {}))]
      /\ proc' = "sleep"
      /\ UNCHANGED <<gateVars, inFlight, api, dailyRow, exchange, history>>

CheckGlobalHalts ==
  LET read == RefreshBalance
  IN  /\ proc = "halts"
      /\ broker' = read
      /\ agent' = [agent EXCEPT !.halted =
                     \/ @
                     \/ DailyLossCircuit(Portfolio(read, {}))
                     \/ DrawdownCircuit(Portfolio(read, {}))]
      /\ proc' = "sleep"
      /\ UNCHANGED <<gateVars, inFlight, api, dailyRow, exchange, history>>

(* A halted agent leaves the loop and ends. Its positions stay.             *)
RunLoop ==
  /\ proc = "sleep"
  /\ \/ /\ ~agent.halted
        /\ proc' = "baselines"
        /\ UNCHANGED <<broker, agent, inFlight, seen>>
     \/ agent.halted /\ Dies
  /\ UNCHANGED <<gateVars, api, dailyRow, exchange, decided, blind>>

-----------------------------------------------------------------------------
(* The world                                                                *)

ApiChanges ==
  /\ \E state \in {"up", "down", "lossy"} : state # api /\ api' = state
  /\ UNCHANGED <<gateVars, process, dailyRow, exchange, history>>

Signed(order) == IF order.side = "BUY" THEN order.qty ELSE -order.qty

(* A market order is filled, or refused by the exchange's own checks after  *)
(* it was accepted.                                                         *)
Settle(order) ==
  /\ \/ exchange' = [exchange EXCEPT !.working = @ \ {order},
                       !.net[order.symbol] = @ + Signed(order)]
     \/ exchange' = [exchange EXCEPT !.working = @ \ {order}]
  /\ UNCHANGED <<gateVars, process, api, dailyRow, history>>

MarketMoves ==
  /\ \E balance \in Balances :
       /\ balance # exchange.balance
       /\ exchange' = [exchange EXCEPT !.balance = balance]
       /\ seen' = IF proc = "down" THEN seen ELSE seen \cup {balance}
  /\ UNCHANGED <<gateVars, process, api, dailyRow, decided, blind>>

(* Overnight nothing is open: the product of the orders is INTRADAY, and    *)
(* the exchange closes it.                                                  *)
Overnight ==
  /\ NextDay
  /\ inFlight = {}
  /\ exchange' = [exchange EXCEPT !.net = [s \in Symbols |-> 0], !.working = {}]
  /\ decided' = Nothing
  /\ blind' = FALSE
  /\ dailyRow' = NoRow
  /\ UNCHANGED <<process, api, seen>>

(* The validation. A session reads its verdict when it starts and never     *)
(* again, so it is run between sessions.                                    *)
Validation ==
  /\ proc = "down"
  /\ \E passed \in BOOLEAN :
       Verdict(passed) \/ \E day \in 0..today : WriteVerdict(passed, day)
  /\ UNCHANGED <<process, api, dailyRow, exchange, history>>

Tick == Baselines \/ CheckGlobalHalts \/ RunLoop

LiveNext ==
  \/ Connect \/ Initialise \/ Tick \/ Crash
  \/ \E s \in Symbols, side \in {"BUY", "SELL"} : HandleSignal(s, side)
  \/ RejectForToken \/ PlaceOrder
  \/ ApiChanges \/ MarketMoves \/ Overnight \/ Validation
  \/ \E order \in exchange.working : Settle(order)

(* The main loop keeps ticking; nobody owes a start.                        *)
LiveSpec == LiveInit /\ [][LiveNext]_liveVars /\ WF_liveVars(Initialise \/ Tick)

-----------------------------------------------------------------------------
(* "Live trading mode refuses to start unless data/backtest_gate.json       *)
(* exists, is recent, and reports passed": whenever a session begins, a     *)
(* validation met every threshold no longer ago than the gate allows        *)
(* (is_live_allowed, cmd_run).                                              *)
LiveIsGated ==
  [][proc = "down" /\ proc' # "down" =>
       \E day \in sound : today - day <= GateMaxAge]_liveVars

(* What is open and working at the exchange for a symbol never exceeds what *)
(* was decided on today: an answer that is lost does not make the agent     *)
(* send an order again (place_order).                                       *)
ExposureWasDecided ==
  \A s \in Symbols :
    LET working == {order \in exchange.working : order.symbol = s}
        net     == exchange.net[s] + SumFunction([order \in working |-> Signed(order)])
    IN  net <= decided.qty[s] /\ -net <= decided.qty[s]

(* No more positions than the limit, as long as every order was decided on  *)
(* with all positions fetched and no order outstanding (get_positions,      *)
(* _check_max_open_positions).                                              *)
LimitUnlessBlind == ~blind => Cardinality(Held) <= Risk.max_open_positions

(* A daily loss past the circuit that lasts, while the API answers, ends    *)
(* the process, and again after every restart (_check_global_halts).        *)
InLoss ==
  /\ dailyRow.start > 0
  /\ (dailyRow.start - exchange.balance) * 100 > Risk.daily_loss_circuit_pct * dailyRow.start

LossEndsSession == <>[](api = "up" /\ InLoss) => []<>(proc = "down")
=============================================================================
