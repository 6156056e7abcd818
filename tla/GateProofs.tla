------------------------------- MODULE GateProofs -------------------------------
(***************************************************************************)
(* Proofs about the two sides of the gate.  Behind it, live trading, for    *)
(* every set of symbols, every account and every limit: a session begins    *)
(* behind the gate, what is exposed at the exchange was decided on, and no  *)
(* more positions than the limit unless an order was decided on blindly.    *)
(* Before it, a walk-forward validation, for every history, window length,  *)
(* pool and threshold: it is the gate of Gate.tla, and whatever the order   *)
(* its workers finish in, every window is accounted for once; and the       *)
(* diagnostics: what they foretell of a start holds on every machine.       *)
(***************************************************************************)
EXTENDS LiveAgent, WalkForwardProps, SumTheorems, SequenceTheorems, TLAPS

-----------------------------------------------------------------------------
(* Types                                                                    *)

Orders == [id: Nat, symbol: Symbols, side: {"BUY", "SELL"}, qty: Nat]
Worth == Nat \cup {NoData}

GateTypeOK ==
  /\ today \in Nat
  /\ gateFile \in [passed: BOOLEAN, timestamp: Int]
  /\ sound \in SUBSET Nat

ProcessTypeOK ==
  /\ proc \in {"down", "connected", "baselines", "halts", "sleep"}
  /\ broker \in [tokens: BOOLEAN, equity: Nat]
  /\ agent \in [start: Worth, peak: Worth, date: Worth, halted: BOOLEAN]
  /\ inFlight \in SUBSET Orders

WorldTypeOK ==
  /\ api \in {"up", "down", "lossy"}
  /\ dailyRow \in [start: Worth, peak: Worth]
  /\ exchange \in [net: [Symbols -> Int], working: SUBSET Orders, balance: Balances]

HistoryTypeOK ==
  /\ decided \in [qty: [Symbols -> Nat], orders: Nat]
  /\ seen \in SUBSET Balances
  /\ blind \in BOOLEAN

TypeOK == GateTypeOK /\ ProcessTypeOK /\ WorldTypeOK /\ HistoryTypeOK

(* The limits, the entry and its stop are numbers.                          *)
LEMMA LimitsType ==
  /\ Risk.per_trade_risk_pct \in Nat /\ Risk.max_position_pct \in Nat
  /\ Risk.max_open_positions \in Nat
  /\ Entry \in Nat \ {0} /\ StopAway \in Nat \ {0} /\ StopAway < Entry
  BY GuardrailsAssumption, LiveAssumption

(* A floor of a number over a positive one is a number.                     *)
LEMMA FloorType ==
  ASSUME NEW n \in Int, NEW d \in Nat \ {0}
  PROVE  n \div (100 * d) \in Int
<1>1. 100 * d \in Nat \ {0}
  OBVIOUS
<1> QED
  BY <1>1

(* The quantity of a signal is a whole number, never negative.              *)
LEMMA SizeType ==
  ASSUME NEW equity \in Nat, NEW s, NEW side \in {"BUY", "SELL"}, NEW stop,
         stop = IF side = "BUY" THEN Entry - StopAway ELSE Entry + StopAway
  PROVE  PositionSize(equity, [symbol |-> s, side |-> side, entry |-> Entry,
                               stop |-> stop]) \in Nat
<1> DEFINE signal == [symbol |-> s, side |-> side, entry |-> Entry, stop |-> stop]
           risk == RiskPerShare(signal)
           byRisk == (equity * Risk.per_trade_risk_pct) \div (100 * risk)
           bySize == (equity * Risk.max_position_pct) \div (100 * signal.entry)
<1>1. risk = StopAway
  BY LimitsType DEF RiskPerShare
<1>2. byRisk \in Int
  BY <1>1, LimitsType, FloorType
<1>3. bySize \in Int
  BY LimitsType, FloorType
<1>4. PositionSize(equity, signal) =
        IF risk <= 0 THEN 0
        ELSE AtLeastZero(IF byRisk < bySize THEN byRisk ELSE bySize)
  BY DEF PositionSize
<1> HIDE DEF byRisk, bySize, risk, signal
<1>5. PositionSize(equity, signal) \in Nat
  BY <1>1, <1>2, <1>3, <1>4, LimitsType DEF AtLeastZero
<1> QED
  BY <1>5 DEF signal

(* The balance that is fetched has its type.                                *)
LEMMA RefreshType ==
  ASSUME TypeOK
  PROVE  /\ RefreshBalance \in [tokens: BOOLEAN, equity: Nat]
         /\ RefreshBalance.equity \in Nat
<1>1. exchange.balance \in Nat
  BY LiveAssumption DEF TypeOK, WorldTypeOK
<1> QED
  BY <1>1 DEF TypeOK, ProcessTypeOK, RefreshBalance

(* The larger of two worths is one of them.                                 *)
LEMMA LargerType ==
  ASSUME NEW a \in Worth, NEW b \in Worth
  PROVE  Larger(a, b) \in Worth
  BY DEF Larger

-----------------------------------------------------------------------------
(* What a signal decides on: one order more, of a whole quantity.           *)
LEMMA SignalOrder ==
  ASSUME TypeOK, NEW s \in Symbols, NEW side \in {"BUY", "SELL"}, HandleSignal(s, side)
  PROVE  \E order \in Orders :
           /\ order.symbol = s
           /\ order.id = decided.orders + 1
           /\ inFlight = {} /\ inFlight' = {order}
           /\ decided' = [qty |-> [decided.qty EXCEPT ![s] = @ + order.qty],
                          orders |-> order.id]
           /\ s \notin GetPositions
                => ~ (Cardinality(GetPositions) >= Risk.max_open_positions)
<1> DEFINE read == RefreshBalance
           signal == [symbol |-> s, side |-> side, entry |-> Entry,
                      stop |-> IF side = "BUY" THEN Entry - StopAway ELSE Entry + StopAway]
           qty == PositionSize(SignalEquity(read), signal)
           order == [id |-> decided.orders + 1, symbol |-> s, side |-> side, qty |-> qty]
<1>1. /\ inFlight = {} /\ inFlight' = {order}
      /\ decided' = [qty |-> [decided.qty EXCEPT ![s] = @ + qty], orders |-> order.id]
      /\ Allowed(signal, qty, Portfolio(read, GetPositions), CalmMarket)
  BY DEF HandleSignal
<1>2. qty \in Nat
  BY RefreshType, SizeType DEF SignalEquity
<1>3. ~ TooManyPositions(signal, Portfolio(read, GetPositions))
  BY <1>1 DEF Allowed
<1>4. s \notin GetPositions => ~ (Cardinality(GetPositions) >= Risk.max_open_positions)
  BY <1>3 DEF TooManyPositions, Portfolio
<1>5. order \in Orders
  BY <1>2 DEF Orders, TypeOK, HistoryTypeOK
<1> HIDE DEF qty
<1> QED
  BY <1>1, <1>4, <1>5

-----------------------------------------------------------------------------
(* The types are those of the code after every step.                        *)
LEMMA InitTypeOK == LiveInit => TypeOK
<1> SUFFICES ASSUME LiveInit PROVE TypeOK
  OBVIOUS
<1>1. GateTypeOK
  BY DEF LiveInit, GateInit, NoFile, GateTypeOK
<1>2. ProcessTypeOK
  BY DEF LiveInit, Down, NoAgent, NoData, Worth, ProcessTypeOK
<1>3. WorldTypeOK
  <2>1. exchange \in [net: {[s \in Symbols |-> 0]}, working: {{}}, balance: Balances]
    BY DEF LiveInit
  <2>2. exchange \in [net: [Symbols -> Int], working: SUBSET Orders, balance: Balances]
    BY <2>1
  <2> QED
    BY <2>2 DEF LiveInit, NoRow, NoData, Worth, WorldTypeOK
<1>4. HistoryTypeOK
  BY DEF LiveInit, Nothing, HistoryTypeOK
<1> QED
  BY <1>1, <1>2, <1>3, <1>4 DEF TypeOK

(* The steps of the process keep the types.                                 *)
LEMMA ProcessTypes ==
  ASSUME TypeOK, Connect \/ Initialise \/ Tick \/ Crash
  PROVE  TypeOK'
<1> USE DEF TypeOK
<1>1. CASE Connect
  <2>1. exchange.balance \in Balances /\ exchange.balance \in Nat
    BY LiveAssumption DEF WorldTypeOK
  <2>2. broker' \in [tokens: BOOLEAN, equity: Nat] /\ proc' = "connected"
    BY <1>1, <2>1 DEF Connect
  <2>3. GateTypeOK'
    BY <1>1 DEF Connect, gateVars, GateTypeOK
  <2>4. ProcessTypeOK'
    BY <1>1, <2>2 DEF Connect, ProcessTypeOK
  <2>5. WorldTypeOK'
    BY <1>1 DEF Connect, WorldTypeOK
  <2>6. HistoryTypeOK'
    BY <1>1, <2>1 DEF Connect, HistoryTypeOK
  <2> QED
    BY <2>3, <2>4, <2>5, <2>6
<1>2. CASE Initialise
  <2> DEFINE read == RefreshBalance
             base == IF dailyRow # NoRow
                     THEN [start |-> dailyRow.start, peak |-> Larger(dailyRow.peak, read.equity)]
                     ELSE [start |-> read.equity, peak |-> read.equity]
  <2>1. read \in [tokens: BOOLEAN, equity: Nat] /\ read.equity \in Worth
    BY RefreshType DEF Worth
  <2>2. base \in [start: Worth, peak: Worth]
    <3>1. dailyRow.start \in Worth /\ dailyRow.peak \in Worth
      BY DEF WorldTypeOK
    <3>2. Larger(dailyRow.peak, read.equity) \in Worth
      BY <2>1, <3>1, LargerType
    <3> QED
      BY <2>1, <3>1, <3>2
  <2>3. /\ proc' = "baselines" /\ broker' = read /\ dailyRow' = base
        /\ agent' = [start |-> base.start, peak |-> base.peak,
                     date |-> today, halted |-> FALSE]
        /\ UNCHANGED <<gateVars, inFlight, api, exchange, history>>
    BY <1>2 DEF Initialise
  <2> HIDE DEF base, read
  <2>4. GateTypeOK' /\ HistoryTypeOK'
    BY <2>3 DEF gateVars, history, GateTypeOK, HistoryTypeOK
  <2>5. agent' \in [start: Worth, peak: Worth, date: Worth, halted: BOOLEAN]
    <3>1. base.start \in Worth /\ base.peak \in Worth /\ today \in Worth
      BY <2>2 DEF GateTypeOK, Worth
    <3> QED
      BY <2>3, <3>1
  <2> QED
    BY <2>1, <2>2, <2>3, <2>4, <2>5 DEF ProcessTypeOK, WorldTypeOK
<1>3. CASE Baselines
  <2> DEFINE read == RefreshBalance
             rolled == IF agent.date # today
                       THEN [agent EXCEPT !.start = read.equity, !.date = today]
                       ELSE agent
  <2>1. read \in [tokens: BOOLEAN, equity: Nat] /\ read.equity \in Worth
    BY RefreshType DEF Worth
  <2>2. rolled \in [start: Worth, peak: Worth, date: Worth, halted: BOOLEAN]
    BY <2>1 DEF GateTypeOK, ProcessTypeOK, Worth
  <2>3. /\ proc' = "halts" /\ broker' = read
        /\ agent' = [rolled EXCEPT !.peak = Larger(@, read.equity)]
        /\ \/ dailyRow' = dailyRow
           \/ dailyRow' = [start |-> agent'.start, peak |-> agent'.peak]
        /\ UNCHANGED <<gateVars, inFlight, api, exchange, history>>
    BY <1>3 DEF Baselines
  <2> HIDE DEF rolled, read
  <2>4. agent' \in [start: Worth, peak: Worth, date: Worth, halted: BOOLEAN]
    <3>1. rolled.peak \in Worth
      BY <2>2
    <3>2. Larger(rolled.peak, read.equity) \in Worth
      BY <2>1, <3>1, LargerType
    <3> QED
      BY <2>2, <2>3, <3>2
  <2>5. dailyRow' \in [start: Worth, peak: Worth]
    BY <2>3, <2>4 DEF WorldTypeOK
  <2>6. GateTypeOK' /\ HistoryTypeOK'
    BY <2>3 DEF gateVars, history, GateTypeOK, HistoryTypeOK
  <2> QED
    BY <2>1, <2>3, <2>4, <2>5, <2>6 DEF ProcessTypeOK, WorldTypeOK
<1>4. CASE CheckGlobalHalts
  <2>1. PICK halts \in BOOLEAN :
          agent' = [agent EXCEPT !.halted = halts]
    BY <1>4 DEF CheckGlobalHalts
  <2>2. agent' \in [start: Worth, peak: Worth, date: Worth, halted: BOOLEAN]
    BY <2>1 DEF ProcessTypeOK
  <2>3. proc' = "sleep" /\ broker' \in [tokens: BOOLEAN, equity: Nat]
    BY <1>4, RefreshType DEF CheckGlobalHalts
  <2>4. UNCHANGED <<gateVars, inFlight, api, dailyRow, exchange, history>>
    BY <1>4 DEF CheckGlobalHalts
  <2>5. GateTypeOK' /\ HistoryTypeOK'
    BY <2>4 DEF gateVars, history, GateTypeOK, HistoryTypeOK
  <2> QED
    BY <2>2, <2>3, <2>4, <2>5 DEF ProcessTypeOK, WorldTypeOK
<1>5. CASE RunLoop \/ Crash
  <2>1. /\ UNCHANGED <<gateVars, api, dailyRow, exchange, decided, blind>>
        /\ \/ proc' = "baselines" /\ UNCHANGED <<broker, agent, inFlight, seen>>
           \/ Dies
    BY <1>5 DEF RunLoop, Crash
  <2>2. GateTypeOK' /\ WorldTypeOK'
    BY <2>1 DEF gateVars, GateTypeOK, WorldTypeOK
  <2>3. ProcessTypeOK'
    <3>1. CASE Dies
      <4>1. /\ proc' = "down" /\ inFlight' = {}
            /\ broker' = Down /\ agent' = NoAgent
        BY <3>1 DEF Dies
      <4>2. Down \in [tokens: BOOLEAN, equity: Nat]
        BY DEF Down
      <4>3. NoAgent \in [start: Worth, peak: Worth, date: Worth, halted: BOOLEAN]
        BY DEF NoAgent, Worth
      <4> QED
        BY <4>1, <4>2, <4>3 DEF ProcessTypeOK
    <3>2. CASE proc' = "baselines" /\ UNCHANGED <<broker, agent, inFlight, seen>>
      BY <3>2 DEF ProcessTypeOK
    <3> QED
      BY <2>1, <3>1, <3>2
  <2>4. HistoryTypeOK'
    BY <2>1 DEF Dies, HistoryTypeOK
  <2> QED
    BY <2>2, <2>3, <2>4
<1> QED
  BY <1>1, <1>2, <1>3, <1>4, <1>5 DEF Tick

(* A signal, and what becomes of its order.                                 *)
LEMMA OrderTypes ==
  ASSUME TypeOK,
         \/ \E s \in Symbols, side \in {"BUY", "SELL"} : HandleSignal(s, side)
         \/ RejectForToken \/ PlaceOrder
  PROVE  TypeOK'
<1> USE DEF TypeOK
<1>1. ASSUME NEW s \in Symbols, NEW side \in {"BUY", "SELL"}, HandleSignal(s, side)
      PROVE  TypeOK'
  <2>1. PICK order \in Orders :
          /\ inFlight' = {order}
          /\ order.id = decided.orders + 1
          /\ decided' = [qty |-> [decided.qty EXCEPT ![s] = @ + order.qty],
                         orders |-> order.id]
    BY <1>1, SignalOrder
  <2>2. /\ broker' = RefreshBalance
        /\ blind' \in BOOLEAN
        /\ UNCHANGED <<gateVars, proc, agent, api, dailyRow, exchange, seen>>
    BY <1>1 DEF HandleSignal, HistoryTypeOK
  <2>3. decided' \in [qty: [Symbols -> Nat], orders: Nat]
    BY <2>1 DEF Orders, HistoryTypeOK
  <2>4. GateTypeOK' /\ WorldTypeOK'
    BY <2>2 DEF gateVars, GateTypeOK, WorldTypeOK
  <2>5. ProcessTypeOK'
    BY <2>1, <2>2, RefreshType DEF ProcessTypeOK
  <2>6. HistoryTypeOK'
    BY <2>2, <2>3 DEF HistoryTypeOK
  <2> QED
    BY <2>4, <2>5, <2>6
<1>2. CASE RejectForToken
  <2>1. /\ inFlight' = {}
        /\ UNCHANGED <<gateVars, proc, broker, agent, api, dailyRow, exchange, history>>
    BY <1>2 DEF RejectForToken
  <2>2. GateTypeOK' /\ HistoryTypeOK'
    BY <2>1 DEF gateVars, history, GateTypeOK, HistoryTypeOK
  <2> QED
    BY <2>1, <2>2 DEF ProcessTypeOK, WorldTypeOK
<1>3. CASE PlaceOrder
  <2>1. PICK order \in inFlight :
          /\ broker' = [broker EXCEPT !.tokens = TRUE]
          /\ inFlight' = {}
          /\ \/ exchange' = [exchange EXCEPT !.working = @ \cup {order}]
             \/ exchange' = exchange
          /\ UNCHANGED <<gateVars, proc, agent, api, dailyRow, history>>
    BY <1>3 DEF PlaceOrder, Arrives
  <2>2. order \in Orders
    BY DEF ProcessTypeOK
  <2>3. GateTypeOK' /\ HistoryTypeOK'
    BY <2>1 DEF gateVars, history, GateTypeOK, HistoryTypeOK
  <2>4. ProcessTypeOK'
    BY <2>1 DEF ProcessTypeOK
  <2>5. WorldTypeOK'
    BY <2>1, <2>2 DEF WorldTypeOK
  <2> QED
    BY <2>3, <2>4, <2>5
<1> QED
  BY <1>1, <1>2, <1>3

(* The exchange, the market, the API, the night and the validation.         *)
LEMMA WorldTypes ==
  ASSUME TypeOK,
         \/ ApiChanges \/ MarketMoves \/ Overnight \/ Validation
         \/ \E order \in exchange.working : Settle(order)
  PROVE  TypeOK'
<1> USE DEF TypeOK
<1>1. CASE ApiChanges
  <2>1. /\ api' \in {"up", "down", "lossy"}
        /\ UNCHANGED <<gateVars, process, dailyRow, exchange, history>>
    BY <1>1 DEF ApiChanges
  <2> QED
    BY <2>1 DEF gateVars, process, history,
                GateTypeOK, ProcessTypeOK, WorldTypeOK, HistoryTypeOK
<1>2. CASE MarketMoves
  <2>1. PICK balance \in Balances :
          /\ exchange' = [exchange EXCEPT !.balance = balance]
          /\ seen' = IF proc = "down" THEN seen ELSE seen \cup {balance}
    BY <1>2 DEF MarketMoves
  <2>2. UNCHANGED <<gateVars, process, api, dailyRow, decided, blind>>
    BY <1>2 DEF MarketMoves
  <2>3. GateTypeOK' /\ ProcessTypeOK'
    BY <2>2 DEF gateVars, process, GateTypeOK, ProcessTypeOK
  <2>4. WorldTypeOK' /\ HistoryTypeOK'
    BY <2>1, <2>2 DEF WorldTypeOK, HistoryTypeOK
  <2> QED
    BY <2>3, <2>4
<1>3. CASE Overnight
  <2>1. /\ today' = today + 1 /\ UNCHANGED <<gateFile, sound>>
        /\ exchange' = [exchange EXCEPT !.net = [s \in Symbols |-> 0], !.working = {}]
        /\ decided' = Nothing /\ blind' = FALSE /\ dailyRow' = NoRow
        /\ UNCHANGED <<process, api, seen>>
    BY <1>3 DEF Overnight, NextDay
  <2>2. GateTypeOK' /\ ProcessTypeOK'
    BY <2>1 DEF process, GateTypeOK, ProcessTypeOK
  <2>3. NoRow \in [start: Worth, peak: Worth]
    BY DEF NoRow, Worth
  <2>4. WorldTypeOK' /\ HistoryTypeOK'
    <3>1. exchange' \in [net: [Symbols -> Int], working: SUBSET Orders, balance: Balances]
      <4>1. exchange' = [net |-> [s \in Symbols |-> 0], working |-> {},
                         balance |-> exchange.balance]
        BY <2>1 DEF WorldTypeOK
      <4> QED
        BY <4>1 DEF WorldTypeOK
    <3>2. Nothing \in [qty: [Symbols -> Nat], orders: Nat]
      BY DEF Nothing
    <3> QED
      BY <2>1, <2>3, <3>1, <3>2 DEF WorldTypeOK, HistoryTypeOK
  <2> QED
    BY <2>2, <2>4
<1>4. CASE Validation
  <2>1. PICK passed \in BOOLEAN :
          Verdict(passed) \/ \E day \in 0..today : WriteVerdict(passed, day)
    BY <1>4 DEF Validation
  <2>2. UNCHANGED <<process, api, dailyRow, exchange, history>>
    BY <1>4 DEF Validation
  <2>3. GateTypeOK'
    <3>1. CASE Verdict(passed)
      BY <3>1 DEF Verdict, Torn, GateTypeOK
    <3>2. ASSUME NEW day \in 0..today, WriteVerdict(passed, day)
          PROVE  GateTypeOK'
      BY <3>2 DEF WriteVerdict, GateTypeOK
    <3> QED
      BY <2>1, <3>1, <3>2
  <2> QED
    BY <2>2, <2>3 DEF process, history, ProcessTypeOK, WorldTypeOK, HistoryTypeOK
<1>5. ASSUME NEW order \in exchange.working, Settle(order)
      PROVE  TypeOK'
  <2>1. /\ \/ exchange' = [exchange EXCEPT !.working = @ \ {order},
                             !.net[order.symbol] = @ + Signed(order)]
           \/ exchange' = [exchange EXCEPT !.working = @ \ {order}]
        /\ UNCHANGED <<gateVars, process, api, dailyRow, history>>
    BY <1>5 DEF Settle
  <2>2. order \in Orders /\ Signed(order) \in Int
    BY DEF WorldTypeOK, Orders, Signed
  <2>3. exchange' \in [net: [Symbols -> Int], working: SUBSET Orders, balance: Balances]
    <3>1. /\ order.symbol \in Symbols /\ exchange.net \in [Symbols -> Int]
          /\ exchange.working \in SUBSET Orders
      BY <2>2 DEF WorldTypeOK, Orders
    <3>2. CASE exchange' = [exchange EXCEPT !.working = @ \ {order}]
      BY <3>2 DEF WorldTypeOK
    <3>3. CASE exchange' = [exchange EXCEPT !.working = @ \ {order},
                              !.net[order.symbol] = @ + Signed(order)]
      <4> DEFINE net == [exchange.net EXCEPT ![order.symbol] = @ + Signed(order)]
      <4>1. net \in [Symbols -> Int]
        BY <2>2, <3>1
      <4>2. /\ exchange' = [net |-> net, working |-> exchange.working \ {order},
                           balance |-> exchange.balance]
        BY <3>3 DEF WorldTypeOK
      <4> HIDE DEF net
      <4> QED
        BY <3>1, <4>1, <4>2 DEF WorldTypeOK
    <3> QED
      BY <2>1, <3>2, <3>3
  <2>4. WorldTypeOK'
    BY <2>1, <2>3 DEF WorldTypeOK
  <2> QED
    BY <2>1, <2>4 DEF gateVars, process, history,
                      GateTypeOK, ProcessTypeOK, HistoryTypeOK
<1> QED
  BY <1>1, <1>2, <1>3, <1>4, <1>5

(* What changes nothing keeps the types.                                    *)
LEMMA StutterTypeOK == TypeOK /\ UNCHANGED liveVars => TypeOK'
  BY DEF TypeOK, liveVars, gateVars, process, history,
         GateTypeOK, ProcessTypeOK, WorldTypeOK, HistoryTypeOK

(* Every state of the agent, the exchange and the files is well typed.      *)
THEOREM LiveTyped == LiveSpec => []TypeOK
<1>1. TypeOK /\ [LiveNext]_liveVars => TypeOK'
  BY ProcessTypes, OrderTypes, WorldTypes, StutterTypeOK DEF LiveNext
<1> QED
  BY <1>1, InitTypeOK, PTL DEF LiveSpec

-----------------------------------------------------------------------------
(* The gate                                                                 *)

(* A verdict that passed is of a day on which a validation met everything.  *)
GateInv == gateFile.passed => gateFile.timestamp \in sound

(* A session begins only behind a validation that met every threshold and   *)
(* is not too old (is_live_allowed, cmd_run), whatever its age limit.       *)
THEOREM SessionsAreGated == LiveSpec => LiveIsGated
<1>1. LiveInit => GateInv
  BY DEF LiveInit, GateInit, NoFile, GateInv
<1>2. TypeOK /\ GateInv /\ [LiveNext]_liveVars => GateInv'
  <2> SUFFICES ASSUME TypeOK, GateInv, [LiveNext]_liveVars
               PROVE  GateInv'
    OBVIOUS
  <2>1. CASE UNCHANGED <<gateFile, sound>>
    BY <2>1 DEF GateInv
  <2>2. CASE Validation
    <3>1. PICK passed \in BOOLEAN :
            Verdict(passed) \/ \E day \in 0..today : WriteVerdict(passed, day)
      BY <2>2 DEF Validation
    <3>2. CASE Verdict(passed)
      BY <3>2 DEF Verdict, Torn, GateInv
    <3>3. ASSUME NEW day \in 0..today, WriteVerdict(passed, day)
          PROVE  GateInv'
      BY <3>3 DEF WriteVerdict, GateInv
    <3> QED
      BY <3>1, <3>2, <3>3
  <2>3. Validation \/ UNCHANGED <<gateFile, sound>>
    BY DEF LiveNext, liveVars, gateVars, Connect, Initialise, Tick, Baselines,
           CheckGlobalHalts, RunLoop, Crash, HandleSignal, RejectForToken, PlaceOrder,
           ApiChanges, MarketMoves, Overnight, NextDay, Settle
  <2> QED
    BY <2>1, <2>2, <2>3
<1>3. GateInv /\ [LiveNext]_liveVars
        => [proc = "down" /\ proc' # "down" =>
              \E day \in sound : today - day <= GateMaxAge]_liveVars
  <2> SUFFICES ASSUME GateInv, LiveNext, proc = "down", proc' # "down"
               PROVE  \E day \in sound : today - day <= GateMaxAge
    OBVIOUS
  <2>1. Connect
    BY DEF LiveNext, process, Initialise, Tick, Baselines, CheckGlobalHalts, RunLoop,
           Crash, Dies, HandleSignal, Up, RejectForToken, PlaceOrder, ApiChanges,
           MarketMoves, Overnight, Validation, Settle
  <2>2. gateFile.passed /\ today - gateFile.timestamp <= GateMaxAge
    BY <2>1 DEF Connect, IsLiveAllowed
  <2> QED
    BY <2>2 DEF GateInv
<1> QED
  BY <1>1, <1>2, <1>3, LiveTyped, PTL DEF LiveSpec, LiveIsGated

-----------------------------------------------------------------------------
(* The limit on open positions                                              *)

(* Symbols with something at the exchange, or on its way there.             *)
Outstanding == inFlight \cup exchange.working
Exposed == Held \cup {order.symbol : order \in Outstanding}

LimitInv ==
  /\ IsFiniteSet(Exposed)
  /\ ~ blind => Cardinality(Exposed) <= Risk.max_open_positions

(* With fewer symbols open, working or on their way, the limit stays kept.  *)
LEMMA ExposedShrinks ==
  ASSUME LimitInv, Exposed' \subseteq Exposed, blind' = blind
  PROVE  LimitInv'
<1>1. /\ IsFiniteSet(Exposed') /\ Cardinality(Exposed') <= Cardinality(Exposed)
      /\ Cardinality(Exposed) \in Nat /\ Cardinality(Exposed') \in Nat
  BY FS_Subset, FS_CardinalityType DEF LimitInv
<1>2. Cardinality(Exposed) <= Risk.max_open_positions
        => Cardinality(Exposed') <= Risk.max_open_positions
  BY <1>1, LimitsType
<1> QED
  BY <1>1, <1>2 DEF LimitInv

(* A signal that is handled with sight of the positions keeps the limit.    *)
LEMMA SignalLimited ==
  ASSUME TypeOK, LimitInv, NEW s \in Symbols, NEW side \in {"BUY", "SELL"},
         HandleSignal(s, side)
  PROVE  LimitInv'
<1>1. PICK order \in Orders :
        /\ order.symbol = s /\ inFlight = {} /\ inFlight' = {order}
        /\ s \notin GetPositions
             => ~ (Cardinality(GetPositions) >= Risk.max_open_positions)
  BY SignalOrder
<1>2. exchange' = exchange /\ Held' = Held
  BY DEF HandleSignal, Held
<1>3. Exposed' = Exposed \cup {s}
  BY <1>1, <1>2 DEF Exposed, Outstanding
<1>4. IsFiniteSet(Exposed')
  BY <1>3, FS_AddElement DEF LimitInv
<1>5. ASSUME ~ blind'
      PROVE  Cardinality(Exposed') <= Risk.max_open_positions
  <2>1. ~ blind /\ GetPositions = Held /\ exchange.working = {}
    BY <1>5 DEF HandleSignal
  <2>2. Exposed = Held
    BY <1>1, <2>1 DEF Exposed, Outstanding
  <2>3. CASE s \in Held
    BY <1>3, <2>1, <2>2, <2>3 DEF LimitInv
  <2>4. CASE s \notin Held
    <3>1. /\ Cardinality(Exposed') = Cardinality(Exposed) + 1
          /\ Cardinality(Exposed) \in Nat
      BY <1>3, <2>2, <2>4, FS_AddElement, FS_CardinalityType DEF LimitInv
    <3>2. ~ (Cardinality(Exposed) >= Risk.max_open_positions)
      BY <1>1, <2>1, <2>2, <2>4
    <3> QED
      BY <3>1, <3>2, LimitsType
  <2> QED
    BY <2>3, <2>4
<1> QED
  BY <1>4, <1>5 DEF LimitInv

(* Whatever else happens, no symbol comes into play that was not exposed.   *)
LEMMA OthersShrink ==
  ASSUME TypeOK, [LiveNext]_liveVars,
         ~ Overnight, ~ \E s \in Symbols, side \in {"BUY", "SELL"} : HandleSignal(s, side)
  PROVE  Exposed' \subseteq Exposed /\ blind' = blind
<1>1. CASE UNCHANGED <<exchange, blind>> /\ inFlight' \in {inFlight, {}}
  BY <1>1 DEF Exposed, Outstanding, Held
<1>2. CASE PlaceOrder
  <2>1. PICK order \in inFlight :
          /\ inFlight' = {} /\ UNCHANGED blind
          /\ \/ exchange' = [exchange EXCEPT !.working = @ \cup {order}]
             \/ exchange' = exchange
    BY <1>2 DEF PlaceOrder, Arrives, history
  <2>2. exchange'.net = exchange.net
    BY <2>1 DEF TypeOK, WorldTypeOK
  <2>3. exchange'.working \subseteq exchange.working \cup {order}
    BY <2>1 DEF TypeOK, WorldTypeOK
  <2> QED
    BY <2>1, <2>2, <2>3 DEF Exposed, Outstanding, Held
<1>3. CASE MarketMoves
  <2>1. exchange'.net = exchange.net /\ exchange'.working = exchange.working
    BY <1>3 DEF MarketMoves, TypeOK, WorldTypeOK
  <2>2. UNCHANGED <<inFlight, blind>>
    BY <1>3 DEF MarketMoves, process
  <2> QED
    BY <2>1, <2>2 DEF Exposed, Outstanding, Held
<1>4. ASSUME NEW order \in exchange.working, Settle(order)
      PROVE  Exposed' \subseteq Exposed /\ blind' = blind
  <2>1. /\ \/ exchange' = [exchange EXCEPT !.working = @ \ {order},
                             !.net[order.symbol] = @ + Signed(order)]
           \/ exchange' = [exchange EXCEPT !.working = @ \ {order}]
        /\ UNCHANGED <<inFlight, blind>>
    BY <1>4 DEF Settle, process, history
  <2>2. exchange'.working \subseteq exchange.working
    BY <2>1 DEF TypeOK, WorldTypeOK
  <2>3. \A s \in Symbols \ {order.symbol} : exchange'.net[s] = exchange.net[s]
    BY ZenonT(40), <2>1 DEF TypeOK, WorldTypeOK, Orders
  <2>4. Held' \subseteq Held \cup {order.symbol}
    BY <2>3 DEF Held
  <2> QED
    BY <2>1, <2>2, <2>4 DEF Exposed, Outstanding
<1>5. \/ UNCHANGED <<exchange, blind>> /\ inFlight' \in {inFlight, {}}
      \/ PlaceOrder \/ MarketMoves
      \/ \E order \in exchange.working : Settle(order)
  BY DEF LiveNext, liveVars, process, history, Connect, Initialise, Tick, Baselines,
         CheckGlobalHalts, RunLoop, Crash, Dies, RejectForToken, ApiChanges, Validation
<1> QED
  BY <1>1, <1>2, <1>3, <1>4, <1>5

(* Unless an order was decided on blindly, no more positions are open, on   *)
(* their way or working than the limit (get_positions,                      *)
(* _check_max_open_positions).                                              *)
THEOREM LimitHolds == LiveSpec => []LimitUnlessBlind
<1>1. LiveInit => LimitInv
  <2> SUFFICES ASSUME LiveInit PROVE LimitInv
    OBVIOUS
  <2>1. exchange \in [net: {[s \in Symbols |-> 0]}, working: {{}}, balance: Balances]
    BY DEF LiveInit
  <2>2. exchange.net = [s \in Symbols |-> 0] /\ exchange.working = {} /\ inFlight = {}
    BY <2>1 DEF LiveInit
  <2>3. Exposed = {}
    BY <2>2 DEF Exposed, Outstanding, Held
  <2>4. IsFiniteSet(Exposed) /\ Cardinality(Exposed) = 0
    BY <2>3, FS_EmptySet
  <2> QED
    BY <2>4, LimitsType DEF LimitInv
<1>2. TypeOK /\ LimitInv /\ [LiveNext]_liveVars => LimitInv'
  <2> SUFFICES ASSUME TypeOK, LimitInv, [LiveNext]_liveVars
               PROVE  LimitInv'
    OBVIOUS
  <2>1. CASE Overnight
    <3>1. /\ inFlight' = {}
          /\ exchange' = [exchange EXCEPT !.net = [s \in Symbols |-> 0], !.working = {}]
      BY <2>1 DEF Overnight, process
    <3>2. exchange'.net = [s \in Symbols |-> 0] /\ exchange'.working = {}
      BY <3>1 DEF TypeOK, WorldTypeOK
    <3>3. Exposed' = {}
      BY <3>1, <3>2 DEF Exposed, Outstanding, Held
    <3>4. IsFiniteSet(Exposed') /\ Cardinality(Exposed') = 0
      BY <3>3, FS_EmptySet
    <3> QED
      BY <3>4, LimitsType DEF LimitInv
  <2>2. CASE \E s \in Symbols, side \in {"BUY", "SELL"} : HandleSignal(s, side)
    BY <2>2, SignalLimited
  <2> QED
    BY <2>1, <2>2, OthersShrink, ExposedShrinks
<1>3. LimitInv => LimitUnlessBlind
  <2> SUFFICES ASSUME LimitInv, ~ blind
               PROVE  Cardinality(Held) <= Risk.max_open_positions
    BY DEF LimitUnlessBlind
  <2>1. Held \subseteq Exposed
    BY DEF Exposed
  <2>2. /\ Cardinality(Held) <= Cardinality(Exposed)
        /\ Cardinality(Held) \in Nat /\ Cardinality(Exposed) \in Nat
    BY <2>1, FS_Subset, FS_CardinalityType DEF LimitInv
  <2> QED
    BY <2>2, LimitsType DEF LimitInv
<1> QED
  BY <1>1, <1>2, <1>3, LiveTyped, PTL DEF LiveSpec

-----------------------------------------------------------------------------
(* What is outstanding was decided on                                       *)

Quantity == [order \in Orders |-> order.qty]
For(s, orders) == {order \in orders : order.symbol = s}
Pending(s, orders) == SumFunctionOnSet(Quantity, For(s, orders))

(* One order less: its quantity is no longer pending for its symbol.        *)
LEMMA PendingWithout ==
  ASSUME NEW orders \in SUBSET Orders, IsFiniteSet(orders), NEW order \in orders,
         NEW s \in Symbols
  PROVE  /\ Pending(s, orders) \in Int /\ Pending(s, orders \ {order}) \in Int
         /\ order.qty \in Nat
         /\ s = order.symbol
              => Pending(s, orders) = Pending(s, orders \ {order}) + order.qty
         /\ s # order.symbol => Pending(s, orders) = Pending(s, orders \ {order})
<1> DEFINE all == For(s, orders)
           rest == For(s, orders \ {order})
<1>1. IsFiniteSet(all) /\ IsFiniteSet(rest)
  BY FS_Subset DEF For
<1>2. /\ \A o \in all : Quantity[o] \in Int
      /\ \A o \in rest : Quantity[o] \in Int
      /\ order.qty \in Nat /\ Quantity[order] = order.qty
  BY DEF For, Quantity, Orders
<1>3. /\ s = order.symbol => order \in all /\ rest = all \ {order}
      /\ s # order.symbol => rest = all
  BY DEF For
<1> HIDE DEF all, rest
<1>4. SumFunctionOnSet(Quantity, all) \in Int /\ SumFunctionOnSet(Quantity, rest) \in Int
  BY <1>1, <1>2, SumOfElements
<1>5. order \in all
        => SumFunctionOnSet(Quantity, all)
             = Quantity[order] + SumFunctionOnSet(Quantity, all \ {order})
  BY <1>1, <1>2, SumOfElements
<1>6. s = order.symbol
        => SumFunctionOnSet(Quantity, all)
             = SumFunctionOnSet(Quantity, rest) + order.qty
  <2> SUFFICES ASSUME s = order.symbol
               PROVE  SumFunctionOnSet(Quantity, all)
                        = SumFunctionOnSet(Quantity, rest) + order.qty
    OBVIOUS
  <2>1. SumFunctionOnSet(Quantity, all) = order.qty + SumFunctionOnSet(Quantity, rest)
    BY <1>2, <1>3, <1>5
  <2> QED
    BY <1>2, <1>4, <2>1
<1> QED
  BY <1>2, <1>3, <1>4, <1>6 DEF Pending, all, rest

(* What is pending of a symbol is a whole number.                           *)
LEMMA PendingType ==
  ASSUME NEW orders \in SUBSET Orders, IsFiniteSet(orders), NEW s \in Symbols
  PROVE  Pending(s, orders) \in Int
<1>1. IsFiniteSet(For(s, orders)) /\ For(s, orders) \subseteq Orders
  BY FS_Subset DEF For
<1>2. \A order \in For(s, orders) : Quantity[order] \in Int
  BY <1>1 DEF Quantity, Orders
<1> QED
  BY <1>1, <1>2, SumOfElements DEF Pending

(* An order less leaves no more pending.                                    *)
LEMMA PendingLess ==
  ASSUME NEW orders \in SUBSET Orders, IsFiniteSet(orders), NEW order \in orders,
         NEW s \in Symbols
  PROVE  Pending(s, orders \ {order}) <= Pending(s, orders)
<1>1. CASE s = order.symbol
  BY <1>1, PendingWithout
<1>2. CASE s # order.symbol
  BY <1>2, PendingWithout
<1> QED
  BY <1>1, <1>2

(* One order more.                                                          *)
LEMMA PendingWith ==
  ASSUME NEW orders \in SUBSET Orders, IsFiniteSet(orders),
         NEW order \in Orders, order \notin orders, NEW s \in Symbols
  PROVE  /\ Pending(s, orders) \in Int /\ Pending(s, orders \cup {order}) \in Int
         /\ order.qty \in Nat
         /\ s = order.symbol
              => Pending(s, orders \cup {order}) = Pending(s, orders) + order.qty
         /\ s # order.symbol => Pending(s, orders \cup {order}) = Pending(s, orders)
<1> DEFINE more == orders \cup {order}
<1>1. /\ more \in SUBSET Orders /\ IsFiniteSet(more) /\ order \in more
      /\ more \ {order} = orders
  BY FS_AddElement
<1> HIDE DEF more
<1>2. /\ Pending(s, more) \in Int /\ Pending(s, orders) \in Int /\ order.qty \in Nat
      /\ s = order.symbol => Pending(s, more) = Pending(s, orders) + order.qty
      /\ s # order.symbol => Pending(s, more) = Pending(s, orders)
  BY <1>1, PendingWithout
<1> QED
  BY <1>2 DEF more

(* Without orders nothing is pending.                                       *)
LEMMA NothingPending ==
  ASSUME NEW s \in Symbols
  PROVE  Pending(s, {}) = 0
<1>1. For(s, {}) = {} /\ IsFiniteSet({})
  BY FS_EmptySet DEF For
<1> QED
  BY <1>1, SumOfZeros DEF Pending

(* What the working orders of a symbol may still buy or sell is within      *)
(* their quantities.                                                        *)
LEMMA SignedWithinPending ==
  ASSUME NEW orders \in SUBSET Orders, IsFiniteSet(orders), NEW s \in Symbols
  PROVE  LET net == SumFunction([order \in For(s, orders) |-> Signed(order)])
         IN  /\ net \in Int
             /\ net <= Pending(s, orders) /\ -net <= Pending(s, orders)
<1> DEFINE mine == For(s, orders)
           signed == [order \in mine |-> Signed(order)]
           opposite == [order \in mine |-> -Quantity[order]]
<1>1. IsFiniteSet(mine) /\ mine \subseteq Orders
  BY FS_Subset DEF For
<1>2. \A order \in mine : /\ Quantity[order] \in Int /\ signed[order] \in Int
                          /\ opposite[order] = -Quantity[order]
                          /\ signed[order] <= Quantity[order]
                          /\ opposite[order] <= signed[order]
  <2> SUFFICES ASSUME NEW order \in Orders
               PROVE  /\ order.qty \in Int /\ Signed(order) \in Int
                      /\ Quantity[order] = order.qty
                      /\ Signed(order) <= order.qty /\ -order.qty <= Signed(order)
    BY <1>1
  <2> QED
    BY DEF Orders, Quantity, Signed
<1>3. SumFunction(signed) = SumFunctionOnSet(signed, mine)
  BY DEF SumFunction
<1> HIDE DEF mine, signed, opposite
<1>4. /\ SumFunctionOnSet(signed, mine) \in Int
      /\ SumFunctionOnSet(Quantity, mine) \in Int
  BY <1>1, <1>2, SumOfElements
<1>5. SumFunctionOnSet(signed, mine) <= SumFunctionOnSet(Quantity, mine)
  BY <1>1, <1>2, SumMonotone
<1>6. SumFunctionOnSet(opposite, mine) <= SumFunctionOnSet(signed, mine)
  <2>1. \A order \in mine : opposite[order] \in Int
    BY <1>2
  <2> QED
    BY <1>1, <1>2, <2>1, SumMonotone
<1>7. SumFunctionOnSet(opposite, mine) = -SumFunctionOnSet(Quantity, mine)
  BY <1>1, <1>2, SumOfOpposites
<1>8. -SumFunctionOnSet(signed, mine) <= SumFunctionOnSet(Quantity, mine)
  BY <1>4, <1>6, <1>7
<1> QED
  BY <1>3, <1>4, <1>5, <1>8 DEF Pending, mine, signed

(* There is one order in flight, it is not at the exchange yet, and no      *)
(* order has the number the next one gets.                                  *)
OneInFlight ==
  /\ \A one, other \in inFlight : one = other
  /\ inFlight \cap exchange.working = {}
  /\ IsFiniteSet(Outstanding)
  /\ \A order \in Outstanding : order.id <= decided.orders

(* What is open and what is outstanding, together, was decided on.          *)
WithinDecision(s) ==
  LET pending == Pending(s, Outstanding)
  IN  /\ exchange.net[s] + pending <= decided.qty[s]
      /\ -exchange.net[s] + pending <= decided.qty[s]

ExposureInv == OneInFlight /\ \A s \in Symbols : WithinDecision(s)

-----------------------------------------------------------------------------
(* What a step may do to a symbol: nothing, lose an order, ...              *)
LEMMA DecisionStands ==
  ASSUME NEW s \in Symbols, WithinDecision(s), Outstanding' = Outstanding,
         exchange'.net[s] = exchange.net[s], decided'.qty[s] = decided.qty[s]
  PROVE  WithinDecision(s)'
  BY DEF WithinDecision

(* An order that is gone, and filled nothing, leaves less outstanding.      *)
LEMMA OrderLost ==
  ASSUME TypeOK, NEW s \in Symbols, WithinDecision(s), IsFiniteSet(Outstanding),
         NEW order \in Outstanding, Outstanding' = Outstanding \ {order},
         exchange'.net[s] = exchange.net[s], decided'.qty[s] = decided.qty[s]
  PROVE  WithinDecision(s)'
<1>1. Outstanding \in SUBSET Orders
  BY DEF TypeOK, ProcessTypeOK, WorldTypeOK, Outstanding
<1>2. /\ Pending(s, Outstanding) \in Int /\ Pending(s, Outstanding \ {order}) \in Int
      /\ Pending(s, Outstanding \ {order}) <= Pending(s, Outstanding)
  BY <1>1, PendingWithout, PendingLess
<1>3. exchange.net[s] \in Int /\ decided.qty[s] \in Int
  BY DEF TypeOK, WorldTypeOK, HistoryTypeOK
<1>4. \A net \in Int, pending \in Int, less \in Int, qty \in Int :
        less <= pending /\ net + pending <= qty /\ -net + pending <= qty
          => net + less <= qty /\ -net + less <= qty
  OBVIOUS
<1>5. /\ exchange.net[s] + Pending(s, Outstanding \ {order}) <= decided.qty[s]
      /\ -exchange.net[s] + Pending(s, Outstanding \ {order}) <= decided.qty[s]
  BY <1>2, <1>3, <1>4 DEF WithinDecision
<1> QED
  BY <1>5 DEF WithinDecision

(* ... decide on an order, ...                                              *)
LEMMA OrderDecided ==
  ASSUME TypeOK, NEW s \in Symbols, WithinDecision(s), IsFiniteSet(Outstanding),
         NEW order \in Orders, order \notin Outstanding,
         Outstanding' = Outstanding \cup {order}, exchange' = exchange,
         decided'.qty = [decided.qty EXCEPT ![order.symbol] = @ + order.qty]
  PROVE  WithinDecision(s)'
<1>1. Outstanding \in SUBSET Orders
  BY DEF TypeOK, ProcessTypeOK, WorldTypeOK, Outstanding
<1> DEFINE before == Pending(s, Outstanding)
           after == Pending(s, Outstanding \cup {order})
<1>2. /\ before \in Int /\ after \in Int /\ order.qty \in Nat
      /\ s = order.symbol => after = before + order.qty
      /\ s # order.symbol => after = before
  BY <1>1, PendingWith
<1>3. /\ s = order.symbol => decided'.qty[s] = decided.qty[s] + order.qty
      /\ s # order.symbol => decided'.qty[s] = decided.qty[s]
  BY DEF TypeOK, HistoryTypeOK, Orders
<1>4. exchange.net[s] \in Int /\ decided.qty[s] \in Int
  BY DEF TypeOK, WorldTypeOK, HistoryTypeOK
<1>5. exchange.net[s] + before <= decided.qty[s] /\ -exchange.net[s] + before <= decided.qty[s]
  BY DEF WithinDecision
<1> HIDE DEF before, after
<1>6. exchange.net[s] + after <= decided'.qty[s] /\ -exchange.net[s] + after <= decided'.qty[s]
  <2>1. CASE s = order.symbol
    BY <1>2, <1>3, <1>4, <1>5, <2>1
  <2>2. CASE s # order.symbol
    BY <1>2, <1>3, <1>4, <1>5, <2>2
  <2> QED
    BY <2>1, <2>2
<1> QED
  BY <1>6 DEF WithinDecision, after

(* ... or have an order filled.                                             *)
LEMMA OrderFilled ==
  ASSUME TypeOK, NEW s \in Symbols, WithinDecision(s), IsFiniteSet(Outstanding),
         NEW order \in Outstanding, Outstanding' = Outstanding \ {order},
         exchange'.net = [exchange.net EXCEPT ![order.symbol] = @ + Signed(order)],
         decided' = decided
  PROVE  WithinDecision(s)'
<1>1. Outstanding \in SUBSET Orders
  BY DEF TypeOK, ProcessTypeOK, WorldTypeOK, Outstanding
<1> DEFINE before == Pending(s, Outstanding)
           after == Pending(s, Outstanding \ {order})
<1>2. /\ before \in Int /\ after \in Int /\ order.qty \in Nat
      /\ s = order.symbol => before = after + order.qty
      /\ s # order.symbol => before = after
  BY <1>1, PendingWithout
<1>3. /\ s = order.symbol => exchange'.net[s] = exchange.net[s] + Signed(order)
      /\ s # order.symbol => exchange'.net[s] = exchange.net[s]
  BY <1>1 DEF TypeOK, WorldTypeOK, Orders
<1>4. exchange.net[s] \in Int /\ decided.qty[s] \in Int
  BY DEF TypeOK, WorldTypeOK, HistoryTypeOK
<1>5. Signed(order) = order.qty \/ Signed(order) = -order.qty
  BY DEF Signed
<1>6. exchange.net[s] + before <= decided.qty[s] /\ -exchange.net[s] + before <= decided.qty[s]
  BY DEF WithinDecision
<1> HIDE DEF before, after
<1>7. exchange'.net[s] + after <= decided.qty[s] /\ -exchange'.net[s] + after <= decided.qty[s]
  <2>1. CASE s = order.symbol
    <3>1. exchange'.net[s] = exchange.net[s] + order.qty
            \/ exchange'.net[s] = exchange.net[s] + (-order.qty)
      BY <1>3, <1>5, <2>1
    <3> QED
      BY <1>2, <1>4, <1>6, <2>1, <3>1
  <2>2. CASE s # order.symbol
    BY <1>2, <1>3, <1>4, <1>6, <2>2
  <2> QED
    BY <2>1, <2>2
<1> QED
  BY <1>7 DEF WithinDecision, after

-----------------------------------------------------------------------------
(* Every step is one of these.                                              *)
LEMMA SignalWithinDecision ==
  ASSUME TypeOK, ExposureInv, NEW s \in Symbols, NEW side \in {"BUY", "SELL"},
         HandleSignal(s, side)
  PROVE  ExposureInv'
<1>1. PICK order \in Orders :
        /\ order.symbol = s /\ order.id = decided.orders + 1
        /\ inFlight = {} /\ inFlight' = {order}
        /\ decided' = [qty |-> [decided.qty EXCEPT ![s] = @ + order.qty],
                       orders |-> order.id]
  BY SignalOrder
<1>2. exchange' = exchange
  BY DEF HandleSignal
<1>3. order \notin Outstanding
  BY <1>1 DEF ExposureInv, OneInFlight, TypeOK, HistoryTypeOK
<1>4. Outstanding' = Outstanding \cup {order}
  BY <1>1, <1>2 DEF Outstanding
<1>5. OneInFlight'
  <2>1. IsFiniteSet(Outstanding')
    BY <1>4, FS_AddElement DEF ExposureInv, OneInFlight
  <2>2. \A other \in Outstanding : other.id \in Nat /\ other.id <= decided.orders
    BY DEF ExposureInv, OneInFlight, TypeOK, ProcessTypeOK, WorldTypeOK, Outstanding, Orders
  <2>3. decided'.orders = decided.orders + 1 /\ decided.orders \in Nat
    BY <1>1 DEF TypeOK, HistoryTypeOK
  <2>4. \A other \in Outstanding' : other.id <= decided'.orders
    BY <1>1, <1>4, <2>2, <2>3
  <2>5. inFlight' \cap exchange'.working = {}
    BY <1>1, <1>2, <1>3 DEF Outstanding
  <2> QED
    BY <1>1, <2>1, <2>4, <2>5 DEF OneInFlight
<1>6. ASSUME NEW t \in Symbols
      PROVE  WithinDecision(t)'
  <2>1. decided'.qty = [decided.qty EXCEPT ![order.symbol] = @ + order.qty]
    BY <1>1
  <2>2. WithinDecision(t) /\ IsFiniteSet(Outstanding)
    BY DEF ExposureInv, OneInFlight
  <2> QED
    BY <1>2, <1>3, <1>4, <2>1, <2>2, OrderDecided
<1> QED
  BY <1>5, <1>6 DEF ExposureInv

(* Neither the process ending, nor a rejection, nor the request lets go of  *)
(* more than the order in flight.                                           *)
LEMMA FlightWithinDecision ==
  ASSUME TypeOK, ExposureInv, decided' = decided, inFlight' \in {inFlight, {}},
         exchange'.net = exchange.net,
         \/ exchange'.working = exchange.working
         \/ inFlight' = {} /\ exchange'.working = exchange.working \cup inFlight
  PROVE  ExposureInv'
<1>1. \/ Outstanding' = Outstanding
      \/ \E order \in Outstanding : Outstanding' = Outstanding \ {order}
  <2>1. CASE inFlight' = {} /\ exchange'.working = exchange.working /\ inFlight # {}
    <3>1. PICK order : order \in inFlight
      BY <2>1
    <3>2. inFlight = {order}
      BY <3>1 DEF ExposureInv, OneInFlight
    <3>3. Outstanding' = Outstanding \ {order}
      BY <2>1, <3>2 DEF ExposureInv, OneInFlight, Outstanding
    <3> QED
      BY <3>1, <3>3 DEF Outstanding
  <2>2. CASE inFlight' = {} /\ exchange'.working = exchange.working \cup inFlight
    BY <2>2 DEF Outstanding
  <2>3. CASE inFlight' = inFlight /\ exchange'.working = exchange.working
    BY <2>3 DEF Outstanding
  <2> QED
    BY <2>1, <2>2, <2>3
<1>2. Outstanding' \subseteq Outstanding
  BY <1>1
<1>3. OneInFlight'
  <2>1. IsFiniteSet(Outstanding')
    BY <1>2, FS_Subset DEF ExposureInv, OneInFlight
  <2>2. \A one, other \in inFlight' : one = other
    BY DEF ExposureInv, OneInFlight
  <2>3. inFlight' \cap exchange'.working = {}
    BY DEF ExposureInv, OneInFlight
  <2> QED
    BY <1>2, <2>1, <2>2, <2>3 DEF ExposureInv, OneInFlight
<1>4. ASSUME NEW s \in Symbols
      PROVE  WithinDecision(s)'
  <2>1. WithinDecision(s) /\ IsFiniteSet(Outstanding)
    BY DEF ExposureInv, OneInFlight
  <2>2. exchange'.net[s] = exchange.net[s] /\ decided'.qty[s] = decided.qty[s]
    OBVIOUS
  <2>3. CASE Outstanding' = Outstanding
    BY <2>1, <2>2, <2>3, DecisionStands
  <2>4. ASSUME NEW order \in Outstanding, Outstanding' = Outstanding \ {order}
        PROVE  WithinDecision(s)'
    BY <2>1, <2>2, <2>4, OrderLost
  <2> QED
    BY <1>1, <2>3, <2>4
<1> QED
  BY <1>3, <1>4 DEF ExposureInv

(* An order that fills moves from outstanding to held, one that is refused  *)
(* is gone.                                                                 *)
LEMMA SettleWithinDecision ==
  ASSUME TypeOK, ExposureInv, NEW order \in exchange.working, Settle(order)
  PROVE  ExposureInv'
<1>1. /\ \/ exchange' = [exchange EXCEPT !.working = @ \ {order},
                           !.net[order.symbol] = @ + Signed(order)]
         \/ exchange' = [exchange EXCEPT !.working = @ \ {order}]
      /\ UNCHANGED <<inFlight, decided>>
  BY DEF Settle, process, history
<1>2. /\ exchange'.working = exchange.working \ {order}
      /\ \/ exchange'.net = [exchange.net EXCEPT ![order.symbol] = @ + Signed(order)]
         \/ exchange'.net = exchange.net
  BY <1>1 DEF TypeOK, WorldTypeOK
<1>3. order \in Outstanding /\ Outstanding' = Outstanding \ {order}
  BY <1>1, <1>2 DEF Outstanding, ExposureInv, OneInFlight
<1>4. OneInFlight'
  <2>1. IsFiniteSet(Outstanding')
    BY <1>3, FS_Subset DEF ExposureInv, OneInFlight
  <2> QED
    BY <1>1, <1>2, <1>3, <2>1 DEF ExposureInv, OneInFlight
<1>5. ASSUME NEW s \in Symbols
      PROVE  WithinDecision(s)'
  <2>1. WithinDecision(s) /\ IsFiniteSet(Outstanding)
    BY DEF ExposureInv, OneInFlight
  <2>2. CASE exchange'.net = exchange.net
    BY <1>1, <1>3, <2>1, <2>2, OrderLost
  <2>3. CASE exchange'.net = [exchange.net EXCEPT ![order.symbol] = @ + Signed(order)]
    BY <1>1, <1>3, <2>1, <2>3, OrderFilled
  <2> QED
    BY <1>2, <2>2, <2>3
<1> QED
  BY <1>4, <1>5 DEF ExposureInv

(* Overnight everything is closed, lapsed and forgotten.                    *)
LEMMA OvernightWithinDecision ==
  ASSUME TypeOK, Overnight
  PROVE  ExposureInv'
<1>1. /\ inFlight' = {} /\ decided' = Nothing
      /\ exchange' = [exchange EXCEPT !.net = [s \in Symbols |-> 0], !.working = {}]
  BY DEF Overnight, process
<1>2. exchange'.net = [s \in Symbols |-> 0] /\ exchange'.working = {}
  BY <1>1 DEF TypeOK, WorldTypeOK
<1>3. Outstanding' = {}
  BY <1>1, <1>2 DEF Outstanding
<1>4. OneInFlight'
  BY <1>1, <1>2, <1>3, FS_EmptySet DEF OneInFlight
<1>5. \A s \in Symbols : WithinDecision(s)'
  BY <1>1, <1>2, <1>3, NothingPending DEF WithinDecision, Nothing
<1> QED
  BY <1>4, <1>5 DEF ExposureInv

(* Every step keeps the exposure within what was decided.                   *)
LEMMA StepWithinDecision ==
  ASSUME TypeOK, ExposureInv, [LiveNext]_liveVars
  PROVE  ExposureInv'
<1>1. CASE PlaceOrder
  <2>1. PICK order \in inFlight :
          /\ inFlight' = {} /\ UNCHANGED decided
          /\ \/ exchange' = [exchange EXCEPT !.working = @ \cup {order}]
             \/ exchange' = exchange
    BY <1>1 DEF PlaceOrder, Arrives, history
  <2>2. inFlight = {order}
    BY DEF ExposureInv, OneInFlight
  <2>3. /\ exchange'.net = exchange.net
        /\ exchange'.working \in {exchange.working, exchange.working \cup inFlight}
    BY <2>1, <2>2 DEF TypeOK, WorldTypeOK
  <2> QED
    BY <2>1, <2>3, FlightWithinDecision
<1>2. CASE MarketMoves
  <2>1. exchange'.net = exchange.net /\ exchange'.working = exchange.working
    BY <1>2 DEF MarketMoves, TypeOK, WorldTypeOK
  <2>2. UNCHANGED <<inFlight, decided>>
    BY <1>2 DEF MarketMoves, process
  <2> QED
    BY <2>1, <2>2, FlightWithinDecision
<1>3. CASE UNCHANGED <<exchange, decided>> /\ inFlight' \in {inFlight, {}}
  BY <1>3, FlightWithinDecision
<1>4. \/ UNCHANGED <<exchange, decided>> /\ inFlight' \in {inFlight, {}}
      \/ \E s \in Symbols, side \in {"BUY", "SELL"} : HandleSignal(s, side)
      \/ PlaceOrder \/ MarketMoves \/ Overnight
      \/ \E order \in exchange.working : Settle(order)
  BY DEF LiveNext, liveVars, process, history, Connect, Initialise, Tick, Baselines,
         CheckGlobalHalts, RunLoop, Crash, Dies, RejectForToken, ApiChanges, Validation
<1> QED
  BY <1>1, <1>2, <1>3, <1>4, SignalWithinDecision, SettleWithinDecision,
     OvernightWithinDecision

(* What is open and working at the exchange never exceeds what was decided  *)
(* on that day, in either direction: an answer that is lost sends no order  *)
(* twice (place_order).                                                     *)
THEOREM ExposureIsDecided == LiveSpec => []ExposureWasDecided
<1>1. LiveInit => ExposureInv
  <2> SUFFICES ASSUME LiveInit PROVE ExposureInv
    OBVIOUS
  <2>1. exchange \in [net: {[s \in Symbols |-> 0]}, working: {{}}, balance: Balances]
    BY DEF LiveInit
  <2>2. /\ exchange.net = [s \in Symbols |-> 0] /\ exchange.working = {}
        /\ inFlight = {} /\ decided = Nothing
    BY <2>1 DEF LiveInit
  <2>3. Outstanding = {}
    BY <2>2 DEF Outstanding
  <2>4. OneInFlight
    BY <2>2, <2>3, FS_EmptySet DEF OneInFlight
  <2>5. \A s \in Symbols : WithinDecision(s)
    BY <2>2, <2>3, NothingPending DEF WithinDecision, Nothing
  <2> QED
    BY <2>4, <2>5 DEF ExposureInv
<1>2. TypeOK /\ ExposureInv /\ [LiveNext]_liveVars => ExposureInv'
  BY StepWithinDecision
<1>3. TypeOK /\ ExposureInv => ExposureWasDecided
  <2> SUFFICES ASSUME TypeOK, ExposureInv, NEW s \in Symbols
               PROVE  LET working == {order \in exchange.working : order.symbol = s}
                          net == exchange.net[s]
                                   + SumFunction([order \in working |-> Signed(order)])
                      IN  net <= decided.qty[s] /\ -net <= decided.qty[s]
    BY DEF ExposureWasDecided
  <2> DEFINE sent == exchange.working
             signed == SumFunction([order \in For(s, sent) |-> Signed(order)])
  <2>1. /\ sent \in SUBSET Orders /\ IsFiniteSet(sent)
        /\ exchange.net[s] \in Int /\ decided.qty[s] \in Int
    BY FS_Subset DEF TypeOK, WorldTypeOK, HistoryTypeOK, ExposureInv, OneInFlight,
                     Outstanding
  <2>2. signed \in Int /\ signed <= Pending(s, sent) /\ -signed <= Pending(s, sent)
    BY <2>1, SignedWithinPending
  <2>3. /\ Pending(s, sent) \in Int /\ Pending(s, Outstanding) \in Int
        /\ Pending(s, sent) <= Pending(s, Outstanding)
    <3>1. Outstanding \in SUBSET Orders /\ IsFiniteSet(Outstanding)
      BY DEF TypeOK, ProcessTypeOK, WorldTypeOK, ExposureInv, OneInFlight, Outstanding
    <3>2. CASE inFlight = {}
      <4>1. Outstanding = sent
        BY <3>2 DEF Outstanding
      <4>2. Pending(s, sent) \in Int
        BY <2>1, PendingType
      <4> QED
        BY <4>1, <4>2
    <3>3. ASSUME NEW order \in inFlight
          PROVE  /\ Pending(s, sent) \in Int /\ Pending(s, Outstanding) \in Int
                 /\ Pending(s, sent) <= Pending(s, Outstanding)
      <4>1. order \in Outstanding /\ Outstanding \ {order} = sent
        BY DEF Outstanding, ExposureInv, OneInFlight
      <4>2. Pending(s, Outstanding \ {order}) <= Pending(s, Outstanding)
        BY <3>1, <4>1, PendingLess
      <4> QED
        BY <2>1, <3>1, <4>1, <4>2, PendingType
    <3> QED
      BY <3>2, <3>3
  <2>4. /\ exchange.net[s] + Pending(s, Outstanding) <= decided.qty[s]
        /\ -exchange.net[s] + Pending(s, Outstanding) <= decided.qty[s]
    BY DEF ExposureInv, WithinDecision
  <2>5. /\ exchange.net[s] + signed <= decided.qty[s]
        /\ -(exchange.net[s] + signed) <= decided.qty[s]
    <3> HIDE DEF signed, sent
    <3> QED
      BY <2>1, <2>2, <2>3, <2>4
  <2> QED
    BY <2>5 DEF For
<1> QED
  BY <1>1, <1>2, <1>3, LiveTyped, PTL DEF LiveSpec

-----------------------------------------------------------------------------
(* The verdict                                                              *)

(* While the verdict is written the file is torn, and the verdict is of a   *)
(* day that met every threshold if it says so.                              *)
Writing ==
  wf.stage = "write" =>
    /\ gateFile = Torn
    /\ wf.verdict \in [passed: BOOLEAN, timestamp: 0..today]
    /\ wf.verdict.passed => wf.verdict.timestamp \in sound

VerdictInv == today \in Nat /\ Writing

(* The checks of the gate find nothing only where every threshold is met.   *)
LEMMA NoFailures ==
  ASSUME NEW metrics, NEW years, Failures(metrics, years) = {}
  PROVE  MeetsAll(metrics) /\ years >= GateCfg.walk_forward_years
<1>1. \A name \in {"sharpe", "win_rate", "profit_factor"} : AtLeast(metrics[name], GateCfg[name])
  BY DEF Failures
<1>2. AtLeast(GateCfg.max_drawdown, metrics.max_drawdown)
  BY DEF Failures
<1>3. metrics.n_trades >= GateCfg.min_trades
  BY DEF Failures
<1>4. years >= GateCfg.walk_forward_years
  BY DEF Failures
<1> QED
  BY <1>1, <1>2, <1>3, <1>4 DEF MeetsAll

(* Every step is one of the gate's, or none, and keeps the verdict honest.  *)
LEMMA VerdictStep ==
  ASSUME VerdictInv, WalkForwardNext
  PROVE  VerdictInv' /\ [GateNext]_gateVars
<1>1. CASE NextDay /\ UNCHANGED run
  <2>1. today' = today + 1 /\ UNCHANGED <<gateFile, sound, wf>>
    BY <1>1 DEF NextDay, run
  <2> QED
    BY <1>1, <2>1 DEF VerdictInv, Writing, GateNext
<1>2. ASSUME NEW years \in Years, StartWalkForward(years)
      PROVE  VerdictInv' /\ [GateNext]_gateVars
  BY <1>2 DEF StartWalkForward, gateVars, VerdictInv, Writing
<1>3. ASSUME NEW i \in DOMAIN ranges, NEW result \in Results, WindowCompletes(i, result)
      PROVE  VerdictInv' /\ [GateNext]_gateVars
  BY <1>3 DEF WindowCompletes, gateVars, VerdictInv, Writing
<1>4. CASE Abort \/ DiesWriting
  BY <1>4 DEF Abort, DiesWriting, EndOfCommand, Idle, gateVars, VerdictInv, Writing
<1>5. ASSUME NEW metrics \in Aggregate, EvaluateGate(metrics)
      PROVE  VerdictInv' /\ [GateNext]_gateVars
  <2> DEFINE passed == Failures(metrics, wf.years) = {}
  <2>1. /\ wf' = [stage |-> "write", years |-> wf.years,
                  verdict |-> [passed |-> passed, timestamp |-> today]]
        /\ sound' = IF MeetsAll(metrics) THEN sound \cup {today} ELSE sound
        /\ gateFile' = Torn
        /\ today' = today
    BY <1>5 DEF EvaluateGate
  <2>2. passed => MeetsAll(metrics)
    BY NoFailures
  <2>3. passed \in BOOLEAN
    OBVIOUS
  <2> HIDE DEF passed
  <2>4. passed => today \in sound'
    BY <2>1, <2>2
  <2>5. VerdictInv'
    BY <2>1, <2>3, <2>4 DEF VerdictInv, Writing
  <2>6. Verdict(MeetsAll(metrics) = TRUE)
    BY <2>1 DEF Verdict
  <2> QED
    BY <2>5, <2>6 DEF GateNext
<1>6. CASE WriteGateResult
  <2>1. /\ wf.stage = "write" /\ gateFile' = wf.verdict /\ wf' = Idle
        /\ UNCHANGED <<today, sound>>
    BY <1>6 DEF WriteGateResult, EndOfCommand
  <2>2. PICK passed \in BOOLEAN, day \in 0..today :
          wf.verdict = [passed |-> passed, timestamp |-> day]
    BY <2>1 DEF VerdictInv, Writing
  <2>3. WriteVerdict(passed, day)
    BY <2>1, <2>2 DEF WriteVerdict, VerdictInv, Writing
  <2> QED
    BY <2>1, <2>3 DEF VerdictInv, Writing, Idle, GateNext
<1> QED
  BY <1>1, <1>2, <1>3, <1>4, <1>5, <1>6 DEF WalkForwardNext

(* A validation is a gate: what live trading reads is a verdict of a day    *)
(* that met every threshold, whatever the windows gave, the order they      *)
(* finished in, and wherever the command was interrupted (run_walk_forward, *)
(* evaluate_gate, write_gate_result).                                       *)
THEOREM ValidationIsAGate == WalkForwardSpec => GateSpec
<1>1. WalkForwardInit => VerdictInv /\ GateInit
  BY DEF WalkForwardInit, GateInit, VerdictInv, Writing, Idle
<1>2. VerdictInv /\ [WalkForwardNext]_wfVars => VerdictInv' /\ [GateNext]_gateVars
  <2>1. VerdictInv /\ UNCHANGED wfVars => VerdictInv' /\ UNCHANGED gateVars
    BY DEF wfVars, run, gateVars, VerdictInv, Writing
  <2> QED
    BY <2>1, VerdictStep
<1> QED
  BY <1>1, <1>2, PTL DEF WalkForwardSpec, GateSpec

-----------------------------------------------------------------------------
(* The windows                                                              *)

(* As many windows as it takes: one less would not reach the end.           *)
LEMMA Rounding ==
  ASSUME NEW months \in Nat \ {0}, NEW width \in Nat \ {0}
  PROVE  LET n == (months + width - 1) \div width
         IN  n \in Nat \ {0} /\ months <= n * width /\ (n - 1) * width < months
<1> DEFINE n == (months + width - 1) \div width
<1>1. /\ n \in Int /\ n * width <= months + width - 1
      /\ months + width - 1 < n * width + width
  BY Z3
<1>2. n >= 1
  <2>1. \A k \in Int : k <= 0 => k * width <= 0
    BY Z3
  <2> HIDE DEF n
  <2>2. n * width > 0
    BY <1>1, Z3
  <2> QED
    BY <1>1, <2>1, <2>2
<1>3. (n - 1) * width = n * width - width
  BY <1>1, Z3
<1> HIDE DEF n
<1>4. n \in Nat \ {0} /\ months <= n * width /\ (n - 1) * width < months
  BY <1>1, <1>2, <1>3
<1> QED
  BY <1>4 DEF n

(* The windows are those of the loop that date_ranges comes from: the first *)
(* begins at the start, each ends WindowMonths later or at the end, the     *)
(* next begins where it ended, and it stops at the end. No day is tested    *)
(* twice and none is left out (run_walk_forward).                           *)
THEOREM WindowsTile ==
  ASSUME NEW years \in Years
  PROVE  LET months == years * MonthsPerYear
             n == (months + WindowMonths - 1) \div WindowMonths
             r == DateRanges(years)
         IN  /\ n \in Nat \ {0} /\ DOMAIN r = 1..n
             /\ r[1].start = 0 /\ r[n].end = months
             /\ \A i \in 1..n :
                  /\ r[i].start < months
                  /\ r[i].end = IF r[i].start + WindowMonths < months
                                THEN r[i].start + WindowMonths ELSE months
             /\ \A i \in 1..(n - 1) : r[i + 1].start = r[i].end
<1> DEFINE months == years * MonthsPerYear
           n == (months + WindowMonths - 1) \div WindowMonths
           r == DateRanges(years)
           W == WindowMonths
<1>1. /\ months \in Nat \ {0} /\ W \in Nat \ {0}
  <2>1. /\ years \in Nat \ {0} /\ MonthsPerYear \in Nat \ {0}
        /\ WindowMonths \in Nat \ {0}
    BY WalkForwardAssumption
  <2> QED
    BY <2>1, Z3
<1>2. /\ r = [i \in 1..n |-> [start |-> (i - 1) * W,
                             end |-> IF i * W < months THEN i * W ELSE months]]
  BY DEF DateRanges
<1> HIDE DEF months, r, W
<1>3. n \in Nat \ {0} /\ months <= n * W /\ (n - 1) * W < months
  BY <1>1, Rounding DEF W
<1> HIDE DEF n
<1>4. ASSUME NEW i \in 1..n
      PROVE  /\ i * W = (i - 1) * W + W /\ i * W \in Int /\ (i - 1) * W \in Int
             /\ (i - 1) * W < months
             /\ i # n => i * W < months
  <2>1. \A k \in Int : k <= n - 1 => k * W <= (n - 1) * W
    BY <1>1, <1>3, Z3
  <2>2. i * W = (i - 1) * W + W /\ i * W \in Int /\ (i - 1) * W \in Int
        /\ (n - 1) * W \in Int
    BY <1>1, <1>3, Z3
  <2>3. (i - 1) * W <= (n - 1) * W
    BY <1>3, <2>1
  <2>4. i # n => i * W <= (n - 1) * W
    BY <1>3, <2>1
  <2> QED
    BY <1>1, <1>3, <2>2, <2>3, <2>4
<1>5. \A i \in 1..n :
        /\ r[i].start = (i - 1) * W
        /\ r[i].end = IF i * W < months THEN i * W ELSE months
  BY <1>2
<1>6. DOMAIN r = 1..n
  BY <1>2
<1>7. r[1].start = 0
  BY <1>1, <1>3, <1>5
<1>8. r[n].end = months
  <2>1. n \in 1..n /\ n * W \in Int
    BY <1>3, <1>4
  <2>2. r[n].end = IF n * W < months THEN n * W ELSE months
    BY <1>5, <2>1
  <2> QED
    BY <1>1, <1>3, <2>1, <2>2
<1>9. ASSUME NEW i \in 1..n
      PROVE  /\ r[i].start < months
             /\ r[i].end = IF r[i].start + W < months THEN r[i].start + W ELSE months
  BY <1>4, <1>5
<1>10. ASSUME NEW i \in 1..(n - 1)
       PROVE  r[i + 1].start = r[i].end
  <2>1. i \in 1..n /\ i # n /\ i + 1 \in 1..n /\ (i + 1) - 1 = i
    BY <1>3
  <2>2. r[i + 1].start = i * W
    BY <1>5, <2>1
  <2>3. r[i].end = i * W
    BY <1>4, <1>5, <2>1
  <2> QED
    BY <2>2, <2>3
<1> QED
  BY <1>3, <1>6, <1>7, <1>8, <1>9, <1>10 DEF months, n, r, W

(* Every window is finished, left out or yet to come, and only one of them; *)
(* the verdict is on all of the windows that were asked for.                *)
WindowsInv ==
  /\ wf = Idle => ranges = <<>> /\ windows = <<>> /\ skipped = {}
  /\ wf # Idle => wf.years \in Years /\ ranges = DateRanges(wf.years)
  /\ wf.stage \in {"idle", "pool", "write"}
  /\ DOMAIN windows \subseteq DOMAIN ranges /\ skipped \subseteq DOMAIN ranges
  /\ DOMAIN windows \cap skipped = {}

WindowsKept ==
  \/ wf' = Idle
  \/ /\ DOMAIN windows \subseteq DOMAIN windows' /\ skipped \subseteq skipped'
     /\ \A i \in DOMAIN windows : windows'[i] = windows[i]

VerdictOnAll ==
  wf.stage = "write" =>
    DOMAIN DateRanges(wf.years) = DOMAIN windows \cup skipped

WindowsAccounted == WindowsInv /\ VerdictOnAll

(* The empty list has no places.                                            *)
LEMMA NoWindows == DOMAIN <<>> = {}
  OBVIOUS

(* At its end the command is idle again, and no window is left to account   *)
(* for.                                                                     *)
LEMMA WindowsEnd ==
  ASSUME EndOfCommand
  PROVE  WindowsAccounted' /\ WindowsKept
<1>1. wf' = Idle /\ ranges' = <<>> /\ windows' = <<>> /\ skipped' = {}
  BY DEF EndOfCommand
<1> QED
  BY <1>1, NoWindows DEF WindowsAccounted, WindowsInv, VerdictOnAll, WindowsKept, Idle

(* Every step accounts for the windows, and keeps those that came back      *)
(* until it ends.                                                           *)
LEMMA WindowsStep ==
  ASSUME WindowsAccounted, WalkForwardNext
  PROVE  WindowsAccounted' /\ WindowsKept
<1> USE DEF WindowsAccounted
<1>1. CASE NextDay /\ UNCHANGED run
  BY <1>1 DEF run, WindowsInv, VerdictOnAll, WindowsKept
<1>2. ASSUME NEW years \in Years, StartWalkForward(years)
      PROVE  WindowsAccounted' /\ WindowsKept
  <2>1. /\ wf = Idle /\ wf' = [stage |-> "pool", years |-> years, verdict |-> NoFile]
        /\ ranges' = DateRanges(years) /\ UNCHANGED <<windows, skipped>>
    BY <1>2 DEF StartWalkForward
  <2>2. DOMAIN windows = {} /\ skipped = {} /\ wf'.stage = "pool" /\ wf'.years = years
    BY <2>1, NoWindows DEF WindowsInv
  <2>3. wf' # Idle
    BY <2>2 DEF Idle
  <2> QED
    BY <2>1, <2>2, <2>3 DEF WindowsInv, VerdictOnAll, WindowsKept
<1>3. ASSUME NEW i \in DOMAIN ranges, NEW result \in Results, WindowCompletes(i, result)
      PROVE  WindowsAccounted' /\ WindowsKept
  <2>1. i \notin DOMAIN windows /\ i \notin skipped
    BY <1>3 DEF WindowCompletes, Running, Unfinished
  <2>2. wf.stage = "pool" /\ wf' = wf /\ ranges' = ranges
    BY <1>3 DEF WindowCompletes
  <2>3. CASE skipped' = skipped \cup {i} /\ UNCHANGED windows
    BY <2>1, <2>2, <2>3 DEF WindowsInv, VerdictOnAll, WindowsKept, Idle
  <2>4. CASE /\ windows' = [j \in DOMAIN windows \cup {i} |->
                              IF j = i THEN result ELSE windows[j]]
             /\ UNCHANGED skipped
    <3>1. /\ DOMAIN windows' = DOMAIN windows \cup {i}
          /\ \A j \in DOMAIN windows : windows'[j] = windows[j]
      BY <2>1, <2>4
    <3> QED
      BY <2>1, <2>2, <2>4, <3>1 DEF WindowsInv, VerdictOnAll, WindowsKept, Idle
  <2> QED
    BY <1>3, <2>3, <2>4 DEF WindowCompletes
<1>4. CASE Abort \/ WriteGateResult \/ DiesWriting
  BY <1>4, WindowsEnd DEF Abort, WriteGateResult, DiesWriting
<1>5. ASSUME NEW metrics \in Aggregate, EvaluateGate(metrics)
      PROVE  WindowsAccounted' /\ WindowsKept
  <2>1. /\ wf.stage = "pool" /\ Unfinished = {}
        /\ wf'.stage = "write" /\ wf'.years = wf.years
        /\ UNCHANGED <<ranges, windows, skipped>>
    BY <1>5 DEF EvaluateGate
  <2>2. wf # Idle /\ wf' # Idle
    BY <2>1 DEF Idle
  <2>3. DOMAIN ranges = DOMAIN windows \cup skipped
    BY <2>1 DEF Unfinished, WindowsInv
  <2> QED
    BY <2>1, <2>2, <2>3 DEF WindowsInv, VerdictOnAll, WindowsKept
<1> QED
  BY <1>1, <1>2, <1>3, <1>4, <1>5 DEF WalkForwardNext

(* In whatever order the workers finish, a verdict is on every window of    *)
(* the years that were asked for, each with a result or left out for want   *)
(* of bars, never both, and a result that came stays until the command ends *)
(* (as_completed, windows_map).                                             *)
THEOREM EveryWindowCounts ==
  WalkForwardSpec => []WindowsAccounted /\ [][WindowsKept]_wfVars
<1>1. WalkForwardInit => WindowsAccounted
  BY NoWindows DEF WalkForwardInit, WindowsAccounted, WindowsInv, VerdictOnAll, Idle
<1>2. WindowsAccounted /\ [WalkForwardNext]_wfVars
        => WindowsAccounted' /\ [WindowsKept]_wfVars
  <2>1. WindowsAccounted /\ UNCHANGED wfVars => WindowsAccounted'
    BY DEF wfVars, run, WindowsAccounted, WindowsInv, VerdictOnAll
  <2> QED
    BY <2>1, WindowsStep
<1> QED
  BY <1>1, <1>2, PTL DEF WalkForwardSpec

-----------------------------------------------------------------------------
(* Euclid's algorithm                                                       *)

Divides(d, n) == \E k \in Nat : n = d * k

CommonDivisors(p) == {d \in Nat \ {0} : Divides(d, p[1]) /\ Divides(d, p[2])}

(* What is used of products of naturals.                                    *)
LEMMA ProductsOfNaturals ==
  ASSUME NEW x \in Nat, NEW y \in Nat, NEW z \in Nat
  PROVE  /\ x * y \in Nat /\ x * y = y * x /\ x * (y * z) = (x * y) * z
         /\ x * (y + z) = x * y + x * z
         /\ x # 0 /\ y # 0 => x * y # 0
  BY Z3

(* Division with a remainder less than the divisor.                         *)
LEMMA DivisionAlgorithm ==
  ASSUME NEW a \in Nat, NEW b \in Nat \ {0}
  PROVE  /\ a \div b \in Nat /\ a % b \in Nat /\ a % b < b
         /\ a = b * (a \div b) + (a % b)
  OBVIOUS

(* What divides the divisor divides the number if it divides the remainder. *)
LEMMA DivisorsOfRemainder ==
  ASSUME NEW a \in Nat, NEW b \in Nat \ {0}, NEW d \in Nat \ {0}, Divides(d, b)
  PROVE  Divides(d, a) <=> Divides(d, a % b)
<1> DEFINE q == a \div b
           r == a % b
<1>1. q \in Nat /\ r \in Nat /\ a = b * q + r
  BY DivisionAlgorithm
<1> HIDE DEF q, r
<1>2. PICK k \in Nat : b = d * k
  BY DEF Divides
<1>3. b * q = d * (k * q) /\ k * q \in Nat
  BY <1>1, <1>2, ProductsOfNaturals
<1>4. ASSUME Divides(d, r)
      PROVE  Divides(d, a)
  <2>1. PICK l \in Nat : r = d * l
    BY <1>4 DEF Divides
  <2>2. a = d * (k * q + l) /\ k * q + l \in Nat
    BY <1>1, <1>3, <2>1, ProductsOfNaturals
  <2> QED
    BY <2>2 DEF Divides
<1>5. ASSUME Divides(d, a)
      PROVE  Divides(d, r)
  <2>1. PICK l \in Nat : a = d * l
    BY <1>5 DEF Divides
  <2> DEFINE m == k * q
  <2>2. m \in Nat /\ d * l = d * m + r
    BY <1>1, <1>3, <2>1
  <2> HIDE DEF m
  <2>3. m <= l
    BY <1>1, <2>2, Z3
  <2>4. l - m \in Nat /\ l = m + (l - m)
    BY <2>2, <2>3
  <2>5. d * l = d * m + d * (l - m)
    BY <2>2, <2>4, ProductsOfNaturals
  <2>6. d * m \in Nat /\ d * (l - m) \in Nat
    BY <2>2, <2>4, ProductsOfNaturals
  <2>7. r = d * (l - m)
    BY <1>1, <2>2, <2>5, <2>6
  <2> QED
    BY <2>4, <2>7 DEF Divides
<1> QED
  BY <1>4, <1>5 DEF r

(* The recursion of Gcd has a solution: the greatest common divisor.        *)
Euclid(g) ==
  g = [p \in Nat \X Nat |-> IF p[2] = 0 THEN p[1] ELSE g[<<p[2], p[1] % p[2]>>]]

GreatestDivisor(p) ==
  IF p[2] = 0 THEN p[1]
  ELSE CHOOSE d \in CommonDivisors(p) : \A e \in CommonDivisors(p) : d >= e

(* A number that divides another is the greatest that divides both.         *)
LEMMA GreatestDivisorOfDivided ==
  ASSUME NEW b \in Nat \ {0}, NEW a \in Nat, Divides(b, a)
  PROVE  GreatestDivisor(<<a, b>>) = b
<1> DEFINE D == CommonDivisors(<<a, b>>)
<1>1. b \in D
  <2>1. b = b * 1 /\ 1 \in Nat
    OBVIOUS
  <2> QED
    BY <2>1 DEF CommonDivisors, Divides
<1>2. \A d \in D : d \in Nat /\ b >= d
  <2> SUFFICES ASSUME NEW d \in Nat \ {0}, NEW k \in Nat, b = d * k
               PROVE  b >= d
    BY DEF CommonDivisors, Divides
  <2> QED
    BY Z3
<1>3. GreatestDivisor(<<a, b>>) = CHOOSE d \in D : \A e \in D : d >= e
  BY DEF GreatestDivisor
<1>4. b \in D /\ \A e \in D : b >= e
  BY <1>1, <1>2
<1>5. \A d \in D : (\A e \in D : d >= e) => d = b
  <2> SUFFICES ASSUME NEW d \in D, \A e \in D : d >= e
               PROVE  d = b
    OBVIOUS
  <2>1. d \in Nat /\ d >= b /\ b >= d
    BY <1>1, <1>2
  <2> QED
    BY <2>1
<1> HIDE DEF D
<1> QED
  BY <1>3, <1>4, <1>5

(* The greatest common divisor solves the recursion of Gcd.                 *)
LEMMA EuclidSolved == Euclid([p \in Nat \X Nat |-> GreatestDivisor(p)])
<1> DEFINE g == [p \in Nat \X Nat |-> GreatestDivisor(p)]
<1>1. ASSUME NEW a \in Nat, NEW b \in Nat \ {0}
      PROVE  GreatestDivisor(<<a, b>>) = GreatestDivisor(<<b, a % b>>)
  <2> DEFINE r == a % b
  <2>1. r \in Nat
    BY DivisionAlgorithm
  <2>2. CASE r = 0
    <3>1. Divides(b, a)
      <4>1. a = b * (a \div b) /\ a \div b \in Nat
        <5>1. a \div b \in Nat /\ a = b * (a \div b) + r
          BY DivisionAlgorithm
        <5>2. b * (a \div b) \in Nat
          BY <5>1, ProductsOfNaturals
        <5> QED
          BY <2>2, <5>1, <5>2
      <4> QED
        BY <4>1 DEF Divides
    <3>2. GreatestDivisor(<<b, r>>) = b
      BY <2>2 DEF GreatestDivisor
    <3> QED
      BY <3>1, <3>2, GreatestDivisorOfDivided
  <2>3. CASE r # 0
    <3>1. CommonDivisors(<<a, b>>) = CommonDivisors(<<b, r>>)
      <4> SUFFICES ASSUME NEW d \in Nat \ {0}
                   PROVE  Divides(d, a) /\ Divides(d, b) <=> Divides(d, b) /\ Divides(d, r)
        BY DEF CommonDivisors
      <4> QED
        BY DivisorsOfRemainder
    <3> QED
      BY <2>3, <3>1 DEF GreatestDivisor
  <2> QED
    BY <2>2, <2>3
<1>2. ASSUME NEW p \in Nat \X Nat
      PROVE  g[p] = IF p[2] = 0 THEN p[1] ELSE g[<<p[2], p[1] % p[2]>>]
  <2>1. PICK a \in Nat, b \in Nat : p = <<a, b>>
    OBVIOUS
  <2>2. CASE b = 0
    BY <2>1, <2>2 DEF GreatestDivisor
  <2>3. CASE b # 0
    <3>1. a % b \in Nat
      BY <2>3, DivisionAlgorithm
    <3>2. <<b, a % b>> \in Nat \X Nat
      BY <3>1
    <3>3. g[p] = GreatestDivisor(<<a, b>>) /\ g[<<b, a % b>>] = GreatestDivisor(<<b, a % b>>)
      BY <2>1, <3>2
    <3>4. GreatestDivisor(<<a, b>>) = GreatestDivisor(<<b, a % b>>)
      BY <1>1, <2>3
    <3> QED
      BY <2>1, <2>3, <3>3, <3>4
  <2> QED
    BY <2>2, <2>3
<1>3. g = [p \in Nat \X Nat |-> IF p[2] = 0 THEN p[1] ELSE g[<<p[2], p[1] % p[2]>>]]
  <2>1. g = [p \in Nat \X Nat |-> g[p]]
    OBVIOUS
  <2> HIDE DEF g
  <2> QED
    BY <1>2, <2>1
<1> QED
  BY <1>3 DEF Euclid

(* So Gcd, which is chosen among its solutions, obeys it.                   *)
LEMMA GcdEquation == Euclid(Gcd)
<1>1. Gcd = CHOOSE g : Euclid(g)
  BY DEF Gcd, Euclid
<1> QED
  BY <1>1, EuclidSolved

(* What is divided by it leaves no remainder.                               *)
LEMMA GcdDivides ==
  ASSUME NEW a \in Nat, NEW b \in Nat, a # 0 \/ b # 0
  PROVE  /\ Gcd[<<a, b>>] \in Nat \ {0}
         /\ Divides(Gcd[<<a, b>>], a) /\ Divides(Gcd[<<a, b>>], b)
<1> DEFINE Fine(x, y) == /\ Gcd[<<x, y>>] \in Nat \ {0}
                         /\ Divides(Gcd[<<x, y>>], x) /\ Divides(Gcd[<<x, y>>], y)
           Good(n) == \A y \in 0..n : \A x \in Nat : x # 0 \/ y # 0 => Fine(x, y)
           T == {n \in Nat : Good(n)}
<1>1. Good(0)
  <2> SUFFICES ASSUME NEW x \in Nat \ {0}
               PROVE  Fine(x, 0)
    OBVIOUS
  <2>1. Gcd[<<x, 0>>] = x
    BY GcdEquation DEF Euclid
  <2>2. x = x * 1 /\ 0 = x * 0 /\ 1 \in Nat /\ 0 \in Nat
    OBVIOUS
  <2> QED
    BY <2>1, <2>2 DEF Divides
<1>2. ASSUME NEW n \in Nat, Good(n)
      PROVE  Good(n + 1)
  <2> DEFINE y == n + 1
  <2>1. ASSUME NEW x \in Nat
        PROVE  Fine(x, y)
    <3> DEFINE r == x % y
    <3>1. y \in Nat \ {0} /\ r \in 0..n
      <4>1. y \in Nat \ {0}
        OBVIOUS
      <4>2. r \in Nat /\ r < y
        BY <4>1, DivisionAlgorithm
      <4> QED
        BY <4>1, <4>2
    <3>2. Gcd[<<x, y>>] = Gcd[<<y, r>>]
      BY <3>1, GcdEquation DEF Euclid
    <3>3. Fine(y, r)
      BY <1>2, <3>1
    <3> HIDE DEF r
    <3>4. Divides(Gcd[<<x, y>>], x)
      BY <3>1, <3>2, <3>3, DivisorsOfRemainder DEF r
    <3> QED
      BY <3>2, <3>3, <3>4
  <2>2. \A z \in 0..(n + 1) : z = n + 1 \/ z \in 0..n
    OBVIOUS
  <2> HIDE DEF Fine
  <2> QED
    BY <1>2, <2>1, <2>2
<1> HIDE DEF Good
<1>3. 0 \in T /\ \A n \in Nat : n \in T => n + 1 \in T
  BY <1>1, <1>2
<1>4. Nat \subseteq T
  <2> HIDE DEF T
  <2> QED
    BY <1>3, NaturalsCovered
<1>5. Good(b)
  BY <1>4
<1>6. b \in 0..b
  OBVIOUS
<1> HIDE DEF Fine
<1>7. Fine(a, b)
  BY <1>5, <1>6 DEF Good
<1> QED
  BY <1>7 DEF Fine

-----------------------------------------------------------------------------
(* Ratios                                                                   *)

Fraction == Nat \X (Nat \ {0})
Positive == (Nat \ {0}) \X (Nat \ {0})

(* A fraction has a numerator and a denominator that is not zero.           *)
LEMMA RatioParts ==
  ASSUME NEW a \in Fraction
  PROVE  a[1] \in Nat /\ a[2] \in Nat /\ a[2] # 0
  BY DEF Fraction

(* A product divided by one factor is the other.                            *)
LEMMA QuotientOfProduct ==
  ASSUME NEW k \in Nat, NEW g \in Nat \ {0}
  PROVE  (g * k) \div g = k
<1> DEFINE n == g * k
           q == n \div g
<1>1. n \in Nat
  BY ProductsOfNaturals
<1>2. q \in Nat /\ n % g \in Nat /\ n % g < g /\ n = g * q + (n % g)
  BY <1>1, DivisionAlgorithm
<1> DEFINE r == n % g
<1>3. q \in Nat /\ r \in Nat /\ r < g /\ g * k = g * q + r
  BY <1>2
<1> HIDE DEF q, r
<1>4. q = k
  BY <1>3, Z3
<1> QED
  BY <1>4 DEF q

(* In lowest terms a ratio is still the same.                               *)
LEMMA LowestIsRatio ==
  ASSUME NEW n \in Nat, NEW d \in Nat \ {0}
  PROVE  Lowest(n, d) \in Fraction /\ Lowest(n, d)[1] * d = n * Lowest(n, d)[2]
<1> DEFINE g == Gcd[<<n, d>>]
<1>1. g \in Nat \ {0} /\ Divides(g, n) /\ Divides(g, d)
  BY GcdDivides
<1>2. Lowest(n, d) = <<n \div g, d \div g>>
  BY DEF Lowest
<1> HIDE DEF g
<1>3. PICK k \in Nat : n = g * k
  BY <1>1 DEF Divides
<1>4. PICK l \in Nat : d = g * l
  BY <1>1 DEF Divides
<1>5. l # 0
  BY <1>1, <1>4
<1>6. n \div g = k /\ d \div g = l
  BY <1>1, <1>3, <1>4, QuotientOfProduct
<1>7. k * (g * l) = (g * k) * l
  BY <1>1, Z3
<1>8. Lowest(n, d) = <<k, l>>
  BY <1>2, <1>6
<1> QED
  BY <1>3, <1>4, <1>5, <1>7, <1>8 DEF Fraction

(* The product of two ratios, cross-multiplied.                             *)
LEMMA TimesIsRatio ==
  ASSUME NEW a \in Fraction, NEW b \in Fraction
  PROVE  /\ Times(a, b) \in Fraction
         /\ Times(a, b)[1] * (a[2] * b[2]) = (a[1] * b[1]) * Times(a, b)[2]
<1>1. a[1] * b[1] \in Nat /\ a[2] * b[2] \in Nat \ {0}
  BY RatioParts, ProductsOfNaturals
<1> QED
  BY <1>1, LowestIsRatio DEF Times

(* The quotient of two ratios, cross-multiplied.                            *)
LEMMA OverIsRatio ==
  ASSUME NEW a \in Fraction, NEW b \in Positive
  PROVE  /\ Over(a, b) \in Fraction
         /\ Over(a, b)[1] * (a[2] * b[1]) = (a[1] * b[2]) * Over(a, b)[2]
<1>1. b[1] \in Nat /\ b[2] \in Nat /\ b[1] # 0 /\ b[2] # 0
  BY DEF Positive
<1>2. a[1] * b[2] \in Nat /\ a[2] * b[1] \in Nat \ {0}
  BY <1>1, RatioParts, ProductsOfNaturals
<1> QED
  BY <1>2, LowestIsRatio DEF Over

(* Cross-multiplied comparisons are transitive, as the one between is not   *)
(* zero.                                                                    *)
LEMMA CrossTransitive ==
  ASSUME NEW a \in Nat, NEW b \in Nat, NEW c \in Nat, NEW p \in Nat, NEW q \in Nat \ {0},
         NEW r \in Nat, a * q >= b * p, b * r >= c * q
  PROVE  a * r >= c * p
<1>1. (a * r) * q >= (b * p) * r
  BY Z3
<1>2. (b * r) * p >= (c * q) * p
  BY Z3
<1>3. (a * r) * q >= (c * p) * q
  BY <1>1, <1>2, Z3
<1> DEFINE x == a * r
           y == c * p
<1>4. x \in Nat /\ y \in Nat /\ x * q >= y * q
  BY <1>3, ProductsOfNaturals
<1> HIDE DEF x, y
<1>5. x >= y
  BY <1>4, Z3
<1> QED
  BY <1>5 DEF x, y

(* The order of ratios is transitive.                                       *)
LEMMA AtLeastTransitive ==
  ASSUME NEW a \in Fraction, NEW b \in Fraction, NEW c \in Fraction, AtLeast(a, b), AtLeast(b, c)
  PROVE  AtLeast(a, c)
<1>1. /\ a[1] \in Nat /\ b[1] \in Nat /\ c[1] \in Nat
      /\ a[2] \in Nat /\ b[2] \in Nat \ {0} /\ c[2] \in Nat
  BY RatioParts
<1>2. a[1] * b[2] >= b[1] * a[2] /\ b[1] * c[2] >= c[1] * b[2]
  BY DEF AtLeast
<1> QED
  BY <1>1, <1>2, CrossTransitive DEF AtLeast

(* Of two ratios one is at least the other.                                 *)
LEMMA AtLeastTotal ==
  ASSUME NEW a \in Fraction, NEW b \in Fraction
  PROVE  (AtLeast(a, b) \/ AtLeast(b, a)) /\ AtLeast(a, a)
<1>1. a[1] * b[2] \in Nat /\ b[1] * a[2] \in Nat /\ a[1] * a[2] \in Nat
  BY RatioParts, ProductsOfNaturals
<1> QED
  BY <1>1 DEF AtLeast

(* Of the ratios at some places, one is at least all of them.               *)
LEMMA GreatestRatio ==
  ASSUME NEW N \in Nat \ {0}, NEW c \in [1..N -> Fraction]
  PROVE  \E j \in 1..N : \A k \in 1..N : AtLeast(c[j], c[k])
<1> DEFINE Has(n) == \E j \in 1..n : \A k \in 1..n : AtLeast(c[j], c[k])
           T == {n \in Nat : n + 1 <= N => Has(n + 1)}
<1>1. Has(1)
  <2>1. 1 \in 1..1 /\ c[1] \in Fraction /\ \A k \in 1..1 : k = 1
    OBVIOUS
  <2> QED
    BY <2>1, AtLeastTotal
<1>2. ASSUME NEW n \in Nat, n + 2 <= N, Has(n + 1)
      PROVE  Has(n + 2)
  <2> DEFINE m == n + 2
  <2>1. PICK j \in 1..(n + 1) : \A k \in 1..(n + 1) : AtLeast(c[j], c[k])
    BY <1>2
  <2>2. /\ j \in 1..N /\ m \in 1..N /\ c[j] \in Fraction /\ c[m] \in Fraction
        /\ \A k \in 1..m : c[k] \in Fraction /\ (k \in 1..(n + 1) \/ k = m)
    BY <1>2
  <2>3. CASE AtLeast(c[j], c[m])
    BY <2>1, <2>2, <2>3
  <2>4. CASE AtLeast(c[m], c[j])
    <3>1. ASSUME NEW k \in 1..m
          PROVE  AtLeast(c[m], c[k])
      <4>1. CASE k = m
        BY <2>2, <4>1, AtLeastTotal
      <4>2. CASE k \in 1..(n + 1)
        <5>1. AtLeast(c[j], c[k]) /\ c[k] \in Fraction
          BY <2>1, <2>2, <4>2
        <5> QED
          BY <2>2, <2>4, <5>1, AtLeastTransitive
      <4> QED
        BY <2>2, <4>1, <4>2
    <3>2. m \in 1..m
      OBVIOUS
    <3> QED
      BY <3>1, <3>2
  <2>5. AtLeast(c[j], c[m]) \/ AtLeast(c[m], c[j])
    BY <2>2, AtLeastTotal
  <2> QED
    BY <2>3, <2>4, <2>5
<1> HIDE DEF Has
<1>3. 0 \in T
  <2>1. 0 + 1 = 1
    OBVIOUS
  <2> QED
    BY <1>1, <2>1
<1>4. ASSUME NEW n \in Nat, n \in T
      PROVE  n + 1 \in T
  <2>1. (n + 1) + 1 = n + 2 /\ (n + 2 <= N => n + 1 <= N)
    OBVIOUS
  <2> QED
    BY <1>2, <1>4, <2>1
<1>5. Nat \subseteq T
  <2> HIDE DEF T
  <2> QED
    BY <1>3, <1>4, NaturalsCovered
<1>6. N - 1 \in Nat /\ (N - 1) + 1 = N
  OBVIOUS
<1>7. Has(N)
  BY <1>5, <1>6
<1> QED
  BY <1>7 DEF Has

(* The greatest of a list of ratios is one of them.                         *)
LEMMA GreatestIsOne ==
  ASSUME NEW r \in Seq(Fraction), r # <<>>
  PROVE  \E at \in 1..Len(r) :
           GreatestOf(r) = r[at] /\ \A i \in 1..Len(r) : AtLeast(r[at], r[i])
<1>1. Len(r) \in Nat \ {0} /\ DOMAIN r = 1..Len(r) /\ r \in [1..Len(r) -> Fraction]
  OBVIOUS
<1>2. \E j \in 1..Len(r) : \A k \in 1..Len(r) : AtLeast(r[j], r[k])
  BY <1>1, GreatestRatio
<1>3. PICK at : /\ at = CHOOSE i \in DOMAIN r : \A j \in DOMAIN r : AtLeast(r[i], r[j])
                /\ at \in DOMAIN r /\ \A j \in DOMAIN r : AtLeast(r[at], r[j])
  BY <1>1, <1>2
<1> QED
  BY <1>1, <1>3 DEF GreatestOf

-----------------------------------------------------------------------------
(* Drawdowns                                                                *)

(* A curve of ratios that begins above zero.                                *)
IsCurve(c) == c \in Seq(Fraction) /\ c # <<>> /\ c[1][1] # 0

Kept(c, i) == Over(c[i], RunningPeak(c, i))

(* The days of a curve up to one of them.                                   *)
LEMMA CurveParts ==
  ASSUME NEW c, IsCurve(c), NEW i \in 1..Len(c)
  PROVE  /\ Len(c) \in Nat \ {0} /\ i \in Nat \ {0} /\ 1 \in 1..i
         /\ \A k \in 1..i : c[k] \in Fraction
         /\ c[i] \in Fraction /\ c[1] \in Fraction
<1>1. Len(c) \in Nat /\ c \in [1..Len(c) -> Fraction]
  BY DEF IsCurve
<1> QED
  BY <1>1

(* The running peak is the value of a day so far and at least all of them.  *)
LEMMA PeakIsGreatest ==
  ASSUME NEW c, IsCurve(c), NEW i \in 1..Len(c)
  PROVE  /\ RunningPeak(c, i) \in Positive /\ RunningPeak(c, i) \in Fraction
         /\ \E j \in 1..i : RunningPeak(c, i) = c[j]
         /\ \A k \in 1..i : AtLeast(RunningPeak(c, i), c[k])
<1> DEFINE p == RunningPeak(c, i)
           d == [k \in 1..i |-> c[k]]
<1>1. i \in Nat \ {0} /\ d \in [1..i -> Fraction]
  BY CurveParts
<1>2. \E j \in 1..i : \A k \in 1..i : AtLeast(d[j], d[k])
  <2> HIDE DEF d
  <2> QED
    BY <1>1, GreatestRatio
<1>3. \E j \in 1..i : \A k \in 1..i : AtLeast(c[j], c[k])
  BY <1>2
<1>4. PICK j \in 1..i : p = c[j] /\ \A k \in 1..i : AtLeast(c[j], c[k])
  BY <1>3 DEF RunningPeak
<1>5. p \in Fraction
  BY <1>4, CurveParts
<1>6. p[1] # 0
  <2>1. AtLeast(p, c[1]) /\ c[1] \in Fraction /\ c[1][1] # 0
    BY <1>4, CurveParts DEF IsCurve
  <2>2. /\ p[1] \in Nat /\ p[2] \in Nat /\ p[2] # 0
        /\ c[1][1] \in Nat /\ c[1][2] \in Nat
    BY <1>5, <2>1, RatioParts
  <2>3. p[1] * c[1][2] >= c[1][1] * p[2]
    BY <2>1 DEF AtLeast
  <2>4. c[1][1] * p[2] # 0 /\ c[1][1] * p[2] \in Nat
    BY <2>1, <2>2, ProductsOfNaturals
  <2> HIDE DEF p
  <2>5. CASE p[1] = 0
    <3>1. p[1] * c[1][2] = 0
      BY <2>2, <2>5
    <3> QED
      BY <2>3, <2>4, <3>1
  <2> QED
    BY <2>5
<1>7. p \in Positive
  BY <1>5, <1>6 DEF Fraction, Positive
<1> QED
  BY <1>4, <1>5, <1>7

(* A share of the greater in the smaller is no more than the whole.         *)
LEMMA SmallerShare ==
  ASSUME NEW u \in Nat, NEW v \in Nat, NEW x \in Nat, NEW y \in Nat,
         x # 0, x >= y, u * x = y * v
  PROVE  u <= v
<1>1. y * v <= x * v
  BY Z3
<1>2. u * x <= v * x
  BY <1>1, Z3
<1> QED
  BY <1>2, Z3

(* What is kept of the peak on a day is a share of it, one at most.         *)
LEMMA KeptIsShare ==
  ASSUME NEW c, IsCurve(c), NEW i \in 1..Len(c)
  PROVE  /\ Kept(c, i) \in Fraction
         /\ Kept(c, i)[1] * (c[i][2] * RunningPeak(c, i)[1])
              = (c[i][1] * RunningPeak(c, i)[2]) * Kept(c, i)[2]
         /\ Kept(c, i)[2] - Kept(c, i)[1] \in Nat
<1> DEFINE k == Kept(c, i)
           p == RunningPeak(c, i)
<1>1. c[i] \in Fraction /\ p \in Positive /\ i \in 1..i
  BY CurveParts, PeakIsGreatest
<1>2. k \in Fraction /\ k[1] * (c[i][2] * p[1]) = (c[i][1] * p[2]) * k[2]
  BY <1>1, OverIsRatio DEF Kept
<1>3. AtLeast(p, c[i])
  BY <1>1, PeakIsGreatest
<1>4. p[1] * c[i][2] >= c[i][1] * p[2]
  BY <1>3 DEF AtLeast
<1>5. /\ k[1] \in Nat /\ k[2] \in Nat /\ c[i][1] \in Nat /\ c[i][2] \in Nat /\ c[i][2] # 0
      /\ p[1] \in Nat /\ p[2] \in Nat /\ p[1] # 0
  BY <1>1, <1>2, RatioParts DEF Positive
<1> DEFINE x == c[i][2] * p[1]
           y == c[i][1] * p[2]
<1>6. x \in Nat /\ y \in Nat /\ x # 0 /\ x >= y
  BY <1>4, <1>5, ProductsOfNaturals
<1>7. k[1] * x = y * k[2]
  BY <1>2
<1> HIDE DEF k, x, y, p
<1>8. k[1] <= k[2]
  <2>1. PICK u, v : u = k[1] /\ v = k[2] /\ u \in Nat /\ v \in Nat
    BY <1>5
  <2>2. u * x = y * v
    BY <1>7, <2>1
  <2>3. u <= v
    BY <1>6, <2>1, <2>2, SmallerShare
  <2> QED
    BY <2>1, <2>3
<1>9. k[2] - k[1] \in Nat
  BY <1>5, <1>8
<1> QED
  BY <1>2, <1>9 DEF k, p

(* The drawdown is what is not kept.                                        *)
LEMMA DrawdownIsLoss ==
  ASSUME NEW c, IsCurve(c), NEW i \in 1..Len(c)
  PROVE  /\ Drawdown(c, i) = <<100 * (Kept(c, i)[2] - Kept(c, i)[1]), Kept(c, i)[2]>>
         /\ Drawdown(c, i) \in Fraction
<1>1. Drawdown(c, i) = <<100 * (Kept(c, i)[2] - Kept(c, i)[1]), Kept(c, i)[2]>>
  BY DEF Drawdown, Kept
<1>2. Kept(c, i) \in Fraction /\ Kept(c, i)[2] - Kept(c, i)[1] \in Nat
  BY KeptIsShare
<1>3. Kept(c, i)[2] \in Nat \ {0}
  BY <1>2, RatioParts
<1> DEFINE d == Kept(c, i)[2] - Kept(c, i)[1]
<1>4. 100 * d \in Nat
  <2>1. d \in Nat
    BY <1>2
  <2> HIDE DEF d
  <2> QED
    BY <2>1
<1> QED
  BY <1>1, <1>3, <1>4 DEF Fraction

(* The less is kept of a peak, the greater the drawdown.                    *)
LEMMA LessKept ==
  ASSUME NEW c, IsCurve(c), NEW i \in 1..Len(c), NEW e, IsCurve(e), NEW j \in 1..Len(e)
  PROVE  AtLeast(Drawdown(c, i), Drawdown(e, j)) <=> AtLeast(Kept(e, j), Kept(c, i))
<1>1. PICK p, q : Kept(c, i) = <<p, q>> /\ p \in Nat /\ q \in Nat \ {0} /\ q - p \in Nat
  BY KeptIsShare DEF Fraction
<1>2. PICK r, s : Kept(e, j) = <<r, s>> /\ r \in Nat /\ s \in Nat \ {0} /\ s - r \in Nat
  BY KeptIsShare DEF Fraction
<1>3. Drawdown(c, i) = <<100 * (q - p), q>> /\ Drawdown(e, j) = <<100 * (s - r), s>>
  BY <1>1, <1>2, DrawdownIsLoss
<1>4. (100 * (q - p)) * s >= (100 * (s - r)) * q <=> r * q >= p * s
  BY <1>1, <1>2, Z3
<1> QED
  BY <1>1, <1>2, <1>3, <1>4 DEF AtLeast

(* The maximal drawdown is that of a day and at least that of every day.    *)
LEMMA MaxDrawdownIsGreatest ==
  ASSUME NEW c, IsCurve(c)
  PROVE  \E at \in 1..Len(c) :
           /\ MaxDrawdown(c) = Drawdown(c, at)
           /\ \A i \in 1..Len(c) : AtLeast(Drawdown(c, at), Drawdown(c, i))
<1> DEFINE d == [i \in DOMAIN c |-> Drawdown(c, i)]
<1>1. Len(c) \in Nat \ {0} /\ DOMAIN c = 1..Len(c) /\ c # <<>>
  BY DEF IsCurve
<1>2. d \in Seq(Fraction) /\ Len(d) = Len(c) /\ d # <<>>
  <2>1. d \in [1..Len(c) -> Fraction]
    BY <1>1, DrawdownIsLoss
  <2> HIDE DEF d
  <2> QED
    BY <1>1, <2>1
<1>3. MaxDrawdown(c) = GreatestOf(d)
  BY DEF MaxDrawdown
<1>4. PICK at \in 1..Len(c) : /\ GreatestOf(d) = d[at]
                              /\ \A i \in 1..Len(c) : AtLeast(d[at], d[i])
  <2> HIDE DEF d
  <2> QED
    BY <1>2, GreatestIsOne
<1> QED
  BY <1>1, <1>3, <1>4

(* A share of a scaled curve is at most that of the curve itself, wherever  *)
(* the peak of all that came before is at least its own.                    *)
LEMMA ScaledShare ==
  ASSUME NEW x1 \in Nat, NEW x2 \in Nat \ {0}, NEW y1 \in Nat, NEW y2 \in Nat \ {0},
         NEW p1 \in Nat \ {0}, NEW p2 \in Nat \ {0}, NEW k1 \in Nat, NEW k2 \in Nat \ {0},
         NEW m \in Nat, NEW a \in Nat,
         k1 * (x2 * p1) = (x1 * p2) * k2,
         (x1 * a) * y2 = (m * x2) * y1,
         p1 * y2 >= y1 * p2
  PROVE  k1 * a <= m * k2
<1> DEFINE w == (x2 * p1) * y2
           u == k1 * a
           v == m * k2
<1>1. w \in Nat \ {0} /\ u \in Nat /\ v \in Nat
  <2>1. x2 * p1 \in Nat \ {0}
    BY ProductsOfNaturals
  <2> QED
    BY <2>1, ProductsOfNaturals
<1>2. u * w = ((x1 * a) * y2) * (p2 * k2)
  <2>1. u * w = (k1 * (x2 * p1)) * (a * y2)
    BY Z3
  <2>2. ((x1 * p2) * k2) * (a * y2) = ((x1 * a) * y2) * (p2 * k2)
    BY Z3
  <2> QED
    BY <2>1, <2>2
<1>3. ((m * x2) * y1) * (p2 * k2) = ((m * x2) * k2) * (y1 * p2)
  BY Z3
<1>4. v * w = ((m * x2) * k2) * (p1 * y2)
  BY Z3
<1>5. ((m * x2) * k2) * (y1 * p2) <= ((m * x2) * k2) * (p1 * y2)
  <2> DEFINE z == (m * x2) * k2
             g == y1 * p2
             h == p1 * y2
  <2>1. z \in Nat /\ g \in Nat /\ h \in Nat /\ g <= h
    <3>1. m * x2 \in Nat
      BY ProductsOfNaturals
    <3> QED
      BY <3>1, ProductsOfNaturals
  <2> HIDE DEF z, g, h
  <2>2. z * g <= z * h
    BY <2>1, Z3
  <2> QED
    BY <2>2 DEF z, g, h
<1>6. u * w <= v * w
  BY <1>2, <1>3, <1>4, <1>5
<1> HIDE DEF u, v, w
<1>7. u <= v
  BY <1>1, <1>6, Z3
<1> QED
  BY <1>7 DEF u, v

(* Of two shares, the one that is less leaves the greater loss.             *)
LEMMA SharesCompare ==
  ASSUME NEW h1 \in Nat, NEW h2 \in Nat, NEW k1 \in Nat, NEW k2 \in Nat,
         NEW e \in Nat, NEW f \in Nat \ {0}, h1 * f = e * h2, k1 * f <= e * k2
  PROVE  h1 * k2 >= k1 * h2
<1> DEFINE u == h1 * k2
           v == k1 * h2
<1>1. u \in Nat /\ v \in Nat
  BY ProductsOfNaturals
<1>2. u * f = (e * k2) * h2
  BY Z3
<1>3. v * f <= (e * k2) * h2
  BY Z3
<1>4. u * f >= v * f
  BY <1>2, <1>3
<1> HIDE DEF u, v
<1>5. u >= v
  BY <1>1, <1>4, Z3
<1> QED
  BY <1>5 DEF u, v

(* A fraction is a pair.                                                    *)
LEMMA RatioPair ==
  ASSUME NEW a \in Fraction
  PROVE  a = <<a[1], a[2]>> /\ a[1] \in Nat /\ a[2] \in Nat \ {0}
  BY DEF Fraction

(* Where a curve is in whole numbers, and where another is a multiple of it *)
Whole(ec) == [j \in DOMAIN ec |-> <<ec[j], 1>>]

(* A curve of whole numbers, as ratios, begins above zero too.              *)
LEMMA WholeIsCurve ==
  ASSUME NEW ec \in Seq(Nat), ec # <<>>, ec[1] > 0
  PROVE  IsCurve(Whole(ec)) /\ Len(Whole(ec)) = Len(ec)
<1>1. Len(ec) \in Nat \ {0} /\ DOMAIN ec = 1..Len(ec) /\ \A j \in 1..Len(ec) : ec[j] \in Nat
  OBVIOUS
<1>2. \A j \in 1..Len(ec) : Whole(ec)[j] = <<ec[j], 1>> /\ <<ec[j], 1>> \in Fraction
  BY <1>1 DEF Whole, Fraction
<1>3. PICK n : n = Len(ec) /\ n \in Nat \ {0}
  BY <1>1
<1>4. Whole(ec) \in [1..n -> Fraction]
  BY <1>1, <1>2, <1>3 DEF Whole
<1>5. Whole(ec) \in Seq(Fraction) /\ Len(Whole(ec)) = n
  <2>1. PICK w : w = Whole(ec)
    OBVIOUS
  <2>2. w \in [1..n -> Fraction]
    BY <1>4, <2>1
  <2>3. w \in Seq(Fraction) /\ Len(w) = n
    BY <1>3, <2>2
  <2> QED
    BY <2>1, <2>3
<1>6. Whole(ec) # <<>>
  BY <1>3, <1>5
<1>7. Whole(ec)[1][1] # 0
  <2>1. 1 \in 1..Len(ec) /\ ec[1] # 0
    BY <1>1
  <2>2. Whole(ec)[1] = <<ec[1], 1>>
    BY <1>2, <2>1
  <2> QED
    BY <2>1, <2>2
<1> QED
  BY <1>3, <1>5, <1>6, <1>7 DEF IsCurve

Scaled(r, ec, j) == Times(r, Lowest(ec[j], ec[1]))

Multiple(t, r, n, d) == (t[1] * d) * r[2] = (r[1] * n) * t[2]
Share(k, x, p) == k[1] * (x[2] * p[1]) = (x[1] * p[2]) * k[2]

(* A value that is scaled is a multiple of itself.                          *)
LEMMA ScaledIsMultiple ==
  ASSUME NEW r \in Fraction, NEW n \in Nat, NEW d \in Nat \ {0},
         NEW t, t = Times(r, Lowest(n, d))
  PROVE  t \in Fraction /\ Multiple(t, r, n, d)
<1>1. PICK l1, l2 : /\ Lowest(n, d) = <<l1, l2>> /\ l1 \in Nat /\ l2 \in Nat \ {0}
                    /\ l1 * d = n * l2
  <2>1. PICK l : l = Lowest(n, d) /\ l \in Fraction /\ l[1] * d = n * l[2]
    BY LowestIsRatio
  <2> QED
    BY <2>1, RatioPair
<1>2. PICK r1, r2 : r = <<r1, r2>> /\ r1 \in Nat /\ r2 \in Nat \ {0}
  BY DEF Fraction
<1>3. <<l1, l2>> \in Fraction
  BY <1>1 DEF Fraction
<1>4. PICK t1, t2 : /\ Times(r, <<l1, l2>>) = <<t1, t2>> /\ t1 \in Nat /\ t2 \in Nat \ {0}
                    /\ t1 * (r2 * l2) = (r1 * l1) * t2
  <2>1. PICK l : l = <<l1, l2>> /\ l \in Fraction /\ l[1] = l1 /\ l[2] = l2
    BY <1>3
  <2>2. PICK z : z = Times(r, l) /\ z \in Fraction /\ z[1] * (r[2] * l[2]) = (r[1] * l[1]) * z[2]
    BY <2>1, TimesIsRatio
  <2>3. r[1] = r1 /\ r[2] = r2
    BY <1>2
  <2> QED
    BY <2>1, <2>2, <2>3, RatioPair
<1>5. (t1 * d) * r2 = (r1 * n) * t2
  <2> DEFINE u == (t1 * d) * r2
             v == (r1 * n) * t2
  <2>1. u * l2 = (t1 * (r2 * l2)) * d
    BY <1>1, <1>2, <1>4, Z3
  <2>2. v * l2 = ((n * l2) * r1) * t2
    BY <1>1, <1>2, <1>4, Z3
  <2>3. ((r1 * l1) * t2) * d = ((l1 * d) * r1) * t2
    BY <1>1, <1>2, <1>4, Z3
  <2>4. u * l2 = v * l2
    BY <1>1, <1>4, <2>1, <2>2, <2>3
  <2>5. u \in Nat /\ v \in Nat
    <3>1. t1 * d \in Nat /\ r1 * n \in Nat
      BY <1>2, <1>4, ProductsOfNaturals
    <3> QED
      BY <1>2, <1>4, <3>1, ProductsOfNaturals
  <2> HIDE DEF u, v
  <2>6. u = v
    BY <1>1, <2>4, <2>5, Z3
  <2> QED
    BY <2>6 DEF u, v
<1> QED
  BY <1>1, <1>2, <1>4, <1>5 DEF Fraction, Multiple

(* Two scaled values are to each other as the values are.                   *)
LEMMA ScaledProportion ==
  ASSUME NEW r1 \in Nat \ {0}, NEW r2 \in Nat \ {0}, NEW d \in Nat \ {0},
         NEW m \in Nat, NEW a \in Nat,
         NEW x1 \in Nat, NEW x2 \in Nat \ {0}, (x1 * d) * r2 = (r1 * m) * x2,
         NEW y1 \in Nat, NEW y2 \in Nat \ {0}, (y1 * d) * r2 = (r1 * a) * y2
  PROVE  (x1 * a) * y2 = (m * x2) * y1
<1> DEFINE w == (d * r2) * r1
           u == (x1 * a) * y2
           v == (m * x2) * y1
<1>1. w \in Nat \ {0} /\ u \in Nat /\ v \in Nat
  <2>1. d * r2 \in Nat \ {0} /\ x1 * a \in Nat /\ m * x2 \in Nat
    BY ProductsOfNaturals
  <2> QED
    BY <2>1, ProductsOfNaturals
<1>2. u * w = ((x1 * d) * r2) * ((r1 * a) * y2)
  BY Z3
<1>3. v * w = ((r1 * m) * x2) * ((y1 * d) * r2)
  BY Z3
<1>4. u * w = v * w
  BY <1>2, <1>3
<1> HIDE DEF u, v, w
<1>5. u = v
  BY <1>1, <1>4, Z3
<1> QED
  BY <1>5 DEF u, v

(* The arithmetic of a share of a scaled peak, cross-multiplied: r scales,  *)
(* x and y are the scaled m and a, p is a peak not below y, and k the share *)
(* of x in p.                                                               *)
LEMMA ShareOfPiece ==
  ASSUME NEW r1 \in Nat, NEW r2 \in Nat \ {0}, NEW d \in Nat \ {0},
         NEW m \in Nat, NEW a \in Nat,
         NEW x1 \in Nat, NEW x2 \in Nat \ {0}, (x1 * d) * r2 = (r1 * m) * x2,
         NEW y1 \in Nat, NEW y2 \in Nat \ {0}, (y1 * d) * r2 = (r1 * a) * y2,
         NEW p1 \in Nat \ {0}, NEW p2 \in Nat \ {0}, NEW k1 \in Nat, NEW k2 \in Nat \ {0},
         k1 * (x2 * p1) = (x1 * p2) * k2,
         p1 * y2 >= y1 * p2
  PROVE  k1 * a <= m * k2
<1>1. CASE r1 = 0
  <2>1. (x1 * d) * r2 = 0
    BY <1>1
  <2>2. x1 * d = 0
    BY <2>1, ProductsOfNaturals
  <2>3. x1 = 0
    BY <2>2, ProductsOfNaturals
  <2>4. k1 * (x2 * p1) = 0
    BY <2>3
  <2>5. x2 * p1 \in Nat \ {0}
    BY ProductsOfNaturals
  <2>6. k1 = 0
    BY <2>4, <2>5, ProductsOfNaturals
  <2>7. k1 * a = 0 /\ m * k2 \in Nat
    BY <2>6, ProductsOfNaturals
  <2> QED
    BY <2>7
<1>2. CASE r1 # 0
  <2>1. (x1 * a) * y2 = (m * x2) * y1
    BY <1>2, ScaledProportion
  <2> QED
    BY <2>1, ScaledShare
<1> QED
  BY <1>1, <1>2

(* The same of ratios: the share of a scaled value in a peak that is at     *)
(* least another scaled value is at most the share of the one in the other. *)
LEMMA ShareOfRatios ==
  ASSUME NEW r \in Fraction, NEW x \in Fraction, NEW y \in Fraction,
         NEW p \in Positive, NEW k \in Fraction,
         NEW d \in Nat \ {0}, NEW m \in Nat, NEW a \in Nat,
         Multiple(x, r, m, d), Multiple(y, r, a, d), Share(k, x, p), AtLeast(p, y)
  PROVE  k[1] * a <= m * k[2]
<1>1. PICK r1, r2 : r = <<r1, r2>> /\ r1 \in Nat /\ r2 \in Nat \ {0}
  BY RatioPair
<1>2. PICK x1, x2 : x = <<x1, x2>> /\ x1 \in Nat /\ x2 \in Nat \ {0}
  BY RatioPair
<1>3. PICK y1, y2 : y = <<y1, y2>> /\ y1 \in Nat /\ y2 \in Nat \ {0}
  BY RatioPair
<1>4. PICK p1, p2 : p = <<p1, p2>> /\ p1 \in Nat \ {0} /\ p2 \in Nat \ {0}
  BY DEF Positive
<1>5. PICK k1, k2 : k = <<k1, k2>> /\ k1 \in Nat /\ k2 \in Nat \ {0}
  BY RatioPair
<1>6. (x1 * d) * r2 = (r1 * m) * x2
  BY <1>1, <1>2 DEF Multiple
<1>7. (y1 * d) * r2 = (r1 * a) * y2
  BY <1>1, <1>3 DEF Multiple
<1>8. k1 * (x2 * p1) = (x1 * p2) * k2 /\ p1 * y2 >= y1 * p2
  BY <1>2, <1>3, <1>4, <1>5 DEF Share, AtLeast
<1>9. /\ r1 \in Nat /\ r2 \in Nat \ {0} /\ d \in Nat \ {0} /\ m \in Nat /\ a \in Nat
      /\ x1 \in Nat /\ x2 \in Nat \ {0} /\ (x1 * d) * r2 = (r1 * m) * x2
      /\ y1 \in Nat /\ y2 \in Nat \ {0} /\ (y1 * d) * r2 = (r1 * a) * y2
      /\ p1 \in Nat \ {0} /\ p2 \in Nat \ {0} /\ k1 \in Nat /\ k2 \in Nat \ {0}
      /\ k1 * (x2 * p1) = (x1 * p2) * k2 /\ p1 * y2 >= y1 * p2
  BY <1>1, <1>2, <1>3, <1>4, <1>5, <1>6, <1>7, <1>8
<1>10. k1 * a <= m * k2
  BY <1>9, ShareOfPiece
<1> QED
  BY <1>5, <1>10

(* A curve that has a piece scaled from another hides no drawdown of it.    *)
LEMMA PieceHidesNothing ==
  ASSUME NEW c, IsCurve(c), NEW ec \in Seq(Nat), ec # <<>>, ec[1] > 0,
         NEW r \in Fraction, NEW off \in Nat,
         \A j \in 1..Len(ec) : off + j \in 1..Len(c) /\ c[off + j] = Scaled(r, ec, j)
  PROVE  AtLeast(MaxDrawdown(c), MaxDrawdown(Whole(ec)))
<1>1. PICK W : W = Whole(ec) /\ IsCurve(W) /\ Len(W) = Len(ec)
  BY WholeIsCurve
<1>2. PICK at \in 1..Len(c) : /\ MaxDrawdown(c) = Drawdown(c, at)
                              /\ \A i \in 1..Len(c) : AtLeast(Drawdown(c, at), Drawdown(c, i))
  BY MaxDrawdownIsGreatest
<1>3. PICK m \in 1..Len(ec) : MaxDrawdown(W) = Drawdown(W, m)
  BY <1>1, MaxDrawdownIsGreatest
<1>4. PICK i : i = off + m /\ i \in 1..Len(c)
  OBVIOUS
<1>5. PICK k1, k2 : Kept(c, i) = <<k1, k2>> /\ k1 \in Nat /\ k2 \in Nat \ {0}
  BY <1>4, KeptIsShare, RatioPair
<1>6. PICK h1, h2 : Kept(W, m) = <<h1, h2>> /\ h1 \in Nat /\ h2 \in Nat \ {0}
  BY <1>1, <1>3, KeptIsShare, RatioPair
<1>7. \A j \in 1..Len(ec) : ec[j] \in Nat /\ W[j] = <<ec[j], 1>>
  BY <1>1 DEF Whole
<1>8. PICK a \in 1..m : RunningPeak(W, m) = W[a] /\ W[a] \in Positive
  BY <1>1, <1>3, PeakIsGreatest
<1>9. PICK e1, em, ea : /\ e1 = ec[1] /\ em = ec[m] /\ ea = ec[a]
                        /\ e1 \in Nat \ {0} /\ em \in Nat /\ ea \in Nat \ {0}
                        /\ W[m] = <<em, 1>> /\ W[a] = <<ea, 1>>
  <2>1. a \in 1..Len(ec) /\ 1 \in 1..Len(ec)
    BY <1>3, <1>8
  <2>2. W[a] = <<ec[a], 1>> /\ W[m] = <<ec[m], 1>> /\ ec[a] \in Nat /\ ec[m] \in Nat
    BY <1>3, <1>7, <2>1
  <2>3. ec[a] # 0
    BY <1>8, <2>2 DEF Positive
  <2>4. ec[1] \in Nat \ {0}
    BY <1>7, <2>1
  <2> QED
    BY <2>2, <2>3, <2>4
<1>10. h1 * ea = em * h2
  <2>1. Kept(W, m)[1] * (W[m][2] * RunningPeak(W, m)[1])
          = (W[m][1] * RunningPeak(W, m)[2]) * Kept(W, m)[2]
    BY <1>1, <1>3, KeptIsShare
  <2>2. h1 * (1 * ea) = (em * 1) * h2
    BY <1>6, <1>8, <1>9, <2>1
  <2> QED
    BY <1>9, <2>2
<1>11. k1 * ea <= em * k2
  <2>1. e1 \in Nat \ {0} /\ em \in Nat /\ ea \in Nat /\ a \in 1..Len(ec)
    BY <1>3, <1>8, <1>9
  <2>2. PICK x : x = c[i] /\ x \in Fraction /\ Multiple(x, r, em, e1)
    <3>1. c[i] = Times(r, Lowest(em, e1))
      BY <1>3, <1>4, <1>9 DEF Scaled
    <3> QED
      BY <2>1, <3>1, ScaledIsMultiple
  <2>3. PICK y : y = c[off + a] /\ y \in Fraction /\ Multiple(y, r, ea, e1)
    <3>1. c[off + a] = Times(r, Lowest(ea, e1))
      BY <1>9, <2>1 DEF Scaled
    <3> QED
      BY <2>1, <3>1, ScaledIsMultiple
  <2>4. PICK p : p = RunningPeak(c, i) /\ p \in Positive /\ AtLeast(p, y)
    <3>1. off + a \in 1..i
      BY <1>3, <1>4, <1>8
    <3> QED
      BY <1>4, <2>3, <3>1, PeakIsGreatest
  <2>5. PICK k : k = Kept(c, i) /\ k \in Fraction /\ Share(k, x, p)
    BY <1>4, <2>2, <2>4, KeptIsShare DEF Share
  <2>6. k[1] * ea <= em * k[2]
    BY <2>1, <2>2, <2>3, <2>4, <2>5, ShareOfRatios
  <2> QED
    BY <1>5, <2>5, <2>6
<1>12. AtLeast(Kept(W, m), Kept(c, i))
  <2>1. h1 * k2 >= k1 * h2
    BY <1>5, <1>6, <1>9, <1>10, <1>11, SharesCompare
  <2> QED
    BY <1>5, <1>6, <2>1 DEF AtLeast
<1>13. AtLeast(Drawdown(c, i), Drawdown(W, m))
  BY <1>1, <1>3, <1>4, <1>12, LessKept
<1>14. AtLeast(Drawdown(c, at), Drawdown(W, m))
  <2>1. AtLeast(Drawdown(c, at), Drawdown(c, i))
    BY <1>2, <1>4
  <2>2. Drawdown(c, at) \in Fraction /\ Drawdown(c, i) \in Fraction /\ Drawdown(W, m) \in Fraction
    BY <1>1, <1>2, <1>3, <1>4, DrawdownIsLoss
  <2> QED
    BY <1>13, <2>1, <2>2, AtLeastTransitive
<1> QED
  BY <1>1, <1>2, <1>3, <1>14

-----------------------------------------------------------------------------
(* All elements of a set of numbers, each once, in order.                   *)
LEMMA AscendingCovers ==
  ASSUME NEW S \in SUBSET Int, IsFiniteSet(S)
  PROVE  /\ Cardinality(S) \in Nat
         /\ Ascending(S) \in [1..Cardinality(S) -> S]
         /\ \A x \in S : \E k \in 1..Cardinality(S) : Ascending(S)[k] = x
         /\ \A k, l \in 1..Cardinality(S) : k < l => Ascending(S)[k] < Ascending(S)[l]
<1> DEFINE n == Cardinality(S)
           upTo(x) == {y \in S : y <= x}
           rank == [x \in S |-> Cardinality(upTo(x))]
<1>1. n \in Nat
  BY FS_CardinalityType
<1>2. ASSUME NEW x \in S
      PROVE  /\ IsFiniteSet(upTo(x)) /\ Cardinality(upTo(x)) \in 1..n
  <2>1. IsFiniteSet(upTo(x)) /\ Cardinality(upTo(x)) <= n
    BY FS_Subset
  <2>2. x \in upTo(x)
    OBVIOUS
  <2>3. Cardinality(upTo(x)) \in Nat /\ Cardinality(upTo(x)) # 0
    BY <2>1, <2>2, FS_CardinalityType, FS_EmptySet
  <2> HIDE DEF upTo, n
  <2> QED
    BY <1>1, <2>1, <2>3
<1>3. ASSUME NEW x \in S, NEW y \in S, x < y
      PROVE  Cardinality(upTo(x)) < Cardinality(upTo(y))
  <2>1. x \in Int /\ y \in Int /\ \A z \in S : z \in Int
    OBVIOUS
  <2>2. \A z \in S : z <= x => z <= y
    BY <1>3, <2>1
  <2>3. upTo(x) \subseteq upTo(y)
    BY <2>2
  <2>4. y \in upTo(y) /\ y \notin upTo(x)
    BY <1>3, <2>1
  <2> HIDE DEF upTo
  <2>5. /\ Cardinality(upTo(x)) <= Cardinality(upTo(y))
        /\ Cardinality(upTo(x)) # Cardinality(upTo(y))
    BY <1>2, <2>3, <2>4, FS_Subset
  <2> QED
    BY <1>1, <1>2, <2>5
<1>4. \A x, y \in S : x # y => rank[x] # rank[y]
  <2> SUFFICES ASSUME NEW x \in S, NEW y \in S, x # y
               PROVE  Cardinality(upTo(x)) # Cardinality(upTo(y))
    OBVIOUS
  <2>1. x < y \/ y < x
    OBVIOUS
  <2>2. Cardinality(upTo(x)) \in Int /\ Cardinality(upTo(y)) \in Int
    BY <1>1, <1>2
  <2> HIDE DEF upTo
  <2> QED
    BY <1>3, <2>1, <2>2
<1>5. rank \in Injection(S, 1..n)
  <2>1. rank \in [S -> 1..n]
    BY <1>2
  <2> HIDE DEF rank
  <2> QED
    BY <1>4, <2>1 DEF Injection, IsInjective
<1>6. rank \in Surjection(S, 1..n)
  <2>1. IsFiniteSet(1..n) /\ Cardinality(1..n) = n
    BY <1>1, FS_Interval
  <2> HIDE DEF rank
  <2> QED
    BY <1>5, <2>1, FS_Injection
<1>7. \A k \in 1..n : \E x \in S : rank[x] = k
  <2> HIDE DEF rank
  <2> QED
    BY <1>6 DEF Surjection
<1>8. ASSUME NEW k \in 1..n
      PROVE  Ascending(S)[k] \in S /\ rank[Ascending(S)[k]] = k
  <2>1. Ascending(S)[k] = CHOOSE x \in S : Cardinality(upTo(x)) = k
    BY DEF Ascending
  <2>2. \E x \in S : Cardinality(upTo(x)) = k
    BY <1>7
  <2> HIDE DEF upTo
  <2>3. Ascending(S)[k] \in S /\ Cardinality(upTo(Ascending(S)[k])) = k
    BY <2>1, <2>2
  <2> QED
    BY <2>3
<1>9. Ascending(S) \in [1..n -> S]
  <2> DEFINE at(k) == CHOOSE x \in S : Cardinality({y \in S : y <= x}) = k
  <2>1. Ascending(S) = [k \in 1..n |-> at(k)]
    BY DEF Ascending
  <2> HIDE DEF at, n
  <2>2. Ascending(S) = [k \in 1..n |-> Ascending(S)[k]]
    BY <2>1
  <2> QED
    BY <1>8, <2>2
<1>10. ASSUME NEW x \in S
       PROVE  \E k \in 1..n : Ascending(S)[k] = x
  <2>1. rank[x] \in 1..n
    BY <1>2
  <2> HIDE DEF rank
  <2>2. Ascending(S)[rank[x]] \in S /\ rank[Ascending(S)[rank[x]]] = rank[x]
    BY <1>8, <2>1
  <2>3. Ascending(S)[rank[x]] = x
    BY <1>4, <2>2
  <2> QED
    BY <2>1, <2>3
<1>11. ASSUME NEW k \in 1..n, NEW l \in 1..n, k < l
       PROVE  Ascending(S)[k] < Ascending(S)[l]
  <2>1. PICK x \in S : x = Ascending(S)[k] /\ rank[x] = k
    BY <1>8
  <2>2. PICK y \in S : y = Ascending(S)[l] /\ rank[y] = l
    BY <1>8
  <2>3. Cardinality(upTo(x)) = k /\ Cardinality(upTo(y)) = l
    BY <2>1, <2>2
  <2>4. x \in Int /\ y \in Int /\ k \in Int /\ l \in Int
    OBVIOUS
  <2> HIDE DEF upTo, rank, n
  <2>5. ~ (y < x) /\ x # y
    BY <1>3, <1>11, <2>1, <2>2, <2>3, <2>4
  <2> QED
    BY <2>1, <2>2, <2>4, <2>5
<1> QED
  BY <1>1, <1>9, <1>10, <1>11

-----------------------------------------------------------------------------
(* The stitched curve                                                       *)

IsEquity(ec) == ec \in Seq(Nat) /\ ec # <<>> /\ ec[1] > 0

(* The curves that came back are those of an engine that had bars.          *)
CurvesFine ==
  /\ DOMAIN windows \in SUBSET Int /\ IsFiniteSet(DOMAIN windows)
  /\ \A i \in DOMAIN windows : IsEquity(windows[i].curve)

Piece(r, ec) == [j \in DOMAIN ec |-> Times(r, Lowest(ec[j], ec[1]))]

(* The piece of a window is as long as its curve, scaled day by day.        *)
LEMMA PieceParts ==
  ASSUME NEW r \in Fraction, NEW ec, IsEquity(ec)
  PROVE  /\ Len(ec) \in Nat \ {0} /\ DOMAIN ec = 1..Len(ec) /\ Piece(r, ec) \in Seq(Fraction)
         /\ Len(Piece(r, ec)) = Len(ec) /\ Piece(r, ec) # <<>>
         /\ \A j \in 1..Len(ec) : Piece(r, ec)[j] = Scaled(r, ec, j)
<1>1. PICK n : n = Len(ec) /\ n \in Nat \ {0} /\ DOMAIN ec = 1..n
  BY DEF IsEquity
<1>2. ASSUME NEW j \in 1..n
      PROVE  Times(r, Lowest(ec[j], ec[1])) \in Fraction
  <2>1. ec[j] \in Nat /\ ec[1] \in Nat \ {0}
    BY <1>1 DEF IsEquity
  <2> QED
    BY <2>1, ScaledIsMultiple
<1>3. PICK f : f = Piece(r, ec)
  OBVIOUS
<1>4. f = [j \in 1..n |-> Times(r, Lowest(ec[j], ec[1]))]
  BY <1>1, <1>3 DEF Piece
<1>5. f \in [1..n -> Fraction]
  BY <1>2, <1>4
<1>6. f \in Seq(Fraction) /\ Len(f) = n /\ f # <<>>
  BY <1>1, <1>5
<1>7. \A j \in 1..n : f[j] = Scaled(r, ec, j)
  BY <1>4 DEF Scaled
<1> QED
  BY <1>1, <1>3, <1>6, <1>7

(* What a curve ends at is a ratio.                                         *)
LEMMA EndingIsRatio ==
  ASSUME NEW c \in Seq(Fraction)
  PROVE  EndingEquity(c, StartingEquity) \in Fraction
<1>1. CASE c = <<>>
  BY <1>1, WalkForwardAssumption DEF EndingEquity, Fraction
<1>2. CASE c # <<>>
  <2>1. Len(c) \in 1..Len(c)
    BY <1>2
  <2> QED
    BY <1>2, <2>1 DEF EndingEquity, Last
<1> QED
  BY <1>1, <1>2

(* The windows are taken in the order of their indexes, each once.          *)
LEMMA WindowsInOrder ==
  ASSUME CurvesFine
  PROVE  \E N \in Nat : /\ InOrder \in [1..N -> DOMAIN windows] /\ DOMAIN InOrder = 1..N
                        /\ \A i \in DOMAIN windows : \E n \in 1..N : InOrder[n] = i
  BY AscendingCovers DEF InOrder, CurvesFine

(* The windows are stitched one after the other.                            *)
Stitch(c, i) == c \o Piece(EndingEquity(c, StartingEquity), windows[i].curve)

(* The curve is stitched window by window.                                  *)
LEMMA StitchedStepByStep ==
  ASSUME CurvesFine, NEW N \in Nat, InOrder \in [1..N -> DOMAIN windows]
  PROVE  \E h : /\ h[0] = <<>> /\ h[N] = Stitched
                /\ \A n \in 1..N : h[n] = Stitch(h[n - 1], InOrder[n])
                /\ \A n \in 0..N : h[n] \in Seq(Fraction)
<1> DEFINE Acc == Seq(Fraction)
           step == [p \in Acc \X (1..N) |-> Stitch(p[1], InOrder[p[2]])]
           Solves(g) == g = [s \in SUBSET (1..N) |->
                               IF s = {} THEN <<>>
                               ELSE Stitch(g[s \ {Greatest(s)}], InOrder[Greatest(s)])]
<1>1. ASSUME NEW c \in Acc, NEW n \in 1..N
      PROVE  Stitch(c, InOrder[n]) \in Acc
  <2>1. IsEquity(windows[InOrder[n]].curve)
    BY DEF CurvesFine
  <2>2. PICK w : w = Piece(EndingEquity(c, StartingEquity), windows[InOrder[n]].curve) /\ w \in Acc
    BY <2>1, EndingIsRatio, PieceParts
  <2>3. c \o w \in Acc
    BY <2>2
  <2> QED
    BY <2>2, <2>3 DEF Stitch
<1> HIDE DEF Acc
<1>2. step \in [Acc \X (1..N) -> Acc]
  BY <1>1
<1>3. <<>> \in Acc
  BY DEF Acc
<1>4. PICK g \in [SUBSET (1..N) -> Acc] : FoldsBy(g, N, <<>>, step)
  <2> HIDE DEF step
  <2> QED
    BY <1>2, <1>3, FoldSolved
<1>5. Solves(g)
  <2>1. ASSUME NEW s \in SUBSET (1..N), s # {}
        PROVE  step[<<g[s \ {Greatest(s)}], Greatest(s)>>]
                 = Stitch(g[s \ {Greatest(s)}], InOrder[Greatest(s)])
    <3>1. Greatest(s) \in 1..N
      BY <2>1, GreatestIsElement
    <3>2. g[s \ {Greatest(s)}] \in Acc
      OBVIOUS
    <3> QED
      BY <3>1, <3>2
  <2> HIDE DEF step
  <2> QED
    BY <1>4, <2>1 DEF FoldsBy
<1>6. Stitched = (CHOOSE f : Solves(f))[1..N]
  <2>1. DOMAIN InOrder = 1..N
    OBVIOUS
  <2> QED
    BY <2>1 DEF Stitched, FoldLeft, MapThenFoldSet, Max, Greatest, Stitch, Piece
<1>7. PICK f : Solves(f) /\ Stitched = f[1..N]
  <2> HIDE DEF Solves
  <2> QED
    BY <1>5, <1>6
<1> DEFINE h == [n \in 0..N |-> f[1..n]]
<1>8. h[0] = <<>> /\ h[N] = Stitched
  <2>1. 1..0 = {} /\ 1..0 \in SUBSET (1..N) /\ 0 \in 0..N /\ N \in 0..N
    OBVIOUS
  <2> QED
    BY <1>7, <2>1
<1>9. ASSUME NEW n \in 1..N
      PROVE  h[n] = Stitch(h[n - 1], InOrder[n])
  <2>1. n \in Nat \ {0} /\ n \in 0..N /\ n - 1 \in 0..N
    OBVIOUS
  <2>2. Greatest(1..n) = n /\ (1..n) \ {n} = 1..(n - 1)
    BY <2>1, GreatestOfInterval
  <2>3. 1..n \in SUBSET (1..N) /\ 1..n # {}
    OBVIOUS
  <2>4. f[1..n] = Stitch(f[(1..n) \ {Greatest(1..n)}], InOrder[Greatest(1..n)])
    <3> HIDE DEF Greatest
    <3> QED
      BY <1>7, <2>3
  <2> QED
    BY <2>1, <2>2, <2>4
<1> HIDE DEF h
<1>10. \A n \in 0..N : h[n] \in Acc
  <2>1. \A n \in 1..N : h[n - 1] \in Acc => h[n] \in Acc
    BY <1>1, <1>9
  <2> QED
    BY <1>3, <1>8, <2>1, StepByStep
<1> QED
  BY <1>8, <1>9, <1>10 DEF Acc

(* The return is the product of what the windows grew by.                   *)
Grown(r, i) == Times(r, Lowest(Last(windows[i].curve), windows[i].curve[1]))

Return ==
  FoldLeft(LAMBDA r, i : Times(r, LET ec == windows[i].curve IN Lowest(Last(ec), ec[1])),
           <<StartingEquity, 1>>, InOrder)

(* What a window grows to is a ratio.                                       *)
LEMMA GrownIsRatio ==
  ASSUME CurvesFine, NEW r \in Fraction, NEW i \in DOMAIN windows
  PROVE  Grown(r, i) \in Fraction
<1>1. PICK ec : ec = windows[i].curve /\ IsEquity(ec)
  BY DEF CurvesFine
<1>2. ec[1] \in Nat \ {0} /\ Last(ec) \in Nat
  <2>1. Len(ec) \in 1..Len(ec) /\ 1 \in 1..Len(ec)
    BY <1>1 DEF IsEquity
  <2> QED
    BY <1>1, <2>1 DEF IsEquity, Last
<1> QED
  BY <1>1, <1>2, ScaledIsMultiple DEF Grown

(* The return is multiplied window by window.                               *)
LEMMA ReturnStepByStep ==
  ASSUME CurvesFine, NEW N \in Nat, InOrder \in [1..N -> DOMAIN windows]
  PROVE  \E g : /\ g[0] = <<StartingEquity, 1>> /\ g[N] = Return
                /\ \A n \in 1..N : g[n] = Grown(g[n - 1], InOrder[n])
<1> DEFINE Acc == Fraction
           step == [p \in Acc \X (1..N) |-> Grown(p[1], InOrder[p[2]])]
           base == <<StartingEquity, 1>>
           Solves(g) == g = [s \in SUBSET (1..N) |->
                               IF s = {} THEN base
                               ELSE Grown(g[s \ {Greatest(s)}], InOrder[Greatest(s)])]
<1>1. \A r \in Acc, n \in 1..N : Grown(r, InOrder[n]) \in Acc
  BY GrownIsRatio
<1>2. base \in Acc
  BY WalkForwardAssumption DEF Fraction
<1> HIDE DEF Acc
<1>3. step \in [Acc \X (1..N) -> Acc]
  BY <1>1
<1>4. PICK g \in [SUBSET (1..N) -> Acc] : FoldsBy(g, N, base, step)
  <2> HIDE DEF step, base
  <2> QED
    BY <1>2, <1>3, FoldSolved
<1>5. Solves(g)
  <2>1. ASSUME NEW s \in SUBSET (1..N), s # {}
        PROVE  step[<<g[s \ {Greatest(s)}], Greatest(s)>>]
                 = Grown(g[s \ {Greatest(s)}], InOrder[Greatest(s)])
    <3>1. Greatest(s) \in 1..N
      BY <2>1, GreatestIsElement
    <3>2. g[s \ {Greatest(s)}] \in Acc
      OBVIOUS
    <3> QED
      BY <3>1, <3>2
  <2> HIDE DEF step, base
  <2> QED
    BY <1>4, <2>1 DEF FoldsBy
<1>6. Return = (CHOOSE f : Solves(f))[1..N]
  <2>1. DOMAIN InOrder = 1..N
    OBVIOUS
  <2> QED
    BY <2>1 DEF Return, FoldLeft, MapThenFoldSet, Max, Greatest, Grown
<1>7. PICK f : Solves(f) /\ Return = f[1..N]
  <2> HIDE DEF Solves
  <2> QED
    BY <1>5, <1>6
<1> DEFINE h == [n \in 0..N |-> f[1..n]]
<1> HIDE DEF base
<1>8. h[0] = base /\ h[N] = Return
  <2>1. 1..0 = {} /\ 1..0 \in SUBSET (1..N) /\ 0 \in 0..N /\ N \in 0..N
    OBVIOUS
  <2> QED
    BY <1>7, <2>1
<1>9. ASSUME NEW n \in 1..N
      PROVE  h[n] = Grown(h[n - 1], InOrder[n])
  <2>1. n \in Nat \ {0} /\ n \in 0..N /\ n - 1 \in 0..N
    OBVIOUS
  <2>2. Greatest(1..n) = n /\ (1..n) \ {n} = 1..(n - 1)
    BY <2>1, GreatestOfInterval
  <2>3. 1..n \in SUBSET (1..N) /\ 1..n # {}
    OBVIOUS
  <2>4. f[1..n] = Grown(f[(1..n) \ {Greatest(1..n)}], InOrder[Greatest(1..n)])
    <3> HIDE DEF Greatest
    <3> QED
      BY <1>7, <2>3
  <2> QED
    BY <2>1, <2>2, <2>4
<1> HIDE DEF h
<1> QED
  BY <1>8, <1>9 DEF base

(* A window scaled to begin at an equity ends at it times its growth.       *)
LEMMA StitchGrows ==
  ASSUME CurvesFine, NEW c \in Seq(Fraction), NEW i \in DOMAIN windows
  PROVE  EndingEquity(Stitch(c, i), StartingEquity)
           = Grown(EndingEquity(c, StartingEquity), i)
<1>1. PICK ec : ec = windows[i].curve /\ IsEquity(ec)
  BY DEF CurvesFine
<1>2. PICK r : r = EndingEquity(c, StartingEquity) /\ r \in Fraction
  BY EndingIsRatio
<1>3. PICK w : /\ w = Piece(r, ec) /\ w \in Seq(Fraction) /\ w # <<>>
               /\ Len(w) = Len(ec) /\ Len(ec) \in Nat \ {0}
               /\ \A j \in 1..Len(ec) : w[j] = Scaled(r, ec, j)
  BY <1>1, <1>2, PieceParts
<1>4. Stitch(c, i) = c \o w
  BY <1>1, <1>2, <1>3 DEF Stitch
<1>5. c \o w # <<>> /\ Last(c \o w) = w[Len(w)]
  BY <1>3 DEF Last
<1>6. w[Len(w)] = Times(r, Lowest(ec[Len(ec)], ec[1]))
  BY <1>3 DEF Scaled
<1> QED
  BY <1>1, <1>2, <1>4, <1>5, <1>6 DEF EndingEquity, Grown, Last

(* The stitched curve ends where the return does.                           *)
LEMMA ReturnIsWhole ==
  ASSUME CurvesFine
  PROVE  EndingEquity(Stitched, StartingEquity) = Return
<1>1. PICK N \in Nat : InOrder \in [1..N -> DOMAIN windows]
  BY WindowsInOrder
<1>2. PICK h : /\ h[0] = <<>> /\ h[N] = Stitched
               /\ \A n \in 1..N : h[n] = Stitch(h[n - 1], InOrder[n])
               /\ \A n \in 0..N : h[n] \in Seq(Fraction)
  BY <1>1, StitchedStepByStep
<1>3. PICK g : /\ g[0] = <<StartingEquity, 1>> /\ g[N] = Return
               /\ \A n \in 1..N : g[n] = Grown(g[n - 1], InOrder[n])
  BY <1>1, ReturnStepByStep
<1> DEFINE Agree(n) == EndingEquity(h[n], StartingEquity) = g[n]
           T == {n \in Nat : n <= N => Agree(n)}
<1>4. Agree(0)
  BY <1>2, <1>3 DEF EndingEquity
<1>5. ASSUME NEW n \in Nat, Agree(n), n + 1 <= N
      PROVE  Agree(n + 1)
  <2>1. n + 1 \in 1..N /\ (n + 1) - 1 = n /\ n \in 0..N /\ InOrder[n + 1] \in DOMAIN windows
    BY <1>1, <1>5
  <2>2. h[n + 1] = Stitch(h[n], InOrder[n + 1]) /\ h[n] \in Seq(Fraction)
    BY <1>2, <2>1
  <2>3. g[n + 1] = Grown(g[n], InOrder[n + 1])
    BY <1>3, <2>1
  <2> QED
    BY <1>5, <2>1, <2>2, <2>3, StitchGrows
<1> HIDE DEF Agree
<1>6. 0 \in T /\ \A n \in Nat : n \in T => n + 1 \in T
  BY <1>4, <1>5
<1>7. Nat \subseteq T
  <2> HIDE DEF T
  <2> QED
    BY <1>6, NaturalsCovered
<1>8. Agree(N)
  BY <1>7
<1> QED
  BY <1>2, <1>3, <1>8 DEF Agree

(* What was stitched stays where it is.                                     *)
Begins(a, b) == Len(a) <= Len(b) /\ \A k \in 1..Len(a) : b[k] = a[k]

(* Stitching a window leaves what was stitched in place, and puts a scaled  *)
(* piece after it.                                                          *)
LEMMA StitchBegins ==
  ASSUME CurvesFine, NEW c \in Seq(Fraction), NEW i \in DOMAIN windows
  PROVE  /\ Begins(c, Stitch(c, i))
         /\ \E r \in Fraction : \A j \in 1..Len(windows[i].curve) :
              /\ Len(c) + j \in 1..Len(Stitch(c, i))
              /\ Stitch(c, i)[Len(c) + j] = Scaled(r, windows[i].curve, j)
<1>1. PICK ec : ec = windows[i].curve /\ IsEquity(ec)
  BY DEF CurvesFine
<1>2. PICK r : r = EndingEquity(c, StartingEquity) /\ r \in Fraction
  BY EndingIsRatio
<1>3. PICK w : /\ w = Piece(r, ec) /\ w \in Seq(Fraction) /\ w # <<>>
               /\ Len(w) = Len(ec) /\ Len(ec) \in Nat \ {0}
               /\ \A j \in 1..Len(ec) : w[j] = Scaled(r, ec, j)
  BY <1>1, <1>2, PieceParts
<1>4. Stitch(c, i) = c \o w
  BY <1>1, <1>2, <1>3 DEF Stitch
<1>5. Len(c \o w) = Len(c) + Len(w) /\ Len(c) \in Nat
  BY <1>3
<1>6. Begins(c, c \o w)
  BY <1>3, <1>5 DEF Begins
<1>7. \A j \in 1..Len(ec) : Len(c) + j \in 1..Len(c \o w) /\ (c \o w)[Len(c) + j] = w[j]
  BY <1>3, <1>5
<1> QED
  BY <1>1, <1>2, <1>3, <1>4, <1>6, <1>7

(* Beginning with is transitive.                                            *)
LEMMA BeginsTransitive ==
  ASSUME NEW a \in Seq(Fraction), NEW b \in Seq(Fraction), NEW c \in Seq(Fraction),
         Begins(a, b), Begins(b, c)
  PROVE  Begins(a, c)
<1>1. Len(a) \in Nat /\ Len(b) \in Nat /\ Len(c) \in Nat
  OBVIOUS
<1>2. \A k \in 1..Len(a) : k \in 1..Len(b)
  BY <1>1 DEF Begins
<1> QED
  BY <1>1, <1>2 DEF Begins

(* What is stitched of the first windows stays to the end.                  *)
LEMMA EverythingStays ==
  ASSUME CurvesFine, NEW N \in Nat, InOrder \in [1..N -> DOMAIN windows], NEW h,
         \A n \in 1..N : h[n] = Stitch(h[n - 1], InOrder[n]),
         \A n \in 0..N : h[n] \in Seq(Fraction),
         NEW m \in 0..N
  PROVE  Begins(h[m], h[N])
<1> DEFINE Stays(n) == Begins(h[m], h[n])
           T == {n \in Nat : m + n <= N => Stays(m + n)}
<1>1. Stays(m)
  <2>1. h[m] \in Seq(Fraction)
    OBVIOUS
  <2> QED
    BY <2>1 DEF Begins
<1>2. ASSUME NEW n \in Nat, Stays(m + n), (m + n) + 1 <= N
      PROVE  Stays((m + n) + 1)
  <2>1. PICK k : k = m + n /\ k \in 0..N /\ k + 1 \in 1..N /\ (k + 1) - 1 = k
    BY <1>2
  <2>2. h[k + 1] = Stitch(h[k], InOrder[k + 1]) /\ InOrder[k + 1] \in DOMAIN windows
    BY <2>1
  <2>3. h[k] \in Seq(Fraction) /\ h[k + 1] \in Seq(Fraction) /\ h[m] \in Seq(Fraction)
    BY <2>1
  <2>4. Begins(h[k], h[k + 1])
    BY <2>2, <2>3, StitchBegins
  <2>5. Begins(h[m], h[k + 1])
    BY <1>2, <2>1, <2>3, <2>4, BeginsTransitive
  <2> QED
    BY <2>1, <2>5
<1> HIDE DEF Stays
<1>3. 0 \in T
  <2>1. m + 0 = m
    OBVIOUS
  <2> QED
    BY <1>1, <2>1
<1>4. ASSUME NEW n \in Nat, n \in T
      PROVE  n + 1 \in T
  <2>1. m + (n + 1) = (m + n) + 1 /\ ((m + n) + 1 <= N => m + n <= N)
    OBVIOUS
  <2> QED
    BY <1>2, <1>4, <2>1
<1>5. Nat \subseteq T
  <2> HIDE DEF T
  <2> QED
    BY <1>3, <1>4, NaturalsCovered
<1>6. PICK k : k \in Nat /\ m + k = N
  <2>1. N - m \in Nat /\ m + (N - m) = N
    OBVIOUS
  <2> QED
    BY <2>1
<1>7. Stays(N)
  <2>1. k \in T /\ m + k <= N
    BY <1>5, <1>6
  <2>2. Stays(m + k)
    BY <2>1
  <2> QED
    BY <1>6, <2>2
<1> QED
  BY <1>7 DEF Stays

(* A curve that begins with the starting equity begins above zero.          *)
LEMMA FirstIsPositive ==
  ASSUME CurvesFine, NEW i \in DOMAIN windows, NEW c \in Seq(Fraction),
         Begins(Stitch(<<>>, i), c)
  PROVE  IsCurve(c)
<1>1. PICK ec : ec = windows[i].curve /\ IsEquity(ec)
  BY DEF CurvesFine
<1>2. PICK r : r = EndingEquity(<<>>, StartingEquity) /\ r = <<StartingEquity, 1>>
  BY DEF EndingEquity
<1>3. r \in Fraction /\ r[1] = StartingEquity /\ r[2] = 1 /\ StartingEquity \in Nat \ {0}
  BY <1>2, WalkForwardAssumption DEF Fraction
<1>4. PICK w : /\ w = Piece(r, ec) /\ w \in Seq(Fraction)
               /\ Len(w) = Len(ec) /\ Len(ec) \in Nat \ {0}
               /\ \A j \in 1..Len(ec) : w[j] = Scaled(r, ec, j)
  BY <1>1, <1>3, PieceParts
<1>5. Stitch(<<>>, i) = w
  <2>1. <<>> \o w = w
    BY <1>4
  <2> QED
    BY <1>1, <1>2, <1>4, <2>1 DEF Stitch
<1>6. c # <<>> /\ c[1] = w[1]
  BY <1>4, <1>5 DEF Begins
<1>7. PICK d : d = ec[1] /\ d \in Nat \ {0}
  BY <1>1 DEF IsEquity
<1>8. PICK t : t = w[1] /\ t \in Fraction /\ Multiple(t, r, d, d)
  <2>1. w[1] = Times(r, Lowest(d, d))
    BY <1>4, <1>7 DEF Scaled
  <2> QED
    BY <1>3, <1>7, <2>1, ScaledIsMultiple
<1>9. t[1] # 0
  <2>1. (t[1] * d) * 1 = (StartingEquity * d) * t[2]
    BY <1>3, <1>8 DEF Multiple
  <2>2. StartingEquity * d \in Nat \ {0}
    BY <1>3, <1>7, ProductsOfNaturals
  <2>3. t[1] \in Nat /\ t[2] \in Nat \ {0}
    BY <1>8, RatioPair
  <2>4. (StartingEquity * d) * t[2] # 0
    BY <2>2, <2>3, ProductsOfNaturals
  <2>5. CASE t[1] = 0
    BY <1>7, <2>1, <2>4, <2>5
  <2> QED
    BY <2>5
<1> QED
  BY <1>6, <1>8, <1>9 DEF IsCurve

(* The stitched curve has at least the drawdown of every window.            *)
LEMMA NothingIsHidden ==
  ASSUME CurvesFine, NEW i \in DOMAIN windows
  PROVE  AtLeast(MaxDrawdown(Stitched), MaxDrawdown(Whole(windows[i].curve)))
<1>1. PICK N \in Nat : /\ InOrder \in [1..N -> DOMAIN windows]
                       /\ \A j \in DOMAIN windows : \E n \in 1..N : InOrder[n] = j
  BY WindowsInOrder
<1>2. PICK h : /\ h[0] = <<>> /\ h[N] = Stitched
               /\ \A n \in 1..N : h[n] = Stitch(h[n - 1], InOrder[n])
               /\ \A n \in 0..N : h[n] \in Seq(Fraction)
  BY <1>1, StitchedStepByStep
<1>3. PICK m \in 1..N : InOrder[m] = i
  BY <1>1
<1>4. m \in 0..N /\ m - 1 \in 0..N /\ 1 \in 1..N /\ 1 \in 0..N /\ N \in 0..N
  BY <1>3
<1>5. PICK c : c = Stitched /\ c = h[N] /\ c \in Seq(Fraction)
  BY <1>2, <1>4
<1>6. \A n \in 0..N : Begins(h[n], c)
  BY <1>1, <1>2, <1>5, EverythingStays
<1>7. IsCurve(c)
  <2>1. h[1] = Stitch(<<>>, InOrder[1]) /\ InOrder[1] \in DOMAIN windows
    BY <1>1, <1>2, <1>4
  <2> QED
    BY <1>4, <1>5, <1>6, <2>1, FirstIsPositive
<1>8. PICK ec : ec = windows[i].curve /\ ec \in Seq(Nat) /\ ec # <<>> /\ ec[1] > 0
  BY DEF CurvesFine, IsEquity
<1>9. PICK b : b = h[m - 1] /\ b \in Seq(Fraction)
  BY <1>2, <1>4
<1>10. PICK s : s = h[m] /\ s = Stitch(b, i) /\ s \in Seq(Fraction) /\ Begins(s, c)
  BY <1>2, <1>3, <1>4, <1>6, <1>9
<1>11. PICK r \in Fraction : \A j \in 1..Len(ec) :
         Len(b) + j \in 1..Len(s) /\ s[Len(b) + j] = Scaled(r, ec, j)
  <2>1. \E r \in Fraction : \A j \in 1..Len(windows[i].curve) :
          /\ Len(b) + j \in 1..Len(Stitch(b, i))
          /\ Stitch(b, i)[Len(b) + j] = Scaled(r, windows[i].curve, j)
    BY <1>9, StitchBegins
  <2> QED
    BY <1>8, <1>10, <2>1
<1>12. PICK off : off = Len(b) /\ off \in Nat
  BY <1>9
<1>13. \A j \in 1..Len(ec) : off + j \in 1..Len(c) /\ c[off + j] = Scaled(r, ec, j)
  <2>1. \A k \in 1..Len(s) : k \in 1..Len(c) /\ c[k] = s[k]
    BY <1>5, <1>10 DEF Begins
  <2> QED
    BY <1>11, <1>12, <2>1
<1>14. AtLeast(MaxDrawdown(c), MaxDrawdown(Whole(ec)))
  BY <1>7, <1>8, <1>12, <1>13, PieceHidesNothing
<1> QED
  BY <1>5, <1>8, <1>14

(* For curves that an engine can return, the stitched curve is whole.       *)
LEMMA CurvesAreWhole ==
  ASSUME CurvesFine
  PROVE  CurveWhole
<1>1. StitchedReturn
  BY ReturnIsWhole DEF StitchedReturn, Return, Same
<1>2. DrawdownNotHidden
  BY NothingIsHidden DEF DrawdownNotHidden, Whole
<1> QED
  BY <1>1, <1>2 DEF CurveWhole

(* The results that came back are the engine's.                             *)
ResultsInv == \A i \in DOMAIN windows : windows[i] \in Results \ {NoBars}

(* Every step keeps the results: a worker brings one, and nobody changes    *)
(* one.                                                                     *)
LEMMA ResultsStep ==
  ASSUME ResultsInv, [WalkForwardNext]_wfVars
  PROVE  ResultsInv'
<1>1. CASE UNCHANGED windows
  BY <1>1 DEF ResultsInv
<1>2. CASE EndOfCommand
  BY <1>2, NoWindows DEF EndOfCommand, ResultsInv
<1>3. ASSUME NEW i \in DOMAIN ranges, NEW result \in Results, WindowCompletes(i, result)
      PROVE  ResultsInv'
  <2>1. CASE result = NoBars
    BY <1>1, <1>3, <2>1 DEF WindowCompletes
  <2>2. CASE result # NoBars
    <3>1. windows' = [j \in DOMAIN windows \cup {i} |-> IF j = i THEN result ELSE windows[j]]
      BY <1>3, <2>2 DEF WindowCompletes
    <3> QED
      BY <2>2, <3>1 DEF ResultsInv
  <2> QED
    BY <2>1, <2>2
<1>4. CASE NextDay /\ UNCHANGED run
  BY <1>1, <1>4 DEF run
<1>5. ASSUME NEW years \in Years, StartWalkForward(years)
      PROVE  ResultsInv'
  BY <1>1, <1>5 DEF StartWalkForward
<1>6. CASE Abort \/ WriteGateResult \/ DiesWriting
  BY <1>2, <1>6 DEF Abort, WriteGateResult, DiesWriting
<1>7. ASSUME NEW metrics \in Aggregate, EvaluateGate(metrics)
      PROVE  ResultsInv'
  BY <1>1, <1>7 DEF EvaluateGate
<1>8. CASE UNCHANGED wfVars
  BY <1>1, <1>8 DEF wfVars, run
<1> QED
  BY <1>3, <1>4, <1>5, <1>6, <1>7, <1>8 DEF WalkForwardNext

(* A result that came back has a curve that begins above zero.              *)
LEMMA ResultsAreCurves ==
  ASSUME ResultsInv, WindowsInv
  PROVE  CurvesFine
<1>1. DOMAIN windows \in SUBSET Int /\ IsFiniteSet(DOMAIN windows)
  <2>1. CASE wf = Idle
    BY <2>1, NoWindows, FS_EmptySet DEF WindowsInv
  <2>2. CASE wf # Idle
    <3>1. PICK n \in Int : DOMAIN ranges = 1..n
      <4>1. ranges = DateRanges(wf.years) /\ wf.years \in Nat
        BY <2>2, WalkForwardAssumption DEF WindowsInv
      <4> DEFINE n == (wf.years * MonthsPerYear + WindowMonths - 1) \div WindowMonths
      <4>2. n \in Int
        BY <4>1, WalkForwardAssumption
      <4>3. DOMAIN ranges = 1..n
        BY <4>1 DEF DateRanges
      <4> QED
        BY <4>2, <4>3
    <3>2. IsFiniteSet(1..n)
      BY FS_Interval
    <3>3. DOMAIN windows \subseteq 1..n
      BY <3>1 DEF WindowsInv
    <3> QED
      BY <3>2, <3>3, FS_Subset
  <2> QED
    BY <2>1, <2>2
<1>2. ASSUME NEW i \in DOMAIN windows
      PROVE  IsEquity(windows[i].curve)
  BY ResultsAssumption DEF ResultsInv, IsEquity
<1> QED
  BY <1>1, <1>2 DEF CurvesFine

(* Whatever the windows and their results, and whatever the order they came *)
(* in, the curve that is measured ends at the starting equity times what    *)
(* every window grew by, and its drawdown is at least that of each of them: *)
(* scaling a window to begin where the one before it ended leaves out no    *)
(* profit and hides no loss (_aggregate, compute_metrics).                  *)
THEOREM CurveIsWhole == WalkForwardSpec => []CurveWhole
<1>1. WalkForwardInit => ResultsInv
  BY NoWindows DEF WalkForwardInit, ResultsInv
<1>2. ResultsInv /\ [WalkForwardNext]_wfVars => ResultsInv'
  BY ResultsStep
<1>3. WalkForwardSpec => []ResultsInv
  BY <1>1, <1>2, PTL DEF WalkForwardSpec
<1>4. ResultsInv /\ WindowsAccounted => CurveWhole
  BY ResultsAreCurves, CurvesAreWhole DEF WindowsAccounted
<1> QED
  BY <1>3, <1>4, EveryWindowCounts, PTL

-----------------------------------------------------------------------------
(* The diagnostics                                                          *)

VerdictType == [passed: BOOLEAN, timestamp: Int]

(* The verdict and the day keep their types.                                *)
LEMMA GateTypeStep ==
  ASSUME gateFile \in VerdictType, today \in Nat, [GateNext]_gateVars
  PROVE  gateFile' \in VerdictType /\ today' \in Nat
<1>1. CASE NextDay
  BY <1>1 DEF NextDay
<1>2. ASSUME NEW passed \in BOOLEAN, Verdict(passed)
      PROVE  gateFile' \in VerdictType /\ today' \in Nat
  BY <1>2 DEF Verdict, Torn, VerdictType
<1>3. ASSUME NEW passed \in BOOLEAN, NEW day \in 0..today, WriteVerdict(passed, day)
      PROVE  gateFile' \in VerdictType /\ today' \in Nat
  BY <1>3 DEF WriteVerdict, VerdictType
<1>4. CASE UNCHANGED gateVars
  BY <1>4 DEF gateVars
<1> QED
  BY <1>1, <1>2, <1>3, <1>4 DEF GateNext

(* The verdict is allowed just when its label says so, and when it was      *)
(* read, passed and not too old.                                            *)
LEMMA GateShown ==
  ASSUME gateFile \in VerdictType, today \in Nat
  PROVE  /\ IsLiveAllowed \in BOOLEAN
         /\ IsLiveAllowed <=> GateLabel = "PASSED"
         /\ IsLiveAllowed <=> GateRead /\ gateFile.passed /\ GateAge <= GateMaxAge
<1>1. gateFile.passed => GateRead
  BY DEF GateRead, NoFile, Torn
<1>2. gateFile.passed \in BOOLEAN
  BY DEF VerdictType
<1>3. IsLiveAllowed <=> GateRead /\ gateFile.passed /\ GateAge <= GateMaxAge
  BY <1>1 DEF IsLiveAllowed, GateAge
<1> QED
  BY <1>1, <1>2, <1>3 DEF GateLabel, IsLiveAllowed

(* A session can be had or not, and a machine's parts are of their kinds.   *)
LEMMA MachineParts ==
  ASSUME NEW m \in Machine
  PROVE  /\ m.tests \in BOOLEAN /\ m.balance \in BOOLEAN /\ m.logs \in BOOLEAN
         /\ m.venv \in BOOLEAN /\ m.reachable \in BOOLEAN /\ m.account \in BOOLEAN
         /\ m.pidFile \in BOOLEAN
BY DEF Machine

(* The four ways to try a session, in one formula.                          *)
Connects(m, env) == Complete(env, LiveKeys) /\ ~SameApp(env) /\ Session(m, env)

(* The preflight passes an environment if each of its checks does.          *)
LEMMA EnvironmentPasses ==
  ASSUME NEW m, NEW env
  PROVE  AllPass(EnvironmentChecks(m, env)) <=>
           /\ m.venv /\ Complete(env, DataKeys) /\ WellFormed(env)
           /\ IsLiveAllowed /\ m.config # "invalid"
<1> DEFINE checks == EnvironmentChecks(m, env)
<1>1. /\ DOMAIN checks = {"venv", "present", "format", "gate", "config"}
      /\ checks["venv"] = m.venv /\ checks["present"] = Complete(env, DataKeys)
      /\ checks["format"] = WellFormed(env) /\ checks["gate"] = IsLiveAllowed
      /\ checks["config"] = (m.config # "invalid")
  BY DEF EnvironmentChecks
<1> HIDE DEF checks
<1> QED
  BY <1>1 DEF AllPass, checks

(* A start with a sound configuration, an open gate, a store and the data   *)
(* credentials fails of a session or of its feed, if at all.                *)
LEMMA PreflightSound ==
  ASSUME NEW m \in Machine, gateFile \in VerdictType, today \in Nat
  PROVE  GreenMeansGo(m)
<1> SUFFICES ASSUME NEW checkLive \in BOOLEAN, Preflight(m, checkLive)
             PROVE  \/ Start(m) = "running"
                    \/ Start(m) = "no session" /\ m.config = "live" /\ ~checkLive
                    \/ Start(m) = "no feed" /\ m.feed # "angelone"
                    \/ Start(m) = "no data" /\ ~FeedConnects(m)
  BY DEF GreenMeansGo
<1>1. m.config # "invalid" /\ IsLiveAllowed /\ Complete(CliEnv(m), DataKeys)
  BY EnvironmentPasses DEF Preflight
<1>2. m.data = "writable"
  <2> DEFINE checks == MachineChecks(m)
  <2>1. "data" \in DOMAIN checks /\ checks["data"] = (m.data = "writable")
    BY DEF MachineChecks
  <2>2. AllPass(checks)
    BY DEF Preflight
  <2> HIDE DEF checks
  <2> QED
    BY <2>1, <2>2 DEF AllPass
<1>3. checkLive => Session(m, CliEnv(m))
  BY DEF Preflight, LiveConnects
<1>4. FeedBuilt(m, CliEnv(m)) <=> m.feed = "angelone"
  BY <1>1 DEF FeedBuilt
<1> HIDE DEF Preflight
<1>5. CASE m.config = "live" /\ ~Session(m, CliEnv(m))
  BY <1>1, <1>2, <1>3, <1>5 DEF Start
<1>6. CASE ~(m.config = "live" /\ ~Session(m, CliEnv(m)))
  BY <1>1, <1>2, <1>4, <1>6 DEF Start
<1> QED
  BY <1>5, <1>6

(* The test of the live broker is OK if the start would connect and has a   *)
(* balance.                                                                 *)
LEMMA SessionTried ==
  ASSUME NEW m \in Machine
  PROVE  TestLiveBroker(m) = "OK" <=>
           m.config # "invalid" /\ Connects(m, CliEnv(m)) /\ m.balance
<1> DEFINE env == CliEnv(m)
<1> HIDE DEF env
<1>1. m.balance \in BOOLEAN
  BY MachineParts
<1> QED
  BY <1>1 DEF TestLiveBroker, Connects, env

(* The gate's live check is OK in just the same cases.                      *)
LEMMA GateTried ==
  ASSUME NEW m \in Machine
  PROVE  CheckGateLive(m) = "OK" <=>
           m.config # "invalid" /\ Connects(m, CliEnv(m)) /\ m.balance
<1>1. m.balance \in BOOLEAN
  BY MachineParts
<1> QED
  BY <1>1 DEF CheckGateLive, Connects

(* The checks that try the broker are of one verdict.                       *)
LEMMA SessionsAgree ==
  ASSUME NEW m \in Machine, gateFile \in VerdictType, today \in Nat
  PROVE  OneVerdictOnBroker(m)
<1>1. GateRead => (CheckGate(m).live = "OK" <=> TestLiveBroker(m) = "OK")
  BY SessionTried, GateTried DEF CheckGate
<1>2. m.config # "invalid" => (LiveConnects(m, CliEnv(m)) <=> TestLiveBroker(m) = "OK")
  BY SessionTried DEF LiveConnects, Connects
<1>3. ASSUME Environ(ServerVariables(m)) = CliEnv(m)
      PROVE  ~TestLiveBrokerConnection(m).error <=> TestLiveBroker(m) = "OK"
  <2>1. m.balance \in BOOLEAN
    BY MachineParts
  <2>2. TestLiveBrokerConnection(m).error =
          (~(m.config # "invalid" /\ Connects(m, CliEnv(m))) \/ ~m.balance)
    BY <1>3 DEF TestLiveBrokerConnection, Connects
  <2> QED
    BY <2>1, <2>2, SessionTried
<1>4. TestLiveBroker(m) = "OK" => Start(m) # "no session"
  BY SessionTried DEF Start, Connects
<1> QED
  BY <1>1, <1>2, <1>3, <1>4 DEF OneVerdictOnBroker

(* With nothing in the shell, the server's variables are the file's.        *)
LEMMA SameVariables ==
  ASSUME NEW m \in Machine,
         \A k \in DataKeys \cup LiveKeys : m.shell[k] = "absent" /\ m.served[k] = "absent"
  PROVE  Environ(Loaded(m.dotenv, ServerVariables(m))) = CliEnv(m)
<1> DEFINE keys == DataKeys \cup LiveKeys
           server == Loaded(m.dotenv, ServerVariables(m))
           command == Loaded(m.shell, m.dotenv)
<1> HIDE DEF keys
<1>1. \A k \in keys : ServerVariables(m)[k] = "absent"
  BY DEF ServerVariables, Loaded, keys
<1>2. server = [k \in keys |-> IF m.dotenv[k] # "absent" THEN m.dotenv[k]
                                ELSE ServerVariables(m)[k]]
  BY DEF Loaded, keys
<1>3. command = [k \in keys |-> IF m.shell[k] # "absent" THEN m.shell[k]
                                 ELSE m.dotenv[k]]
  BY DEF Loaded, keys
<1>4. \A k \in keys : m.shell[k] = "absent"
  BY DEF keys
<1> HIDE DEF server, command
<1>5. \A k \in keys : server[k] = command[k]
  BY <1>1, <1>2, <1>3, <1>4
<1>6. server = command
  BY <1>2, <1>3, <1>5
<1> QED
  BY <1>6 DEF CliEnv, server, command

(* The server's preflight checks what the command line's does.              *)
LEMMA PreflightMirrored ==
  ASSUME NEW m \in Machine
  PROVE  ServerMirrors(m)
<1> SUFFICES ASSUME \A k \in DataKeys \cup LiveKeys :
                      m.shell[k] = "absent" /\ m.served[k] = "absent"
             PROVE  Preflight(m, FALSE)
                      <=> GetPreflight(m) /\ m.tests /\ LiveCredentials(m, CliEnv(m))
  BY DEF ServerMirrors
<1>1. Environ(Loaded(m.dotenv, ServerVariables(m))) = CliEnv(m)
  BY SameVariables
<1> QED
  BY <1>1 DEF Preflight, GetPreflight

(* The gate is shown as the start reads it.                                 *)
LEMMA GateShownAsItIs ==
  ASSUME NEW m \in Machine, gateFile \in VerdictType, today \in Nat
  PROVE  ShownAsItIs(m)
<1>1. /\ IsLiveAllowed \in BOOLEAN
      /\ IsLiveAllowed <=> GateLabel = "PASSED"
      /\ IsLiveAllowed <=> GateRead /\ gateFile.passed /\ GateAge <= GateMaxAge
  BY GateShown
<1>2. HealthCheck(m).gate_passed = IsLiveAllowed
  BY <1>1 DEF HealthCheck
<1>3. IsLiveAllowed => GetStatus(m).gate_passed
  BY <1>1 DEF GetStatus
<1>4. (Status(m).running = "yes") = HealthCheck(m).agent_running
  <2>1. Status(m).running =
          (IF ~SnapshotRead(m) \/ m.pid = "none" THEN "unknown"
           ELSE IF m.pid = "alive" THEN "yes" ELSE "no")
    BY DEF Status
  <2>2. HealthCheck(m).agent_running = (SnapshotRead(m) /\ m.pid = "alive")
    BY DEF HealthCheck
  <2> QED
    BY <2>1, <2>2 DEF SnapshotRead
<1>5. ASSUME CheckConfig(m) = {}
      PROVE  Start(m) # "blocked" /\ ~SameApp(CliEnv(m))
  <2>1. ~(m.config = "live" /\ ~IsLiveAllowed)
    BY <1>5 DEF CheckConfig
  <2>2. ~\E k \in LiveKeys :
           /\ CliEnv(m)[k] # ""
           /\ CliEnv(m)[k] = CliEnv(m)[[LIVE_KEY |-> "DATA_KEY", LIVE_REST |-> "DATA_REST"][k]]
    BY <1>5 DEF CheckConfig
  <2>3. ~SameApp(CliEnv(m))
    BY <2>2 DEF SameApp, LiveKeys
  <2> QED
    BY <2>1, <2>3 DEF Start
<1> QED
  BY <1>1, <1>2, <1>3, <1>4, <1>5 DEF ShownAsItIs

(* Credentials that were saved are used unless the shell hides them.        *)
LEMMA CredentialsUsed ==
  ASSUME NEW m \in Machine
  PROVE  SavedIsUsed(m)
<1> SUFFICES ASSUME NEW key \in {"app A", "app B"}
             PROVE  LET saved == SaveAngelOne(m, key, "A")
                    IN  /\ m.shell["DATA_KEY"] = "absent" => CliEnv(saved)["DATA_KEY"] = key
                        /\ \A k \in LiveKeys : CliEnv(saved)[k] = CliEnv(m)[k]
  BY DEF SavedIsUsed
<1> DEFINE saved == SaveAngelOne(m, key, "A")
           file == [m.dotenv EXCEPT !["DATA_KEY"] = key, !["DATA_REST"] = "A"]
<1>1. saved = [m EXCEPT !.dotenv["DATA_KEY"] = key, !.dotenv["DATA_REST"] = "A"]
  BY DEF SaveAngelOne
<1>2. saved.shell = m.shell /\ saved.dotenv = file
  BY <1>1 DEF Machine
<1>3. m.dotenv \in Variables
  BY DEF Machine
<1>4. file["DATA_KEY"] = key /\ \A k \in LiveKeys : file[k] = m.dotenv[k]
  BY <1>3 DEF Variables, DataKeys, LiveKeys
<1> HIDE DEF saved, file
<1>5. /\ CliEnv(saved) = Environ(Loaded(m.shell, file))
      /\ CliEnv(m) = Environ(Loaded(m.shell, m.dotenv))
  BY <1>2 DEF CliEnv
<1>6. ASSUME m.shell["DATA_KEY"] = "absent" PROVE CliEnv(saved)["DATA_KEY"] = key
  <2>1. Loaded(m.shell, file)["DATA_KEY"] = key
    BY <1>4, <1>6 DEF Loaded, DataKeys
  <2>2. "DATA_KEY" \in DOMAIN Loaded(m.shell, file)
    BY DEF Loaded, DataKeys
  <2> QED
    BY <1>5, <2>1, <2>2 DEF Environ
<1>7. ASSUME NEW k \in LiveKeys PROVE CliEnv(saved)[k] = CliEnv(m)[k]
  <2>1. /\ Loaded(m.shell, file)[k] = Loaded(m.shell, m.dotenv)[k]
        /\ k \in DOMAIN Loaded(m.shell, file) /\ k \in DOMAIN Loaded(m.shell, m.dotenv)
    BY <1>4 DEF Loaded
  <2> QED
    BY <1>5, <2>1 DEF Environ
<1> QED
  BY <1>6, <1>7 DEF saved

(* What the diagnostics foretell holds on every machine and of every        *)
(* verdict a sequence of validations can leave, whatever the age it is      *)
(* allowed to have: a preflight that passes is followed by a start that     *)
(* comes up, the session is judged alike four times, what is shown of the   *)
(* gate is what a start reads, and credentials that were saved are used     *)
(* (cli.py, api/main.py).                                                   *)
THEOREM DiagnosticsHold == WalkForwardSpec => []DiagnosticsForetell
<1> DEFINE Inv == gateFile \in VerdictType /\ today \in Nat
<1>1. GateInit => Inv
  BY DEF GateInit, NoFile, VerdictType
<1>2. Inv /\ [GateNext]_gateVars => Inv'
  BY GateTypeStep
<1>3. Inv => DiagnosticsForetell
  <2> SUFFICES ASSUME Inv, NEW m \in Machines
               PROVE  /\ GreenMeansGo(m) /\ OneVerdictOnBroker(m)
                      /\ ServerMirrors(m) /\ ShownAsItIs(m) /\ SavedIsUsed(m)
    BY DEF DiagnosticsForetell
  <2>1. m \in Machine
    BY PreflightAssumption
  <2> QED
    BY <2>1, PreflightSound, SessionsAgree, PreflightMirrored, GateShownAsItIs,
       CredentialsUsed
<1> HIDE DEF Inv
<1>4. GateSpec => []Inv
  BY <1>1, <1>2, PTL DEF GateSpec
<1> QED
  BY <1>3, <1>4, ValidationIsAGate, PTL

=============================================================================
