-------------------------- MODULE OrchestratorProofs --------------------------
(***************************************************************************)
(* Proofs about the paper broker, for every set of symbols, prices and      *)
(* quantities and every charge model, and about the agent process that owns *)
(* it, for every account, every limit and any number of days, crashes and   *)
(* restarts.  The broker: its type invariant, one-sided positions, honoured *)
(* stops, the durable snapshot, the conservation of money step by step, and *)
(* when the account cannot be overdrawn.  The process: the day's baseline,  *)
(* the flat account after the square-off, the number of open positions and  *)
(* what a restart brings back.                                              *)
(***************************************************************************)
EXTENDS OrchestratorProps, SumTheorems, TLAPS

-----------------------------------------------------------------------------
(* Fills, charges and cost bases are integers, and slippage is never in the *)
(* trader's favour.                                                         *)

(* A fill price is a whole number of ticks.                                 *)
LEMMA FillType ==
  ASSUME NEW price \in Int, NEW side
  PROVE  ApplySlippage(price, side) \in Int
<1>1. Exec.slippage_bps \in Nat
  BY PaperBrokerAssumption
<1>2. (price * Exec.slippage_bps) \div 10000 \in Int
  BY <1>1
<1> QED
  BY <1>2 DEF ApplySlippage

(* A buy fills at or above the price, a sell at or below it.                *)
LEMMA FillBounds ==
  ASSUME NEW price \in Nat
  PROVE  /\ ApplySlippage(price, "BUY") >= price
         /\ ApplySlippage(price, "SELL") <= price
<1>1. Exec.slippage_bps \in Nat
  BY PaperBrokerAssumption
<1>2. price * Exec.slippage_bps \in Nat
  BY <1>1
<1>3. (price * Exec.slippage_bps) \div 10000 \in Nat
  BY <1>2
<1> QED
  BY <1>3 DEF ApplySlippage

(* The charges of a fill are a whole number of ticks.                       *)
LEMMA ChargesType ==
  ASSUME NEW side, NEW qty \in Nat, NEW price \in Int, NEW cover
  PROVE  ComputeCharges(side, qty, price, cover) \in Int
<1>1. /\ Exec.brokerage \in Int /\ Exec.min_brokerage \in Int
      /\ Exec.stt_bps \in Int /\ Exec.levy_bps \in Int /\ Exec.stamp_bps \in Int
  BY PaperBrokerAssumption
<1>2. qty * price \in Int
  OBVIOUS
<1>3. /\ (qty * price) \div 1000 \in Int
      /\ ((qty * price) * Exec.stt_bps) \div 10000 \in Int
      /\ ((qty * price) * Exec.levy_bps) \div 10000 \in Int
      /\ ((qty * price) * Exec.stamp_bps) \div 10000 \in Int
  BY <1>1, <1>2
<1> QED
  BY <1>1, <1>3 DEF ComputeCharges

(* The cost of the part of a position that is closed is whole.              *)
LEMMA BasisType ==
  ASSUME NEW pos \in Position, Open(pos), NEW qty \in Nat
  PROVE  Basis(pos, qty) \in Int
<1>1. pos.cost * qty \in Int
  BY DEF Position
<1>2. (pos.cost * qty) \div pos.qty \in Int
  BY <1>1 DEF Position, Open
<1> QED
  BY <1>2 DEF Basis, Position

(* What is left of a position after an exit, and what it cost.              *)
LEMMA ReduceEffect ==
  ASSUME NEW pos \in Position, Open(pos), NEW qty \in Nat
  PROVE  LET left == Reduce(pos, qty)
         IN  /\ left \in Position
             /\ qty >= pos.qty => ~Open(left)
             /\ ~Open(left) => left.cost = 0
             /\ ~Open(left) \/ (left.last = pos.last /\ left.stop = pos.stop)
             /\ qty <= pos.qty => left.cost = pos.cost - Basis(pos, qty)
<1>1. Basis(pos, qty) \in Int
  BY BasisType
<1>2. CASE qty >= pos.qty
  <2>1. Reduce(pos, qty) = Flat
    BY <1>2 DEF Reduce
  <2>2. qty <= pos.qty => Basis(pos, qty) = pos.cost
    BY <1>2 DEF Basis, Position
  <2> QED
    BY <1>2, <2>1, <2>2 DEF Flat, Position, Open, NoTarget
<1>3. CASE qty < pos.qty
  <2>1. /\ pos.qty - qty \in Nat
        /\ pos.cost - Basis(pos, qty) \in Int
    BY <1>1, <1>3 DEF Position
  <2> QED
    BY <1>3, <2>1 DEF Reduce, Position, Open
<1> QED
  BY <1>2, <1>3 DEF Position

-----------------------------------------------------------------------------
(* What the internal steps do to a book: they keep its type, touch one      *)
(* symbol, and move money through it.                                       *)

(* Closing a long releases its basis and touches nothing else.              *)
LEMMA CloseLongEffect ==
  ASSUME NEW b \in Book, NEW s \in Symbols, Open(b.longs[s]),
         NEW qty \in Nat, qty <= b.longs[s].qty, NEW fill \in Int, NEW fee \in Int
  PROVE  LET a == CloseLong(b, s, qty, fill, fee)
         IN  /\ a \in Book
             /\ a.trades = b.trades + 1
             /\ a.shorts = b.shorts
             /\ \A t \in Symbols \ {s} : a.longs[t] = b.longs[t]
             /\ a.longs[s] = Reduce(b.longs[s], qty)
             /\ MovesThrough(s, b, a, 0)
<1> DEFINE pos == b.longs[s]
           left == Reduce(pos, qty)
           a == CloseLong(b, s, qty, fill, fee)
<1>1. pos \in Position
  BY DEF Book
<1>2. /\ Basis(pos, qty) \in Int
      /\ left \in Position
      /\ left.cost = pos.cost - Basis(pos, qty)
  BY <1>1, BasisType, ReduceEffect
<1>3. qty * fill \in Int
  OBVIOUS
<1>4. a = [cash |-> b.cash + (qty * fill - fee),
           realized |-> b.realized + (qty * fill - Basis(pos, qty) - fee),
           trades |-> b.trades + 1,
           longs |-> [b.longs EXCEPT ![s] = left], shorts |-> b.shorts]
  BY DEF CloseLong, WithLong, Realize
<1>5. a \in Book
  BY <1>2, <1>3, <1>4 DEF Book
<1>6. MovesThrough(s, b, a, 0)
  <2>1. \A t \in Symbols : b.longs[t].cost \in Int /\ b.shorts[t].cost \in Int
    BY DEF Book, Position
  <2>2. /\ a.cash - b.cash = qty * fill - fee
        /\ a.realized - b.realized = qty * fill - Basis(pos, qty) - fee
    BY <1>2, <1>3, <1>4 DEF Book
  <2>3. /\ a.longs[s].cost = pos.cost - Basis(pos, qty)
        /\ a.shorts = b.shorts
        /\ \A t \in Symbols \ {s} : a.longs[t] = b.longs[t]
    BY <1>2, <1>4 DEF Book
  <2> HIDE DEF a
  <2> QED
    BY <1>2, <1>3, <2>1, <2>2, <2>3 DEF MovesThrough
<1> QED
  BY <1>4, <1>5, <1>6 DEF Book

(* Covering a short releases its margin and touches nothing else.           *)
LEMMA CoverShortEffect ==
  ASSUME NEW b \in Book, NEW s \in Symbols, Open(b.shorts[s]),
         NEW qty \in Nat, NEW fill \in Int, NEW fee \in Int
  PROVE  LET a == CoverShort(b, s, qty, fill, fee)
         IN  /\ a \in Book
             /\ a.trades = b.trades + 1
             /\ a.longs = b.longs
             /\ \A t \in Symbols \ {s} : a.shorts[t] = b.shorts[t]
             /\ a.shorts[s] = Reduce(b.shorts[s], qty)
             /\ qty <= b.shorts[s].qty => MovesThrough(s, b, a, 0)
<1> DEFINE pos == b.shorts[s]
           left == Reduce(pos, qty)
           pnl == Basis(pos, qty) - qty * fill - fee
           a == CoverShort(b, s, qty, fill, fee)
<1>1. pos \in Position
  BY DEF Book
<1>2. /\ Basis(pos, qty) \in Int
      /\ left \in Position
      /\ qty <= pos.qty => left.cost = pos.cost - Basis(pos, qty)
  BY <1>1, BasisType, ReduceEffect
<1>3. qty * fill \in Int
  OBVIOUS
<1>4. a = [cash |-> b.cash + (Basis(pos, qty) + pnl),
           realized |-> b.realized + pnl,
           trades |-> b.trades + 1,
           longs |-> b.longs, shorts |-> [b.shorts EXCEPT ![s] = left]]
  BY DEF CoverShort, WithShort, Realize
<1>5. a \in Book
  BY <1>2, <1>3, <1>4 DEF Book
<1>6. ASSUME qty <= pos.qty
      PROVE  MovesThrough(s, b, a, 0)
  <2>1. \A t \in Symbols : b.longs[t].cost \in Int /\ b.shorts[t].cost \in Int
    BY DEF Book, Position
  <2>2. /\ a.cash - b.cash = Basis(pos, qty) + pnl
        /\ a.realized - b.realized = pnl
    BY <1>2, <1>3, <1>4 DEF Book
  <2>3. /\ a.shorts[s].cost = pos.cost - Basis(pos, qty)
        /\ a.longs = b.longs
        /\ \A t \in Symbols \ {s} : a.shorts[t] = b.shorts[t]
    BY <1>2, <1>4, <1>6 DEF Book
  <2> HIDE DEF a
  <2> QED
    BY <1>2, <1>3, <2>1, <2>2, <2>3 DEF MovesThrough
<1> QED
  BY <1>4, <1>5, <1>6 DEF Book

(* The book a is b with qty of its short on s bought back.                  *)
BoughtBack(b, a, s, qty) ==
  /\ a \in Book
  /\ a.longs = b.longs
  /\ \A t \in Symbols \ {s} : a.shorts[t] = b.shorts[t]
  /\ a.shorts[s] = Reduce(b.shorts[s], qty)

(* Covering a short leaves the book with that much bought back.             *)
LEMMA CoverShortBuysBack ==
  ASSUME NEW b \in Book, NEW s \in Symbols, Open(b.shorts[s]),
         NEW qty \in Nat, NEW fill \in Int, NEW fee \in Int
  PROVE  BoughtBack(b, CoverShort(b, s, qty, fill, fee), s, qty)
BY CoverShortEffect DEF BoughtBack

(* Paying changes cash alone.                                               *)
LEMMA PayType ==
  ASSUME NEW b \in Book, NEW amount \in Int
  PROVE  /\ Pay(b, amount) \in Book
         /\ Pay(b, amount).longs = b.longs
         /\ Pay(b, amount).shorts = b.shorts
         /\ Pay(b, amount).trades = b.trades
         /\ Pay(b, amount).realized = b.realized
         /\ Pay(b, amount).cash = b.cash - amount
BY DEF Pay, Book

(* Replacing a long position touches no other position.                     *)
LEMMA WithLongEffect ==
  ASSUME NEW b \in Book, NEW s \in Symbols, NEW pos \in Position
  PROVE  LET a == WithLong(b, s, pos)
         IN  /\ a \in Book
             /\ a.longs[s] = pos
             /\ \A t \in Symbols \ {s} : a.longs[t] = b.longs[t]
             /\ a.shorts = b.shorts
             /\ a.trades = b.trades
             /\ a.realized = b.realized
             /\ a.cash = b.cash
BY DEF WithLong, Book

(* Replacing a short position touches no other position.                    *)
LEMMA WithShortEffect ==
  ASSUME NEW b \in Book, NEW s \in Symbols, NEW pos \in Position
  PROVE  LET a == WithShort(b, s, pos)
         IN  /\ a \in Book
             /\ a.shorts[s] = pos
             /\ \A t \in Symbols \ {s} : a.shorts[t] = b.shorts[t]
             /\ a.longs = b.longs
             /\ a.trades = b.trades
             /\ a.realized = b.realized
             /\ a.cash = b.cash
BY DEF WithShort, Book

(* What an opening fill takes out of cash.                                  *)
Costs(amount, qty, fill, fee) == amount = qty * fill + fee

Bought(b, a, s, fill, fee, stop) ==
  /\ a \in Book
  /\ \A t \in Symbols \ {s} : a.longs[t] = b.longs[t]
  /\ a.shorts = b.shorts
  /\ a.longs[s].stop = stop
  /\ a.longs[s].last = IF Open(b.longs[s]) THEN b.longs[s].last ELSE fill
  /\ (~Open(b.longs[s]) => b.longs[s].cost = 0) => MovesThrough(s, b, a, fee)

SoldShort(b, a, s, fill, fee, stop) ==
  /\ a \in Book
  /\ \A t \in Symbols \ {s} : a.shorts[t] = b.shorts[t]
  /\ a.longs = b.longs
  /\ a.shorts[s].stop = stop
  /\ a.shorts[s].last = fill
  /\ b.shorts[s].cost = 0 => MovesThrough(s, b, a, fee)

(* Opening or adding to a long pays for it; the last price of a position    *)
(* that was already open stays.                                             *)
LEMMA BuyEffect ==
  ASSUME NEW b \in Book, NEW s \in Symbols, NEW qty \in Nat \ {0},
         NEW fill \in Int, NEW fee \in Int, NEW stop \in Int, NEW target \in Int,
         NEW amount \in Int, Costs(amount, qty, fill, fee)
  PROVE  Bought(b, OpenOrAddLong(Pay(b, amount), s, qty, fill, stop, target),
                s, fill, fee, stop)
<1> DEFINE paid == Pay(b, amount)
           pos == IF Open(b.longs[s])
                  THEN [qty |-> b.longs[s].qty + qty,
                        cost |-> b.longs[s].cost + qty * fill,
                        stop |-> stop, target |-> target, last |-> b.longs[s].last]
                  ELSE NewPosition(qty, fill, stop, target)
           a == WithLong(paid, s, pos)
<1>1. qty * fill \in Int
  OBVIOUS
<1>2. /\ paid \in Book /\ paid.longs = b.longs /\ paid.shorts = b.shorts
      /\ paid.realized = b.realized /\ paid.cash = b.cash - (qty * fill + fee)
  BY <1>1, PayType DEF Costs
<1>3. b.longs[s] \in Position
  BY DEF Book
<1>4. /\ pos \in Position /\ pos.stop = stop
      /\ pos.last = IF Open(b.longs[s]) THEN b.longs[s].last ELSE fill
      /\ pos.cost = IF Open(b.longs[s]) THEN b.longs[s].cost + qty * fill
                    ELSE qty * fill
  BY <1>1, <1>3 DEF Position, NewPosition
<1>5. OpenOrAddLong(paid, s, qty, fill, stop, target) = a
  BY <1>2 DEF OpenOrAddLong
<1>6. /\ a \in Book /\ a.longs[s] = pos /\ a.shorts = b.shorts
      /\ a.realized = b.realized /\ a.cash = b.cash - (qty * fill + fee)
      /\ \A t \in Symbols \ {s} : a.longs[t] = b.longs[t]
  <2> HIDE DEF pos, paid
  <2> QED
    BY <1>2, <1>4, WithLongEffect
<1>7. ASSUME ~Open(b.longs[s]) => b.longs[s].cost = 0
      PROVE  MovesThrough(s, b, a, fee)
  <2>1. /\ \A t \in Symbols : b.longs[t].cost \in Int /\ b.shorts[t].cost \in Int
        /\ b.cash \in Int /\ b.realized \in Int
    BY DEF Book, Position
  <2>2. a.longs[s].cost = b.longs[s].cost + qty * fill
    BY <1>1, <1>4, <1>6, <1>7, <2>1
  <2> HIDE DEF a
  <2> QED
    BY <1>1, <1>6, <2>1, <2>2 DEF MovesThrough
<1> HIDE DEF a, pos
<1> QED
  BY <1>4, <1>5, <1>6, <1>7 DEF Bought

(* A short sale holds the margin and pays the charge.                       *)
LEMMA SellShortEffect ==
  ASSUME NEW b \in Book, NEW s \in Symbols, NEW qty \in Nat \ {0},
         NEW fill \in Int, NEW fee \in Int, NEW stop \in Int, NEW target \in Int,
         NEW amount \in Int, Costs(amount, qty, fill, fee)
  PROVE  SoldShort(b, OpenShort(Pay(b, amount), s, qty, fill, stop, target),
                   s, fill, fee, stop)
<1> DEFINE paid == Pay(b, amount)
           pos == NewPosition(qty, fill, stop, target)
           a == WithShort(paid, s, pos)
<1>1. qty * fill \in Int
  OBVIOUS
<1>2. /\ paid \in Book /\ paid.longs = b.longs /\ paid.shorts = b.shorts
      /\ paid.realized = b.realized /\ paid.cash = b.cash - (qty * fill + fee)
  BY <1>1, PayType DEF Costs
<1>3. /\ pos \in Position /\ pos.stop = stop /\ pos.last = fill
      /\ pos.cost = qty * fill
  BY <1>1 DEF Position, NewPosition
<1>4. OpenShort(paid, s, qty, fill, stop, target) = a
  BY DEF OpenShort
<1>5. /\ a \in Book /\ a.shorts[s] = pos /\ a.longs = b.longs
      /\ a.realized = b.realized /\ a.cash = b.cash - (qty * fill + fee)
      /\ \A t \in Symbols \ {s} : a.shorts[t] = b.shorts[t]
  <2> HIDE DEF pos, paid
  <2> QED
    BY <1>2, <1>3, WithShortEffect
<1>6. ASSUME b.shorts[s].cost = 0
      PROVE  MovesThrough(s, b, a, fee)
  <2>1. /\ \A t \in Symbols : b.longs[t].cost \in Int /\ b.shorts[t].cost \in Int
        /\ b.cash \in Int /\ b.realized \in Int
    BY DEF Book, Position
  <2>2. a.shorts[s].cost = b.shorts[s].cost + qty * fill
    BY <1>1, <1>3, <1>5, <1>6, <2>1
  <2> HIDE DEF a
  <2> QED
    BY <1>1, <1>5, <2>1, <2>2 DEF MovesThrough
<1> HIDE DEF a, pos
<1> QED
  BY <1>3, <1>4, <1>5, <1>6 DEF SoldShort

-----------------------------------------------------------------------------
(* Automatic exits close all of a position or leave the book alone.         *)

(* A call that leaves the book alone moves no money.                        *)
LEMMA MovesNothing ==
  ASSUME NEW b \in Book, NEW s \in Symbols
  PROVE  MovesThrough(s, b, b, 0)
BY DEF MovesThrough, Book, Position

(* Two moves through the same symbol are one.                               *)
LEMMA MovesCompose ==
  ASSUME NEW b \in Book, NEW a \in Book, NEW c \in Book, NEW s \in Symbols,
         MovesThrough(s, b, a, 0), MovesThrough(s, a, c, 0)
  PROVE  MovesThrough(s, b, c, 0)
<1> DEFINE cost(d, t) == d.longs[t].cost + d.shorts[t].cost
<1>1. \A d \in Book : /\ d.cash \in Int /\ d.realized \in Int
                      /\ \A t \in Symbols : cost(d, t) \in Int
  BY DEF Book, Position
<1>2. /\ \A t \in Symbols \ {s} : cost(a, t) = cost(b, t)
      /\ a.cash - b.cash + cost(a, s) - cost(b, s) = a.realized - b.realized - 0
  BY DEF MovesThrough
<1>3. /\ \A t \in Symbols \ {s} : cost(c, t) = cost(a, t)
      /\ c.cash - a.cash + cost(c, s) - cost(a, s) = c.realized - a.realized - 0
  BY DEF MovesThrough
<1> HIDE DEF cost
<1>4. /\ \A t \in Symbols \ {s} : cost(c, t) = cost(b, t)
      /\ c.cash - b.cash + cost(c, s) - cost(b, s) = c.realized - b.realized - 0
  BY <1>1, <1>2, <1>3
<1> QED
  BY <1>4 DEF MovesThrough, cost

(* No share costs less than a tick: needed for every exit to release        *)
(* something.                                                               *)
Costly(b) ==
  \A s \in Symbols : /\ b.longs[s].cost >= b.longs[s].qty
                     /\ b.shorts[s].cost >= b.shorts[s].qty

Cost(b, s) == b.longs[s].cost + b.shorts[s].cost

(* The three things that may happen to the money of a symbol.               *)
TiesUp(s, b, a, fee) ==
  Cost(a, s) > Cost(b, s) /\ a.realized = b.realized /\ fee >= 0
Releases(s, b, a, fee) ==
  Cost(a, s) < Cost(b, s) /\ fee = 0
LeavesAlone(s, b, a, fee) ==
  Cost(a, s) = Cost(b, s) /\ a.realized = b.realized /\ fee = 0

(* A slippage below 100% leaves every fill a price.                         *)
SlippageBelowPrice == Exec.slippage_bps < 10000

(* Slippage below the whole price leaves a fill of a tick at least.         *)
LEMMA FillPositive ==
  ASSUME NEW price \in Nat \ {0}, NEW side, SlippageBelowPrice
  PROVE  ApplySlippage(price, side) >= 1
<1> DEFINE slip == (price * Exec.slippage_bps) \div 10000
<1>1. Exec.slippage_bps \in Nat /\ Exec.slippage_bps < 10000
  BY PaperBrokerAssumption DEF SlippageBelowPrice
<1>2. price * Exec.slippage_bps < price * 10000 /\ price * Exec.slippage_bps \in Nat
  BY <1>1
<1>3. slip \in Nat /\ slip < price
  BY <1>2
<1> QED
  BY <1>3 DEF ApplySlippage

(* No charge is negative.                                                   *)
LEMMA ChargesPositive ==
  ASSUME NEW side, NEW qty \in Nat, NEW price \in Nat, NEW cover
  PROVE  ComputeCharges(side, qty, price, cover) >= 0
<1>1. /\ Exec.brokerage \in Nat /\ Exec.min_brokerage \in Nat
      /\ Exec.stt_bps \in Nat /\ Exec.levy_bps \in Nat /\ Exec.stamp_bps \in Nat
  BY PaperBrokerAssumption
<1>2. qty * price \in Nat
  OBVIOUS
<1>3. /\ (qty * price) * Exec.stt_bps \in Nat
      /\ (qty * price) * Exec.levy_bps \in Nat
      /\ (qty * price) * Exec.stamp_bps \in Nat
  BY <1>1, <1>2
<1>4. /\ (qty * price) \div 1000 \in Nat
      /\ ((qty * price) * Exec.stt_bps) \div 10000 \in Nat
      /\ ((qty * price) * Exec.levy_bps) \div 10000 \in Nat
      /\ ((qty * price) * Exec.stamp_bps) \div 10000 \in Nat
  BY <1>2, <1>3
<1> QED
  BY <1>1, <1>4 DEF ComputeCharges

(* An exit releases something, and what stays is paid for all the same.     *)
LEMMA ReduceReleases ==
  ASSUME NEW pos \in Position, Open(pos), pos.cost >= pos.qty,
         NEW qty \in Nat \ {0}, qty <= pos.qty
  PROVE  /\ Reduce(pos, qty).cost < pos.cost
         /\ Reduce(pos, qty).cost >= Reduce(pos, qty).qty
<1> DEFINE n == pos.qty
           c == pos.cost
           part == (c * qty) \div n
<1>1. n \in Nat \ {0} /\ c \in Int /\ c >= n
  BY DEF Position, Open
<1>2. CASE qty = n
  BY <1>1, <1>2 DEF Reduce, Flat
<1>3. CASE qty < n
  <2>1. /\ Reduce(pos, qty).qty = n - qty
        /\ Reduce(pos, qty).cost = c - part
    BY <1>1, <1>3 DEF Reduce, Basis
  <2> HIDE DEF n, c
  <2>2. c * qty \in Int /\ part \in Int
    BY <1>1
  <2>3. n * part <= c * qty /\ c * qty < n * part + n
    BY <1>1, <2>2
  <2>4. c * qty >= n
    BY <1>1
  <2>5. part >= 1
    BY <1>1, <2>2, <2>3, <2>4
  <2>6. c * qty <= n * (c - n + qty)
    <3>1. (n - qty) * (c - n) >= 0
      BY <1>1, <1>3
    <3> QED
      BY <1>1, <3>1
  <2>7. part <= c - n + qty
    <3>1. n * part <= n * (c - n + qty)
      BY <1>1, <2>2, <2>3, <2>6
    <3> QED
      BY <1>1, <2>2, <3>1
  <2> HIDE DEF part
  <2> QED
    BY <1>1, <1>3, <2>1, <2>2, <2>5, <2>7 DEF n, c
<1> QED
  BY <1>1, <1>2, <1>3

(* An exit of a long at a reference price is a close of that long.          *)
LEMMA ExitLongEffect ==
  ASSUME NEW b \in Book, NEW s \in Symbols, Open(b.longs[s]),
         NEW qty \in Nat, qty <= b.longs[s].qty, NEW price \in Int
  PROVE  LET a == ExitLong(b, s, qty, price)
         IN  /\ a \in Book
             /\ a.trades = b.trades + 1
             /\ a.shorts = b.shorts
             /\ \A t \in Symbols \ {s} : a.longs[t] = b.longs[t]
             /\ a.longs[s] = Reduce(b.longs[s], qty)
             /\ MovesThrough(s, b, a, 0)
<1> DEFINE fill == ApplySlippage(price, "SELL")
           fee == ComputeCharges("SELL", qty, fill, FALSE)
<1>1. fill \in Int
  BY FillType
<1> HIDE DEF fill
<1>2. fee \in Int
  BY <1>1, ChargesType
<1> HIDE DEF fee
<1>3. ExitLong(b, s, qty, price) = CloseLong(b, s, qty, fill, fee)
  BY DEF ExitLong, fill, fee
<1> QED
  BY <1>1, <1>2, <1>3, CloseLongEffect

(* An exit of a short at a reference price is a cover.                      *)
LEMMA ExitShortEffect ==
  ASSUME NEW b \in Book, NEW s \in Symbols, Open(b.shorts[s]),
         NEW qty \in Nat, qty <= b.shorts[s].qty, NEW price \in Int
  PROVE  LET a == ExitShort(b, s, qty, price)
         IN  /\ a \in Book
             /\ a.trades = b.trades + 1
             /\ a.longs = b.longs
             /\ \A t \in Symbols \ {s} : a.shorts[t] = b.shorts[t]
             /\ a.shorts[s] = Reduce(b.shorts[s], qty)
             /\ MovesThrough(s, b, a, 0)
<1> DEFINE fill == ApplySlippage(price, "BUY")
           fee == ComputeCharges("BUY", qty, fill, TRUE)
<1>1. fill \in Int
  BY FillType
<1> HIDE DEF fill
<1>2. fee \in Int
  BY <1>1, ChargesType
<1> HIDE DEF fee
<1>3. ExitShort(b, s, qty, price) = CoverShort(b, s, qty, fill, fee)
  BY DEF ExitShort, fill, fee
<1> QED
  BY <1>1, <1>2, <1>3, CoverShortEffect

(* After the check of stop and target a long is gone or inside them.        *)
LEMMA MaybeExitLongEffect ==
  ASSUME NEW b \in Book, NEW s \in Symbols
  PROVE  LET a == MaybeExitLong(b, s)
         IN  /\ a \in Book
             /\ a.shorts = b.shorts
             /\ \A t \in Symbols \ {s} : a.longs[t] = b.longs[t]
             /\ MovesThrough(s, b, a, 0)
             /\ \/ /\ a = b
                   /\ Open(b.longs[s]) => b.longs[s].last > b.longs[s].stop
                \/ /\ Open(b.longs[s]) /\ ~Open(a.longs[s])
                   /\ a.longs[s].cost = 0
                   /\ a.trades = b.trades + 1
<1> DEFINE pos == b.longs[s]
           a == MaybeExitLong(b, s)
<1>1. pos \in Position
  BY DEF Book
<1>2. ASSUME NEW price \in Int, Open(pos), a = ExitLong(b, s, pos.qty, price)
      PROVE  /\ a \in Book /\ a.shorts = b.shorts
             /\ \A t \in Symbols \ {s} : a.longs[t] = b.longs[t]
             /\ MovesThrough(s, b, a, 0)
             /\ ~Open(a.longs[s]) /\ a.longs[s].cost = 0
             /\ a.trades = b.trades + 1
  <2>1. pos.qty \in Nat /\ pos.qty <= pos.qty
    BY <1>1 DEF Position
  <2>2. ~Open(Reduce(pos, pos.qty)) /\ Reduce(pos, pos.qty).cost = 0
    BY <1>1, <1>2, <2>1, ReduceEffect
  <2> HIDE DEF a
  <2> QED
    BY <1>2, <2>1, <2>2, ExitLongEffect
<1>3. CASE a = b /\ (Open(pos) => pos.last > pos.stop)
  BY <1>3, MovesNothing
<1>4. CASE Open(pos) /\ a = ExitLong(b, s, pos.qty, pos.stop)
  BY <1>1, <1>2, <1>4 DEF Position
<1>5. CASE Open(pos) /\ a = ExitLong(b, s, pos.qty, pos.target)
  BY <1>1, <1>2, <1>5 DEF Position
<1>6. \/ a = b /\ (Open(pos) => pos.last > pos.stop)
      \/ Open(pos) /\ a = ExitLong(b, s, pos.qty, pos.stop)
      \/ Open(pos) /\ a = ExitLong(b, s, pos.qty, pos.target)
  BY <1>1 DEF MaybeExitLong, Position
<1> QED
  BY <1>3, <1>4, <1>5, <1>6

(* The same for a short.                                                    *)
LEMMA MaybeExitShortEffect ==
  ASSUME NEW b \in Book, NEW s \in Symbols
  PROVE  LET a == MaybeExitShort(b, s)
         IN  /\ a \in Book
             /\ a.longs = b.longs
             /\ \A t \in Symbols \ {s} : a.shorts[t] = b.shorts[t]
             /\ MovesThrough(s, b, a, 0)
             /\ \/ /\ a = b
                   /\ Open(b.shorts[s]) => b.shorts[s].last < b.shorts[s].stop
                \/ /\ Open(b.shorts[s]) /\ ~Open(a.shorts[s])
                   /\ a.shorts[s].cost = 0
                   /\ a.trades = b.trades + 1
<1> DEFINE pos == b.shorts[s]
           a == MaybeExitShort(b, s)
<1>1. pos \in Position
  BY DEF Book
<1>2. ASSUME NEW price \in Int, Open(pos), a = ExitShort(b, s, pos.qty, price)
      PROVE  /\ a \in Book /\ a.longs = b.longs
             /\ \A t \in Symbols \ {s} : a.shorts[t] = b.shorts[t]
             /\ MovesThrough(s, b, a, 0)
             /\ ~Open(a.shorts[s]) /\ a.shorts[s].cost = 0
             /\ a.trades = b.trades + 1
  <2>1. pos.qty \in Nat /\ pos.qty <= pos.qty
    BY <1>1 DEF Position
  <2>2. ~Open(Reduce(pos, pos.qty)) /\ Reduce(pos, pos.qty).cost = 0
    BY <1>1, <1>2, <2>1, ReduceEffect
  <2> HIDE DEF a
  <2> QED
    BY <1>2, <2>1, <2>2, ExitShortEffect
<1>3. CASE a = b /\ (Open(pos) => pos.last < pos.stop)
  BY <1>3, MovesNothing
<1>4. CASE Open(pos) /\ a = ExitShort(b, s, pos.qty, pos.stop)
  BY <1>1, <1>2, <1>4 DEF Position
<1>5. CASE Open(pos) /\ a = ExitShort(b, s, pos.qty, pos.target)
  BY <1>1, <1>2, <1>5 DEF Position
<1>6. \/ a = b /\ (Open(pos) => pos.last < pos.stop)
      \/ Open(pos) /\ a = ExitShort(b, s, pos.qty, pos.stop)
      \/ Open(pos) /\ a = ExitShort(b, s, pos.qty, pos.target)
  BY <1>1 DEF MaybeExitShort, Position
<1> QED
  BY <1>3, <1>4, <1>5, <1>6

-----------------------------------------------------------------------------
(* The inductive invariant                                                  *)

(* A fresh broker satisfies the inductive invariant.                        *)
LEMMA InitIInv == Init => IInv
<1> SUFFICES ASSUME Init PROVE IInv
  OBVIOUS
<1>1. Flat \in Position /\ ~Open(Flat) /\ Flat.cost = 0
  BY DEF Flat, Position, Open, NoTarget
<1>2. /\ book \in Book
      /\ \A s \in Symbols : book.longs[s] = Flat /\ book.shorts[s] = Flat
  BY <1>1, PaperBrokerAssumption DEF Init, Book
<1>3. /\ saved \in Snapshot /\ saved.cash = book.cash
      /\ saved.realized = book.realized
      /\ saved.longs = book.longs /\ saved.shorts = book.shorts
  BY <1>2 DEF Init, SnapshotState, Snapshot, Book
<1>4. TypeOK
  BY <1>2, <1>3 DEF Init, TypeOK, NoPrice
<1>5. Sound(book, latestPrices)
  BY <1>1, <1>2 DEF Sound, OneSided, InsideStops, FlatIsFree, Tracks
<1>6. InsideStops(saved) /\ DurableBook
  BY <1>1, <1>2, <1>3 DEF InsideStops, DurableBook, Restorable
<1> QED
  BY <1>4, <1>5, <1>6 DEF IInv

(* Replacing one long, or one short, in a sound book.                       *)
LEMMA LongReplaced ==
  ASSUME NEW prices, NEW b, Sound(b, prices), NEW a \in Book, NEW s \in Symbols,
         a.shorts = b.shorts,
         \A t \in Symbols \ {s} : a.longs[t] = b.longs[t],
         Open(a.longs[s]) =>
           /\ ~Open(b.shorts[s])
           /\ a.longs[s].last > a.longs[s].stop
           /\ prices[s] # NoPrice => a.longs[s].last >= prices[s],
         ~Open(a.longs[s]) => a.longs[s].cost = 0
  PROVE  Sound(a, prices)
BY DEF Sound, OneSided, InsideStops, FlatIsFree, Tracks

(* The same for a short.                                                    *)
LEMMA ShortReplaced ==
  ASSUME NEW prices, NEW b, Sound(b, prices), NEW a \in Book, NEW s \in Symbols,
         a.longs = b.longs,
         \A t \in Symbols \ {s} : a.shorts[t] = b.shorts[t],
         Open(a.shorts[s]) =>
           /\ ~Open(b.longs[s])
           /\ a.shorts[s].last < a.shorts[s].stop
           /\ prices[s] # NoPrice => a.shorts[s].last <= prices[s],
         ~Open(a.shorts[s]) => a.shorts[s].cost = 0
  PROVE  Sound(a, prices)
BY DEF Sound, OneSided, InsideStops, FlatIsFree, Tracks

(* A fill that leaves a sound book keeps the invariant: what it saves is    *)
(* that book.                                                               *)
LEMMA FillKeepsIInv ==
  ASSUME IInv, NEW after, Sound(after, latestPrices), NEW fee \in Int,
         Fill(after, fee)
  PROVE  IInv'
<1>1. /\ book' = after /\ latestPrices' = latestPrices
      /\ saved' = SnapshotState(after)
      /\ entryFees' = entryFees + fee /\ orders' = orders + 1
  BY DEF Fill
<1>2. after \in Book
  BY DEF Sound
<1>3. /\ saved' \in Snapshot /\ saved'.cash = after.cash
      /\ saved'.realized = after.realized
      /\ saved'.longs = after.longs /\ saved'.shorts = after.shorts
  BY <1>1, <1>2 DEF SnapshotState, Snapshot, Book
<1>4. TypeOK'
  BY <1>1, <1>2, <1>3 DEF IInv, TypeOK
<1>5. Sound(book', latestPrices')
  BY <1>1
<1>6. InsideStops(saved')
  BY <1>3 DEF Sound, InsideStops
<1>7. Restorable(saved', book')
  BY <1>1, <1>3 DEF Restorable
<1> QED
  BY <1>4, <1>5, <1>6, <1>7 DEF IInv, DurableBook

(* The prices and quantities of an order are numbers.                       *)
LEMMA OrderInputs ==
  /\ \A qty \in Quantities : qty \in Nat \ {0}
  /\ \A price \in Prices \cup {NoPrice} : price \in Nat
  /\ NoTarget = NoPrice
  /\ TypeOK => \A s \in Symbols : latestPrices[s] \in Nat
<1>1. /\ \A qty \in Quantities : qty \in Nat \ {0}
      /\ \A price \in Prices \cup {NoPrice} : price \in Nat
  BY PaperBrokerAssumption DEF NoPrice
<1> QED
  BY <1>1 DEF TypeOK, NoTarget, NoPrice

(* Opening a long, or adding to it, keeps the inductive invariant.          *)
LEMMA BuyLongKeepsIInv ==
  ASSUME IInv, NEW s \in Symbols, NEW qty \in Quantities, NEW stop \in Prices,
         NEW target \in Prices \cup {NoTarget},
         LegalBuyExits(s, stop, target), BuyLong(s, qty, stop, target)
  PROVE  /\ IInv'
         /\ MovesThrough(s, book, book', entryFees' - entryFees)
<1> DEFINE fill == ApplySlippage(latestPrices[s], "BUY")
           fee == ComputeCharges("BUY", qty, fill, FALSE)
           amount == qty * fill + fee
           after == OpenOrAddLong(Pay(book, amount), s, qty, fill, stop, target)
<1>1. /\ qty \in Nat \ {0} /\ stop \in Int /\ target \in Int
      /\ latestPrices[s] \in Nat
      /\ book \in Book /\ entryFees \in Int
  BY OrderInputs DEF IInv, TypeOK
<1>2. fill \in Int /\ fill >= latestPrices[s]
  BY <1>1, FillType, FillBounds
<1>3. fee \in Int
  BY <1>1, <1>2, ChargesType
<1>4. ~Open(book.shorts[s]) /\ Fill(after, fee) /\ latestPrices[s] # NoPrice
  BY DEF BuyLong, Placing
<1>5. Open(book.longs[s]) => book.longs[s].last >= latestPrices[s]
  BY <1>4 DEF IInv, Sound, Tracks
<1>6. ~Open(book.longs[s]) => book.longs[s].cost = 0
  BY DEF IInv, Sound, FlatIsFree
<1>7. stop < latestPrices[s]
  BY DEF LegalBuyExits
<1> HIDE DEF fill, fee
<1>8. amount \in Int /\ Costs(amount, qty, fill, fee)
  BY <1>1, <1>2, <1>3 DEF Costs
<1> HIDE DEF amount
<1>9. Bought(book, after, s, fill, fee, stop)
  BY <1>1, <1>2, <1>3, <1>8, BuyEffect
<1>10. Open(after.longs[s])
  <2> USE <1>1 DEF OpenOrAddLong, WithLong, NewPosition, Open, Book, Position, Pay
  <2>1. book.longs[s].qty \in Nat
    OBVIOUS
  <2> QED
    BY <2>1
<1> HIDE DEF after
<1>11. /\ after.longs[s].last > after.longs[s].stop
       /\ after.longs[s].last >= latestPrices[s]
  <2>1. after.longs[s].last \in Int
    BY <1>9 DEF Bought, Book, Position
  <2> QED
    BY <2>1, <1>1, <1>2, <1>5, <1>7, <1>9 DEF Bought
<1>12. Sound(after, latestPrices)
  BY <1>4, <1>9, <1>10, <1>11, LongReplaced DEF IInv, Bought
<1>13. book' = after /\ entryFees' - entryFees = fee
  BY <1>1, <1>3, <1>4 DEF Fill
<1> QED
  BY <1>3, <1>4, <1>6, <1>9, <1>12, <1>13, FillKeepsIInv DEF Bought

(* What is left of a long, or a short, after an exit leaves the book sound. *)
LEMMA LongReduced ==
  ASSUME NEW prices, NEW b, Sound(b, prices), NEW a \in Book, NEW s \in Symbols,
         NEW qty \in Nat, Open(b.longs[s]), qty <= b.longs[s].qty,
         a.shorts = b.shorts,
         \A t \in Symbols \ {s} : a.longs[t] = b.longs[t],
         a.longs[s] = Reduce(b.longs[s], qty)
  PROVE  Sound(a, prices)
<1>1. b.longs[s] \in Position
  BY DEF Sound, Book
<1>2. /\ ~Open(a.longs[s]) => a.longs[s].cost = 0
      /\ Open(a.longs[s]) => /\ a.longs[s].last = b.longs[s].last
                             /\ a.longs[s].stop = b.longs[s].stop
  BY <1>1 DEF Reduce, Flat, Open, Position
<1> QED
  BY <1>2, LongReplaced DEF Sound, OneSided, InsideStops, Tracks

(* The same for a short.                                                    *)
LEMMA ShortReduced ==
  ASSUME NEW prices, NEW b, Sound(b, prices), NEW a \in Book, NEW s \in Symbols,
         NEW qty \in Nat, Open(b.shorts[s]),
         a.longs = b.longs,
         \A t \in Symbols \ {s} : a.shorts[t] = b.shorts[t],
         a.shorts[s] = Reduce(b.shorts[s], qty)
  PROVE  Sound(a, prices)
<1>1. b.shorts[s] \in Position
  BY DEF Sound, Book
<1>2. /\ ~Open(a.shorts[s]) => a.shorts[s].cost = 0
      /\ Open(a.shorts[s]) => /\ a.shorts[s].last = b.shorts[s].last
                              /\ a.shorts[s].stop = b.shorts[s].stop
  BY <1>1 DEF Reduce, Flat, Open, Position
<1> QED
  BY <1>2, ShortReplaced DEF Sound, OneSided, InsideStops, Tracks

(* Closing a long by an order keeps the inductive invariant.                *)
LEMMA SellLongKeepsIInv ==
  ASSUME IInv, NEW s \in Symbols, NEW qty \in Quantities, SellLong(s, qty)
  PROVE  /\ IInv'
         /\ MovesThrough(s, book, book', entryFees' - entryFees)
<1> DEFINE fill == ApplySlippage(latestPrices[s], "SELL")
           fee == ComputeCharges("SELL", qty, fill, FALSE)
           after == CloseLong(book, s, qty, fill, fee)
<1>1. /\ qty \in Nat /\ latestPrices[s] \in Nat
      /\ book \in Book /\ entryFees \in Int
  BY OrderInputs DEF IInv, TypeOK
<1>2. fill \in Int
  BY <1>1, FillType
<1>3. fee \in Int
  BY <1>1, <1>2, ChargesType
<1>4. Open(book.longs[s]) /\ qty <= book.longs[s].qty /\ Fill(after, 0)
  BY DEF SellLong
<1> HIDE DEF fill, fee
<1>5. /\ after \in Book /\ after.shorts = book.shorts
      /\ \A t \in Symbols \ {s} : after.longs[t] = book.longs[t]
      /\ after.longs[s] = Reduce(book.longs[s], qty)
      /\ MovesThrough(s, book, after, 0)
  BY <1>1, <1>2, <1>3, <1>4, CloseLongEffect
<1> HIDE DEF after
<1>6. Sound(after, latestPrices)
  BY <1>1, <1>4, <1>5, LongReduced DEF IInv
<1>7. book' = after /\ entryFees' - entryFees = 0
  BY <1>1, <1>4 DEF Fill
<1> QED
  BY <1>4, <1>5, <1>6, <1>7, FillKeepsIInv

(* A SELL on an open short replaces it: the invariant holds all the same,   *)
(* but only a first short sale moves its money in full.                     *)
LEMMA SellShortKeepsIInv ==
  ASSUME IInv, NEW s \in Symbols, NEW qty \in Quantities, NEW stop \in Prices,
         NEW target \in Prices \cup {NoTarget},
         LegalShortExits(s, stop, target), SellShort(s, qty, stop, target)
  PROVE  /\ IInv'
         /\ "reshort" \notin Intents
              => MovesThrough(s, book, book', entryFees' - entryFees)
<1> DEFINE fill == ApplySlippage(latestPrices[s], "SELL")
           fee == ComputeCharges("SELL", qty, fill, FALSE)
           amount == qty * fill + fee
           after == OpenShort(Pay(book, amount), s, qty, fill, stop, target)
<1>1. /\ qty \in Nat \ {0} /\ stop \in Int /\ target \in Int
      /\ latestPrices[s] \in Nat
      /\ book \in Book /\ entryFees \in Int
  BY OrderInputs DEF IInv, TypeOK
<1>2. fill \in Int /\ fill <= latestPrices[s]
  BY <1>1, FillType, FillBounds
<1>3. fee \in Int
  BY <1>1, <1>2, ChargesType
<1>4. /\ ~Open(book.longs[s]) /\ Fill(after, fee)
      /\ "reshort" \notin Intents => ~Open(book.shorts[s])
  BY DEF SellShort, Placing
<1>5. ~Open(book.shorts[s]) => book.shorts[s].cost = 0
  BY DEF IInv, Sound, FlatIsFree
<1>6. stop > latestPrices[s]
  BY DEF LegalShortExits
<1> HIDE DEF fill, fee
<1>7. amount \in Int /\ Costs(amount, qty, fill, fee)
  BY <1>1, <1>2, <1>3 DEF Costs
<1> HIDE DEF amount
<1>8. SoldShort(book, after, s, fill, fee, stop)
  BY <1>1, <1>2, <1>3, <1>7, SellShortEffect
<1>9. Open(after.shorts[s])
  BY <1>1 DEF OpenShort, WithShort, NewPosition, Open, Book, Pay
<1> HIDE DEF after
<1>10. /\ after.shorts[s].last < after.shorts[s].stop
       /\ after.shorts[s].last <= latestPrices[s]
  BY <1>1, <1>2, <1>6, <1>8 DEF SoldShort
<1>11. Sound(after, latestPrices)
  BY <1>4, <1>8, <1>9, <1>10, ShortReplaced DEF IInv, SoldShort
<1>12. book' = after /\ entryFees' - entryFees = fee
  BY <1>1, <1>3, <1>4 DEF Fill
<1> QED
  BY <1>3, <1>4, <1>5, <1>8, <1>11, <1>12, FillKeepsIInv DEF SoldShort

(* A manual cover pays the purchase twice; the invariant does not mind, the *)
(* ledger does.                                                             *)
LEMMA BuyToCoverKeepsIInv ==
  ASSUME IInv, NEW s \in Symbols, NEW qty \in Quantities, BuyToCover(s, qty)
  PROVE  IInv' /\ "cover" \in Intents
<1> DEFINE fill == ApplySlippage(latestPrices[s], "BUY")
           fee == ComputeCharges("BUY", qty, fill, TRUE)
           amount == qty * fill + fee
           covered == CoverShort(book, s, qty, fill, fee)
           after == Pay(covered, amount)
<1>1. /\ qty \in Nat /\ latestPrices[s] \in Nat /\ book \in Book
  BY OrderInputs DEF IInv, TypeOK
<1>2. fill \in Int
  BY <1>1, FillType
<1>3. fee \in Int
  BY <1>1, <1>2, ChargesType
<1>4. Fill(after, 0) /\ "cover" \in Intents
  BY DEF BuyToCover, Placing
<1>5. Open(book.shorts[s])
  BY DEF BuyToCover
<1> HIDE DEF fill, fee
<1>6. amount \in Int
  BY <1>1, <1>2, <1>3
<1>7. /\ covered \in Book /\ covered.longs = book.longs
      /\ \A t \in Symbols \ {s} : covered.shorts[t] = book.shorts[t]
      /\ covered.shorts[s] = Reduce(book.shorts[s], qty)
  <2>1. BoughtBack(book, covered, s, qty)
    BY ONLY s \in Symbols, <1>1, <1>2, <1>3, <1>5, CoverShortBuysBack
  <2> QED
    BY ONLY <2>1 DEF BoughtBack
<1> HIDE DEF amount, covered
<1>8. /\ after \in Book /\ after.longs = covered.longs
      /\ after.shorts = covered.shorts
  BY <1>6, <1>7, PayType
<1> HIDE DEF after
<1>9. Sound(after, latestPrices)
  BY <1>1, <1>5, <1>7, <1>8, ShortReduced DEF IInv
<1> QED
  BY <1>4, <1>9, FillKeepsIInv

(* Booking part of a position keeps the inductive invariant.                *)
LEMMA PartialExitKeepsIInv ==
  ASSUME IInv, NEW s \in Symbols, NEW qty \in Quantities, NEW price \in Prices,
         PartialExit(s, qty, price)
  PROVE  /\ IInv'
         /\ MovesThrough(s, book, book', entryFees' - entryFees)
<1> DEFINE least(a, b) == IF a < b THEN a ELSE b
           long == book.longs[s]
           short == book.shorts[s]
<1>1. /\ qty \in Nat /\ price \in Int /\ book \in Book /\ entryFees \in Int
      /\ long \in Position /\ short \in Position
  BY OrderInputs DEF IInv, TypeOK, Book
<1>2. ASSUME NEW after, Fill(after, 0), Sound(after, latestPrices),
             MovesThrough(s, book, after, 0)
      PROVE  IInv' /\ MovesThrough(s, book, book', entryFees' - entryFees)
  <2>1. book' = after /\ entryFees' - entryFees = 0
    BY <1>1, <1>2 DEF Fill
  <2> QED
    BY <1>2, <2>1, FillKeepsIInv
<1>3. CASE Open(long) /\ Fill(ExitLong(book, s, least(qty, long.qty), price), 0)
  <2> DEFINE part == least(qty, long.qty)
             after == ExitLong(book, s, part, price)
  <2>1. part \in Nat /\ part <= long.qty
    BY <1>1 DEF Position
  <2> HIDE DEF part
  <2>2. /\ after \in Book /\ after.shorts = book.shorts
        /\ \A t \in Symbols \ {s} : after.longs[t] = book.longs[t]
        /\ after.longs[s] = Reduce(book.longs[s], part)
        /\ MovesThrough(s, book, after, 0)
    BY <1>1, <1>3, <2>1, ExitLongEffect
  <2>3. Fill(after, 0)
    BY <1>3 DEF part
  <2> HIDE DEF after
  <2>4. Sound(after, latestPrices)
    BY <1>3, <2>1, <2>2, LongReduced DEF IInv
  <2> QED
    BY <1>2, <2>2, <2>3, <2>4
<1>4. CASE Open(short) /\ Fill(ExitShort(book, s, least(qty, short.qty), price), 0)
  <2> DEFINE part == least(qty, short.qty)
             after == ExitShort(book, s, part, price)
  <2>1. part \in Nat /\ part <= short.qty
    BY <1>1 DEF Position
  <2> HIDE DEF part
  <2>2. /\ after \in Book /\ after.longs = book.longs
        /\ \A t \in Symbols \ {s} : after.shorts[t] = book.shorts[t]
        /\ after.shorts[s] = Reduce(book.shorts[s], part)
        /\ MovesThrough(s, book, after, 0)
    BY <1>1, <1>4, <2>1, ExitShortEffect
  <2>3. Fill(after, 0)
    BY <1>4 DEF part
  <2> HIDE DEF after
  <2>4. Sound(after, latestPrices)
    BY <1>4, <2>1, <2>2, ShortReduced DEF IInv
  <2> QED
    BY <1>2, <2>2, <2>3, <2>4
<1> QED
  BY <1>3, <1>4 DEF PartialExit

(* Marking changes nothing but the last price of the symbol's positions.    *)
LEMMA MarkEffect ==
  ASSUME NEW b \in Book, NEW s \in Symbols, NEW px \in Int
  PROVE  LET m == MarkToMarket(b, s, px)
         IN  /\ m \in Book
             /\ m.cash = b.cash /\ m.realized = b.realized
             /\ m.trades = b.trades
             /\ \A t \in Symbols \ {s} :
                  m.longs[t] = b.longs[t] /\ m.shorts[t] = b.shorts[t]
             /\ m.longs[s] = IF Open(b.longs[s])
                             THEN [b.longs[s] EXCEPT !.last = px]
                             ELSE b.longs[s]
             /\ m.shorts[s] = IF Open(b.shorts[s])
                              THEN [b.shorts[s] EXCEPT !.last = px]
                              ELSE b.shorts[s]
<1> DEFINE mark(pos) == IF Open(pos) THEN [pos EXCEPT !.last = px] ELSE pos
           long == mark(b.longs[s])
           short == mark(b.shorts[s])
           first == WithLong(b, s, long)
<1>1. long \in Position /\ short \in Position
  BY DEF Book, Position
<1>2. MarkToMarket(b, s, px) = WithShort(first, s, short)
  BY DEF MarkToMarket
<1> HIDE DEF long, short
<1>3. /\ first \in Book /\ first.cash = b.cash /\ first.realized = b.realized
      /\ first.trades = b.trades /\ first.shorts = b.shorts
      /\ first.longs[s] = long
      /\ \A t \in Symbols \ {s} : first.longs[t] = b.longs[t]
  BY <1>1, WithLongEffect
<1> HIDE DEF first
<1> DEFINE m == WithShort(first, s, short)
<1>4. /\ m \in Book /\ m.cash = b.cash /\ m.realized = b.realized
      /\ m.trades = b.trades /\ m.longs = first.longs
      /\ m.shorts[s] = short
      /\ \A t \in Symbols \ {s} : m.shorts[t] = b.shorts[t]
  BY <1>1, <1>3, WithShortEffect
<1> HIDE DEF m
<1> QED
  BY <1>2, <1>3, <1>4 DEF long, short, m

(* A tick: once the exits have run, a position of the symbol that is still  *)
(* open is inside its stop, and a book that no exit touched differs from    *)
(* the one before in last prices only.                                      *)
LEMMA TickEffect ==
  ASSUME NEW s \in Symbols, NEW px \in Prices,
         Sound(book, latestPrices), latestPrices \in [Symbols -> Prices \cup {NoPrice}]
  PROVE  LET marked == MarkToMarket(book, s, px)
             after  == MaybeExitShort(MaybeExitLong(marked, s), s)
         IN  /\ Sound(after, [latestPrices EXCEPT ![s] = px])
             /\ MovesThrough(s, book, after, 0)
             /\ marked \in Book
             /\ after.trades = marked.trades => after = marked
             /\ \A snapshot : Restorable(snapshot, book) => Restorable(snapshot, marked)
             /\ Costly(book) =>
                  /\ Costly(after)
                  /\ Releases(s, book, after, 0) \/ LeavesAlone(s, book, after, 0)
<1> DEFINE marked == MarkToMarket(book, s, px)
           first == MaybeExitLong(marked, s)
           after == MaybeExitShort(first, s)
           prices == [latestPrices EXCEPT ![s] = px]
<1>1. /\ book \in Book /\ px \in Int
      /\ \A t \in Symbols : book.longs[t] \in Position /\ book.shorts[t] \in Position
  BY PaperBrokerAssumption DEF Sound, Book
<1>2. /\ marked \in Book
      /\ marked.cash = book.cash /\ marked.realized = book.realized
      /\ marked.trades = book.trades
      /\ \A t \in Symbols \ {s} : /\ marked.longs[t] = book.longs[t]
                                  /\ marked.shorts[t] = book.shorts[t]
      /\ marked.longs[s] = IF Open(book.longs[s])
                           THEN [book.longs[s] EXCEPT !.last = px]
                           ELSE book.longs[s]
      /\ marked.shorts[s] = IF Open(book.shorts[s])
                            THEN [book.shorts[s] EXCEPT !.last = px]
                            ELSE book.shorts[s]
  BY <1>1, MarkEffect
<1> HIDE DEF marked
<1>3. \A t \in Symbols :
        /\ marked.longs[t].qty = book.longs[t].qty
        /\ marked.longs[t].cost = book.longs[t].cost
        /\ marked.shorts[t].qty = book.shorts[t].qty
        /\ marked.shorts[t].cost = book.shorts[t].cost
        /\ Unmarked(marked.longs[t]) = Unmarked(book.longs[t])
        /\ Unmarked(marked.shorts[t]) = Unmarked(book.shorts[t])
  <2> SUFFICES ASSUME NEW t \in Symbols
               PROVE  /\ marked.longs[t].qty = book.longs[t].qty
                      /\ marked.longs[t].cost = book.longs[t].cost
                      /\ marked.shorts[t].qty = book.shorts[t].qty
                      /\ marked.shorts[t].cost = book.shorts[t].cost
                      /\ Unmarked(marked.longs[t]) = Unmarked(book.longs[t])
                      /\ Unmarked(marked.shorts[t]) = Unmarked(book.shorts[t])
    OBVIOUS
  <2>1. CASE t # s
    BY <1>2, <2>1
  <2>2. CASE t = s
    BY <1>1, <1>2, <2>2 DEF Unmarked, Position
  <2> QED
    BY <2>1, <2>2
<1>4. /\ Open(marked.longs[s]) => marked.longs[s].last = px
      /\ Open(marked.shorts[s]) => marked.shorts[s].last = px
  BY <1>1, <1>2 DEF Open, Position
<1>5. MovesThrough(s, book, marked, 0)
  BY <1>1, <1>2, <1>3 DEF MovesThrough, Book, Position
<1>6. /\ first \in Book /\ first.shorts = marked.shorts
      /\ \A t \in Symbols \ {s} : first.longs[t] = marked.longs[t]
      /\ MovesThrough(s, marked, first, 0)
      /\ \/ /\ first = marked
            /\ Open(marked.longs[s]) => marked.longs[s].last > marked.longs[s].stop
         \/ /\ Open(marked.longs[s]) /\ ~Open(first.longs[s])
            /\ first.longs[s].cost = 0
            /\ first.trades = marked.trades + 1
  BY <1>2, MaybeExitLongEffect
<1> HIDE DEF first
<1>7. /\ after \in Book /\ after.longs = first.longs
      /\ \A t \in Symbols \ {s} : after.shorts[t] = first.shorts[t]
      /\ MovesThrough(s, first, after, 0)
      /\ \/ /\ after = first
            /\ Open(first.shorts[s]) => first.shorts[s].last < first.shorts[s].stop
         \/ /\ Open(first.shorts[s]) /\ ~Open(after.shorts[s])
            /\ after.shorts[s].cost = 0
            /\ after.trades = first.trades + 1
  BY <1>6, MaybeExitShortEffect
<1> HIDE DEF after
<1>8. MovesThrough(s, book, after, 0)
  <2>1. MovesThrough(s, book, first, 0)
    BY <1>1, <1>2, <1>5, <1>6, MovesCompose
  <2> QED
    BY <1>1, <1>6, <1>7, <2>1, MovesCompose
<1>9. after.trades = marked.trades => after = marked
  <2>1. marked.trades \in Nat
    BY <1>2 DEF Book
  <2> QED
    BY <1>6, <1>7, <2>1
<1>10. /\ OneSided(after) /\ FlatIsFree(after)
  BY <1>2, <1>3, <1>6, <1>7 DEF Sound, OneSided, FlatIsFree, Open
<1>11. InsideStops(after)
  <2>1. /\ Open(after.longs[s]) => after.longs[s].last > after.longs[s].stop
        /\ Open(after.shorts[s]) => after.shorts[s].last < after.shorts[s].stop
    BY <1>6, <1>7
  <2>2. \A t \in Symbols \ {s} : /\ after.longs[t] = book.longs[t]
                                 /\ after.shorts[t] = book.shorts[t]
    BY <1>2, <1>6, <1>7
  <2>3. InsideStops(book)
    BY DEF Sound
  <2> QED
    BY <2>1, <2>2, <2>3 DEF InsideStops
<1>12. Tracks(after, prices)
  <2>1. px \in Int /\ prices[s] = px /\ \A t \in Symbols \ {s} : prices[t] = latestPrices[t]
    BY <1>1
  <2>2. /\ Open(after.longs[s]) => after.longs[s].last >= px
        /\ Open(after.shorts[s]) => after.shorts[s].last <= px
    BY <1>1, <1>4, <1>6, <1>7
  <2>3. \A t \in Symbols \ {s} : /\ after.longs[t] = book.longs[t]
                                 /\ after.shorts[t] = book.shorts[t]
    BY <1>2, <1>6, <1>7
  <2> HIDE DEF prices
  <2> QED
    BY <2>1, <2>2, <2>3 DEF Sound, Tracks
<1>13. \A snapshot : Restorable(snapshot, book) => Restorable(snapshot, marked)
  BY <1>2, <1>3 DEF Restorable
<1>14. ASSUME Costly(book)
       PROVE  /\ Costly(after)
              /\ Releases(s, book, after, 0) \/ LeavesAlone(s, book, after, 0)
  <2>1. /\ \A b \in {book, marked, first, after}, t \in Symbols :
             /\ b.longs[t].cost \in Int /\ b.longs[t].qty \in Nat
             /\ b.shorts[t].cost \in Int /\ b.shorts[t].qty \in Nat
    BY <1>1, <1>2, <1>6, <1>7 DEF Book, Position
  <2>2. Costly(marked) /\ Cost(marked, s) = Cost(book, s)
    BY <1>3, <1>14 DEF Costly, Cost
  <2>3. Costly(first) /\ (first = marked \/ Cost(first, s) < Cost(marked, s))
    BY <1>6, <2>1, <2>2 DEF Costly, Cost, Open
  <2>4. Costly(after) /\ (after = first \/ Cost(after, s) < Cost(first, s))
    BY <1>7, <2>1, <2>3 DEF Costly, Cost, Open
  <2>5. Cost(book, s) \in Int /\ Cost(first, s) \in Int /\ Cost(after, s) \in Int
    BY <2>1 DEF Cost
  <2> QED
    BY <1>2, <2>2, <2>3, <2>4, <2>5 DEF Releases, LeavesAlone
<1> QED
  BY <1>2, <1>7, <1>8, <1>9, <1>10, <1>11, <1>12, <1>13, <1>14
     DEF Sound, marked, first, after

(* A snapshot restores the book it was taken of.                            *)
LEMMA SnapshotEffect ==
  ASSUME NEW b \in Book
  PROVE  /\ SnapshotState(b) \in Snapshot
         /\ Restorable(SnapshotState(b), b)
         /\ InsideStops(b) => InsideStops(SnapshotState(b))
BY DEF SnapshotState, Snapshot, Book, Restorable, InsideStops

(* A tick, with the exits it causes, keeps the inductive invariant.         *)
LEMMA UpdateMarketPricesKeepsIInv ==
  ASSUME IInv, NEW s \in Symbols, NEW px \in Prices, UpdateMarketPrices(s, px)
  PROVE  /\ IInv'
         /\ MovesThrough(s, book, book', entryFees' - entryFees)
<1> DEFINE marked == MarkToMarket(book, s, px)
           after  == MaybeExitShort(MaybeExitLong(marked, s), s)
           prices == [latestPrices EXCEPT ![s] = px]
<1>1. /\ Sound(book, latestPrices) /\ entryFees \in Int
      /\ latestPrices \in [Symbols -> Prices \cup {NoPrice}]
      /\ Restorable(saved, book) /\ InsideStops(saved) /\ saved \in Snapshot
      /\ orders \in Nat
  BY DEF IInv, TypeOK, DurableBook
<1>2. /\ Sound(after, prices)
      /\ MovesThrough(s, book, after, 0)
      /\ after.trades = marked.trades => after = marked
      /\ Restorable(saved, marked)
  BY <1>1, TickEffect
<1>3. /\ latestPrices' = prices /\ book' = after
      /\ saved' = IF after.trades = marked.trades
                  THEN saved ELSE SnapshotState(after)
      /\ entryFees' = entryFees /\ orders' = orders
  BY DEF UpdateMarketPrices
<1> HIDE DEF after, marked
<1>4. after \in Book /\ InsideStops(after)
  BY <1>2 DEF Sound
<1>5. saved' \in Snapshot /\ Restorable(saved', after) /\ InsideStops(saved')
  BY <1>1, <1>2, <1>3, <1>4, SnapshotEffect
<1>6. prices \in [Symbols -> Prices \cup {NoPrice}]
  BY <1>1
<1>7. TypeOK'
  BY <1>1, <1>3, <1>4, <1>5, <1>6 DEF TypeOK
<1>8. DurableBook'
  BY <1>3, <1>5 DEF DurableBook
<1>9. Sound(book', latestPrices')
  BY <1>2, <1>3
<1>10. entryFees' - entryFees = 0
  BY <1>1, <1>3
<1> QED
  BY <1>2, <1>3, <1>5, <1>7, <1>8, <1>9, <1>10 DEF IInv

(* A restart may lose last prices and the trade log, and no money: this is  *)
(* where DurableBook is needed, and why IInv says that the saved positions, *)
(* too, are inside their stops.                                             *)
LEMMA RestartKeepsIInv ==
  ASSUME IInv, Restart
  PROVE  /\ IInv'
         /\ \A s \in Symbols : MovesThrough(s, book, book', entryFees' - entryFees)
<1> DEFINE after == RestoreState(saved)
<1>1. /\ book \in Book /\ saved \in Snapshot /\ entryFees \in Int /\ orders \in Nat
      /\ Sound(book, latestPrices) /\ Restorable(saved, book) /\ InsideStops(saved)
  BY DEF IInv, TypeOK, DurableBook
<1>2. /\ book' = after /\ latestPrices' = [s \in Symbols |-> NoPrice]
      /\ saved' = saved /\ entryFees' = entryFees /\ orders' = orders
  BY DEF Restart
<1>3. /\ after \in Book /\ after.cash = saved.cash
      /\ after.realized = saved.realized
      /\ after.longs = saved.longs /\ after.shorts = saved.shorts
  BY <1>1 DEF RestoreState, Book, Snapshot
<1> HIDE DEF after
<1>4. ASSUME NEW p \in Position, NEW q \in Position, Unmarked(p) = Unmarked(q)
      PROVE  p.qty = q.qty /\ p.cost = q.cost
  <2>1. \A r \in Position : Unmarked(r).qty = r.qty /\ Unmarked(r).cost = r.cost
    BY DEF Unmarked, Position
  <2> QED
    BY <1>4, <2>1
<1>5. \A t \in Symbols : /\ after.longs[t].qty = book.longs[t].qty
                         /\ after.longs[t].cost = book.longs[t].cost
                         /\ after.shorts[t].qty = book.shorts[t].qty
                         /\ after.shorts[t].cost = book.shorts[t].cost
  BY <1>1, <1>3, <1>4 DEF Restorable, Book
<1>6. \A s \in Symbols : MovesThrough(s, book, after, 0)
  <2>1. /\ \A t \in Symbols : /\ book.longs[t].cost \in Int
                              /\ book.shorts[t].cost \in Int
        /\ book.cash \in Int /\ book.realized \in Int
    BY <1>1 DEF Book, Position
  <2>2. after.cash = book.cash /\ after.realized = book.realized
    BY <1>1, <1>3 DEF Restorable
  <2> QED
    BY <1>5, <2>1, <2>2 DEF MovesThrough
<1>7. OneSided(after) /\ FlatIsFree(after) /\ InsideStops(after)
  <2>1. OneSided(after) /\ FlatIsFree(after)
    BY <1>1, <1>5 DEF Sound, OneSided, FlatIsFree, Open
  <2>2. InsideStops(after)
    BY <1>1, <1>3 DEF InsideStops
  <2> QED
    BY <2>1, <2>2
<1>8. Tracks(after, latestPrices')
  BY <1>2 DEF Tracks
<1>9. Restorable(saved', after)
  BY <1>2, <1>3 DEF Restorable
<1>10. latestPrices' \in [Symbols -> Prices \cup {NoPrice}]
  BY <1>2
<1>11. TypeOK'
  BY <1>1, <1>2, <1>3, <1>10 DEF TypeOK
<1>12. Sound(book', latestPrices') /\ DurableBook'
  BY <1>2, <1>3, <1>7, <1>8, <1>9 DEF Sound, DurableBook
<1>13. entryFees' - entryFees = 0
  BY <1>1, <1>2
<1> QED
  BY <1>1, <1>2, <1>6, <1>11, <1>12, <1>13 DEF IInv

-----------------------------------------------------------------------------
(* The steps together                                                       *)

(* What the callers must not ask for, if every call is to conserve money.   *)
Conserving == {"reshort", "cover"} \cap Intents = {}

(* Every call of the broker keeps the invariant, and moves the money of one *)
(* symbol unless it is a manual cover or a second short sale.               *)
LEMMA NextStep ==
  ASSUME IInv, Next
  PROVE  /\ IInv'
         /\ Conserving =>
              \E s \in Symbols : MovesThrough(s, book, book', entryFees' - entryFees)
<1>1. ASSUME NEW s \in Symbols, NEW px \in Prices, UpdateMarketPrices(s, px)
      PROVE  IInv' /\ MovesThrough(s, book, book', entryFees' - entryFees)
  BY <1>1, UpdateMarketPricesKeepsIInv
<1>2. ASSUME NEW s \in Symbols, NEW qty \in Quantities, NEW stop \in Prices,
             NEW target \in Prices \cup {NoTarget},
             LegalBuyExits(s, stop, target), BuyLong(s, qty, stop, target)
      PROVE  IInv' /\ MovesThrough(s, book, book', entryFees' - entryFees)
  BY <1>2, BuyLongKeepsIInv
<1>3. ASSUME NEW s \in Symbols, NEW qty \in Quantities, NEW stop \in Prices,
             NEW target \in Prices \cup {NoTarget},
             LegalShortExits(s, stop, target), SellShort(s, qty, stop, target)
      PROVE  /\ IInv'
             /\ Conserving
                  => MovesThrough(s, book, book', entryFees' - entryFees)
  BY <1>3, SellShortKeepsIInv DEF Conserving
<1>4. ASSUME NEW s \in Symbols, NEW qty \in Quantities, BuyToCover(s, qty)
      PROVE  IInv' /\ ~Conserving
  BY <1>4, BuyToCoverKeepsIInv DEF Conserving
<1>5. ASSUME NEW s \in Symbols, NEW qty \in Quantities, SellLong(s, qty)
      PROVE  IInv' /\ MovesThrough(s, book, book', entryFees' - entryFees)
  BY <1>5, SellLongKeepsIInv
<1>6. ASSUME NEW s \in Symbols, NEW qty \in Quantities, NEW price \in Prices,
             PartialExit(s, qty, price)
      PROVE  IInv' /\ MovesThrough(s, book, book', entryFees' - entryFees)
  BY <1>6, PartialExitKeepsIInv
<1>7. ASSUME Restart
      PROVE  /\ IInv'
             /\ \E s \in Symbols :
                  MovesThrough(s, book, book', entryFees' - entryFees)
  BY <1>7, RestartKeepsIInv, PaperBrokerAssumption
<1> QED
  BY <1>1, <1>2, <1>3, <1>4, <1>5, <1>6, <1>7 DEF Next

(* Every step keeps the inductive invariant.                                *)
LEMMA NextIInv == IInv /\ [Next]_vars => IInv'
<1>1. CASE Next
  BY <1>1, NextStep
<1>2. CASE UNCHANGED vars
  BY <1>2 DEF vars, IInv, TypeOK, DurableBook
<1> QED
  BY <1>1, <1>2

(* The inductive invariant holds in every reachable state.                  *)
THEOREM Invariance == Spec => []IInv
<1> QED
  BY InitIInv, NextIInv, PTL DEF Spec

(* Every reachable state of the broker has its type.                        *)
THEOREM TypeCorrect == Spec => []TypeOK
<1>1. IInv => TypeOK
  BY DEF IInv
<1> QED
  BY <1>1, Invariance, PTL

(* No order, tick, exit or restart leaves a symbol long and short at once.  *)
THEOREM OneSidedPositions == Spec => []NoDualBook
<1>1. IInv => NoDualBook
  BY DEF IInv, Sound, NoDualBook
<1> QED
  BY <1>1, Invariance, PTL

(* No position is ever left open with its last price at or past its stop.   *)
THEOREM StopsAreHonoured == Spec => []StopsHonoured
<1>1. IInv => StopsHonoured
  BY DEF IInv, Sound, StopsHonoured
<1> QED
  BY <1>1, Invariance, PTL

(* At every moment the snapshot last handed over restores the account.      *)
THEOREM BookIsDurable == Spec => []DurableBook
<1>1. IInv => DurableBook
  BY DEF IInv
<1> QED
  BY <1>1, Invariance, PTL

(* As long as no manual cover and no second short sale is asked for, every  *)
(* call changes cash by exactly what it realizes, pays and ties up, in the  *)
(* one symbol it is about.                                                  *)
THEOREM Conservation ==
  ASSUME Conserving
  PROVE  Spec => LedgerStep
<1>1. IInv /\ [Next]_vars =>
        [\E s \in Symbols :
           MovesThrough(s, book, book', entryFees' - entryFees)]_vars
  BY NextStep
<1> QED
  BY <1>1, Invariance, PTL DEF Spec, LedgerStep

-----------------------------------------------------------------------------
(* The broker is an account                                                 *)

(* What a buy adds to the cost and the size of a long.                      *)
LEMMA BuyCost ==
  ASSUME NEW b \in Book, NEW s \in Symbols, NEW qty \in Nat \ {0},
         NEW fill \in Int, NEW stop \in Int, NEW target \in Int, NEW amount \in Int,
         ~Open(b.longs[s]) => b.longs[s].cost = 0
  PROVE  LET a == OpenOrAddLong(Pay(b, amount), s, qty, fill, stop, target)
         IN  /\ a.realized = b.realized /\ a.shorts = b.shorts
             /\ \A t \in Symbols \ {s} : a.longs[t] = b.longs[t]
             /\ a.longs[s].cost = b.longs[s].cost + qty * fill
             /\ a.longs[s].qty = b.longs[s].qty + qty
<1>1. /\ b.longs[s].qty \in Nat /\ b.longs[s].cost \in Int /\ qty * fill \in Int
      /\ ~Open(b.longs[s]) => b.longs[s].qty = 0
  BY DEF Book, Position, Open
<1> QED
  BY <1>1 DEF OpenOrAddLong, WithLong, NewPosition, Pay, Book

(* What a short sale adds to them.                                          *)
LEMMA ShortCost ==
  ASSUME NEW b \in Book, NEW s \in Symbols, NEW qty \in Nat \ {0},
         NEW fill \in Int, NEW stop \in Int, NEW target \in Int, NEW amount \in Int
  PROVE  LET a == OpenShort(Pay(b, amount), s, qty, fill, stop, target)
         IN  /\ a.realized = b.realized /\ a.longs = b.longs
             /\ \A t \in Symbols \ {s} : a.shorts[t] = b.shorts[t]
             /\ a.shorts[s].cost = qty * fill /\ a.shorts[s].qty = qty
BY DEF OpenShort, WithShort, NewPosition, Pay, Book

(* What a book costs when the position of one symbol alone has changed.     *)
LEMMA LongAlone ==
  ASSUME NEW b \in Book, NEW a \in Book, NEW s \in Symbols, a.shorts = b.shorts,
         \A t \in Symbols \ {s} : a.longs[t] = b.longs[t], Costly(b),
         a.longs[s].cost >= a.longs[s].qty
  PROVE  /\ Costly(a)
         /\ Cost(a, s) - Cost(b, s) = a.longs[s].cost - b.longs[s].cost
         /\ Cost(a, s) \in Int /\ Cost(b, s) \in Int
<1>1. \A t \in Symbols : /\ a.longs[t].cost \in Int /\ b.longs[t].cost \in Int
                         /\ b.shorts[t].cost \in Int
  BY DEF Book, Position
<1> QED
  BY <1>1 DEF Costly, Cost

(* When one short changes alone, its cost is what changes.                  *)
LEMMA ShortAlone ==
  ASSUME NEW b \in Book, NEW a \in Book, NEW s \in Symbols, a.longs = b.longs,
         \A t \in Symbols \ {s} : a.shorts[t] = b.shorts[t], Costly(b),
         a.shorts[s].cost >= a.shorts[s].qty
  PROVE  /\ Costly(a)
         /\ Cost(a, s) - Cost(b, s) = a.shorts[s].cost - b.shorts[s].cost
         /\ Cost(a, s) \in Int /\ Cost(b, s) \in Int
<1>1. \A t \in Symbols : /\ a.shorts[t].cost \in Int /\ b.shorts[t].cost \in Int
                         /\ b.longs[t].cost \in Int
  BY DEF Book, Position
<1> QED
  BY <1>1 DEF Costly, Cost

(* What a step does to the account, through symbol s.                       *)
Accounted(s) ==
  /\ Costly(book')
  /\ \/ TiesUp(s, book, book', entryFees' - entryFees)
     \/ Releases(s, book, book', entryFees' - entryFees)
     \/ LeavesAlone(s, book, book', entryFees' - entryFees)

(* The prices of an order are positive once there is one.                   *)
LEMMA OrderPrices ==
  ASSUME IInv, NEW s \in Symbols, latestPrices[s] # NoPrice,
         SlippageBelowPrice, NEW side
  PROVE  /\ ApplySlippage(latestPrices[s], side) \in Int
         /\ ApplySlippage(latestPrices[s], side) \in Nat
         /\ ApplySlippage(latestPrices[s], side) >= 1
<1>1. latestPrices[s] \in Nat \ {0}
  BY OrderInputs DEF IInv, TypeOK, NoPrice
<1>2. ApplySlippage(latestPrices[s], side) \in Int
  BY <1>1, FillType
<1>3. ApplySlippage(latestPrices[s], side) >= 1
  BY <1>1, FillPositive
<1> QED
  BY <1>2, <1>3

(* A purchase moves the money of its symbol.                                *)
LEMMA BuyLongAccounted ==
  ASSUME IInv, Costly(book), SlippageBelowPrice,
         NEW s \in Symbols, NEW qty \in Quantities, NEW stop \in Prices,
         NEW target \in Prices \cup {NoTarget}, BuyLong(s, qty, stop, target),
         book' \in Book
  PROVE  Accounted(s)
<1> DEFINE fill == ApplySlippage(latestPrices[s], "BUY")
           fee == ComputeCharges("BUY", qty, fill, FALSE)
           amount == qty * fill + fee
           after == OpenOrAddLong(Pay(book, amount), s, qty, fill, stop, target)
<1>1. /\ qty \in Nat \ {0} /\ stop \in Int /\ target \in Int
      /\ book \in Book /\ book' \in Book /\ entryFees \in Int
  BY OrderInputs DEF IInv, TypeOK
<1>2. ~Open(book.shorts[s]) /\ Fill(after, fee) /\ latestPrices[s] # NoPrice
  BY DEF BuyLong, Placing
<1>3. fill \in Int /\ fill \in Nat /\ fill >= 1
  BY <1>2, OrderPrices
<1> HIDE DEF fill
<1>4. fee \in Int /\ fee >= 0
  <2>1. fee \in Int
    BY <1>1, <1>3, ChargesType
  <2>2. fee >= 0
    BY <1>1, <1>3, ChargesPositive
  <2> QED
    BY <2>1, <2>2
<1> HIDE DEF fee
<1>5. amount \in Int /\ qty * fill \in Int /\ qty * fill >= qty
  BY <1>1, <1>3, <1>4
<1> HIDE DEF amount
<1>6. ~Open(book.longs[s]) => book.longs[s].cost = 0
  BY DEF IInv, Sound, FlatIsFree
<1>7. /\ after.realized = book.realized /\ after.shorts = book.shorts
      /\ \A t \in Symbols \ {s} : after.longs[t] = book.longs[t]
      /\ after.longs[s].cost = book.longs[s].cost + qty * fill
      /\ after.longs[s].qty = book.longs[s].qty + qty
  BY <1>1, <1>3, <1>5, <1>6, BuyCost
<1>8. book' = after /\ entryFees' - entryFees = fee
  BY <1>1, <1>2, <1>4 DEF Fill
<1> HIDE DEF after
<1>9. /\ book.longs[s].cost \in Int /\ book.longs[s].qty \in Nat
      /\ book.longs[s].cost >= book.longs[s].qty
  BY <1>1 DEF Costly, Book, Position
<1>10. book'.longs[s].cost >= book'.longs[s].qty
  BY <1>1, <1>5, <1>7, <1>8, <1>9
<1>11. /\ Costly(book')
       /\ Cost(book', s) - Cost(book, s) = book'.longs[s].cost - book.longs[s].cost
       /\ Cost(book', s) \in Int /\ Cost(book, s) \in Int
  BY <1>1, <1>7, <1>8, <1>10, LongAlone
<1>12. Cost(book', s) > Cost(book, s)
  <2>1. book'.longs[s].cost - book.longs[s].cost = qty * fill /\ qty * fill > 0
    BY <1>1, <1>5, <1>7, <1>8, <1>9
  <2> QED
    BY <1>11, <2>1
<1> QED
  BY <1>4, <1>7, <1>8, <1>11, <1>12 DEF Accounted, TiesUp

(* So does a short that is opened where none was.                           *)
LEMMA SellShortAccounted ==
  ASSUME IInv, Costly(book), SlippageBelowPrice, "reshort" \notin Intents,
         NEW s \in Symbols, NEW qty \in Quantities, NEW stop \in Prices,
         NEW target \in Prices \cup {NoTarget}, SellShort(s, qty, stop, target),
         book' \in Book
  PROVE  Accounted(s)
<1> DEFINE fill == ApplySlippage(latestPrices[s], "SELL")
           fee == ComputeCharges("SELL", qty, fill, FALSE)
           amount == qty * fill + fee
           after == OpenShort(Pay(book, amount), s, qty, fill, stop, target)
<1>1. /\ qty \in Nat \ {0} /\ stop \in Int /\ target \in Int
      /\ book \in Book /\ book' \in Book /\ entryFees \in Int
  BY OrderInputs DEF IInv, TypeOK
<1>2. /\ ~Open(book.longs[s]) /\ Fill(after, fee)
      /\ latestPrices[s] # NoPrice /\ ~Open(book.shorts[s])
  BY DEF SellShort, Placing
<1>3. fill \in Int /\ fill \in Nat /\ fill >= 1
  BY <1>2, OrderPrices
<1> HIDE DEF fill
<1>4. fee \in Int /\ fee >= 0
  <2>1. fee \in Int
    BY <1>1, <1>3, ChargesType
  <2>2. fee >= 0
    BY <1>1, <1>3, ChargesPositive
  <2> QED
    BY <2>1, <2>2
<1> HIDE DEF fee
<1>5. amount \in Int /\ qty * fill \in Int /\ qty * fill >= qty
  BY <1>1, <1>3, <1>4
<1> HIDE DEF amount
<1>6. book.shorts[s].cost = 0
  BY <1>2 DEF IInv, Sound, FlatIsFree
<1>7. /\ after.realized = book.realized /\ after.longs = book.longs
      /\ \A t \in Symbols \ {s} : after.shorts[t] = book.shorts[t]
      /\ after.shorts[s].cost = qty * fill /\ after.shorts[s].qty = qty
  BY <1>1, <1>3, <1>5, ShortCost
<1>8. book' = after /\ entryFees' - entryFees = fee
  BY <1>1, <1>2, <1>4 DEF Fill
<1> HIDE DEF after
<1>9. /\ Costly(book')
      /\ Cost(book', s) - Cost(book, s) = book'.shorts[s].cost - book.shorts[s].cost
      /\ Cost(book', s) \in Int /\ Cost(book, s) \in Int
  BY <1>1, <1>5, <1>7, <1>8, ShortAlone
<1>10. Cost(book', s) > Cost(book, s)
  <2>1. book'.shorts[s].cost - book.shorts[s].cost = qty * fill /\ qty * fill > 0
    BY <1>1, <1>5, <1>6, <1>7, <1>8
  <2> QED
    BY <1>9, <2>1
<1> QED
  BY <1>4, <1>7, <1>8, <1>9, <1>10 DEF Accounted, TiesUp

(* An exit of part or all of a long, or of a short.                         *)
LEMMA LongExitAccounted ==
  ASSUME IInv, Costly(book), NEW s \in Symbols, Open(book.longs[s]), book' \in Book,
         NEW qty \in Nat \ {0}, qty <= book.longs[s].qty, entryFees' = entryFees,
         book'.shorts = book.shorts,
         \A t \in Symbols \ {s} : book'.longs[t] = book.longs[t],
         book'.longs[s] = Reduce(book.longs[s], qty)
  PROVE  Accounted(s)
<1>1. book \in Book /\ book' \in Book /\ entryFees \in Int
  BY DEF IInv, TypeOK
<1>2. book.longs[s] \in Position /\ book.longs[s].cost >= book.longs[s].qty
  BY <1>1 DEF Costly, Book
<1>3. /\ book'.longs[s].cost < book.longs[s].cost
      /\ book'.longs[s].cost >= book'.longs[s].qty
  BY <1>2, ReduceReleases
<1>4. /\ Costly(book')
      /\ Cost(book', s) - Cost(book, s) = book'.longs[s].cost - book.longs[s].cost
      /\ Cost(book', s) \in Int /\ Cost(book, s) \in Int
  BY <1>1, <1>3, LongAlone
<1>5. book'.longs[s].cost \in Int /\ book.longs[s].cost \in Int
  BY <1>1 DEF Book, Position
<1>6. Cost(book', s) < Cost(book, s)
  BY <1>3, <1>4, <1>5
<1> QED
  BY <1>1, <1>4, <1>6 DEF Accounted, Releases

(* So does the exit of a short, or of a part of it.                         *)
LEMMA ShortExitAccounted ==
  ASSUME IInv, Costly(book), NEW s \in Symbols, Open(book.shorts[s]), book' \in Book,
         NEW qty \in Nat \ {0}, qty <= book.shorts[s].qty, entryFees' = entryFees,
         book'.longs = book.longs,
         \A t \in Symbols \ {s} : book'.shorts[t] = book.shorts[t],
         book'.shorts[s] = Reduce(book.shorts[s], qty)
  PROVE  Accounted(s)
<1>1. book \in Book /\ book' \in Book /\ entryFees \in Int
  BY DEF IInv, TypeOK
<1>2. book.shorts[s] \in Position /\ book.shorts[s].cost >= book.shorts[s].qty
  BY <1>1 DEF Costly, Book
<1>3. /\ book'.shorts[s].cost < book.shorts[s].cost
      /\ book'.shorts[s].cost >= book'.shorts[s].qty
  BY <1>2, ReduceReleases
<1>4. /\ Costly(book')
      /\ Cost(book', s) - Cost(book, s) = book'.shorts[s].cost - book.shorts[s].cost
      /\ Cost(book', s) \in Int /\ Cost(book, s) \in Int
  BY <1>1, <1>3, ShortAlone
<1>5. book'.shorts[s].cost \in Int /\ book.shorts[s].cost \in Int
  BY <1>1 DEF Book, Position
<1>6. Cost(book', s) < Cost(book, s)
  BY <1>3, <1>4, <1>5
<1> QED
  BY <1>1, <1>4, <1>6 DEF Accounted, Releases

(* So does a sale.                                                          *)
LEMMA SellLongAccounted ==
  ASSUME IInv, Costly(book), NEW s \in Symbols, NEW qty \in Quantities,
         SellLong(s, qty), book' \in Book
  PROVE  Accounted(s)
<1> DEFINE fill == ApplySlippage(latestPrices[s], "SELL")
           fee == ComputeCharges("SELL", qty, fill, FALSE)
<1>1. /\ qty \in Nat \ {0} /\ latestPrices[s] \in Nat
      /\ book \in Book /\ entryFees \in Int
  BY OrderInputs DEF IInv, TypeOK
<1>2. fill \in Int
  BY <1>1, FillType
<1>3. fee \in Int
  BY <1>1, <1>2, ChargesType
<1>4. /\ Open(book.longs[s]) /\ qty <= book.longs[s].qty
      /\ Fill(CloseLong(book, s, qty, fill, fee), 0)
  BY DEF SellLong
<1> HIDE DEF fill, fee
<1>5. book' = CloseLong(book, s, qty, fill, fee) /\ entryFees' = entryFees
  BY <1>1, <1>4 DEF Fill
<1> DEFINE closed == CloseLong(book, s, qty, fill, fee)
<1>6. /\ closed.shorts = book.shorts
      /\ \A t \in Symbols \ {s} : closed.longs[t] = book.longs[t]
      /\ closed.longs[s] = Reduce(book.longs[s], qty)
  <2>1. PICK b, n, f, e : b = book /\ n = qty /\ f = fill /\ e = fee
    OBVIOUS
  <2>2. /\ b \in Book /\ n \in Nat /\ f \in Int /\ e \in Int
        /\ Open(b.longs[s]) /\ n <= b.longs[s].qty
    BY <1>1, <1>2, <1>3, <1>4, <2>1
  <2>3. LET a == CloseLong(b, s, n, f, e)
        IN  /\ a \in Book /\ a.trades = b.trades + 1 /\ a.shorts = b.shorts
            /\ \A t \in Symbols \ {s} : a.longs[t] = b.longs[t]
            /\ a.longs[s] = Reduce(b.longs[s], n)
            /\ MovesThrough(s, b, a, 0)
    BY ONLY s \in Symbols, <2>2, CloseLongEffect
  <2> QED
    BY <2>1, <2>3
<1>7. /\ book'.shorts = book.shorts
      /\ \A t \in Symbols \ {s} : book'.longs[t] = book.longs[t]
      /\ book'.longs[s] = Reduce(book.longs[s], qty)
  BY <1>5, <1>6
<1> QED
  BY <1>1, <1>4, <1>5, <1>7, LongExitAccounted

(* So does a partial exit.                                                  *)
LEMMA PartialExitAccounted ==
  ASSUME IInv, Costly(book), NEW s \in Symbols, NEW qty \in Quantities,
         NEW price \in Prices, PartialExit(s, qty, price), book' \in Book
  PROVE  Accounted(s)
<1> DEFINE least(a, b) == IF a < b THEN a ELSE b
           long == book.longs[s]
           short == book.shorts[s]
<1>1. /\ qty \in Nat \ {0} /\ price \in Int /\ book \in Book /\ entryFees \in Int
      /\ long \in Position /\ short \in Position
  BY OrderInputs DEF IInv, TypeOK, Book
<1>2. CASE Open(long) /\ Fill(ExitLong(book, s, least(qty, long.qty), price), 0)
  <2> DEFINE part == least(qty, long.qty)
  <2>1. part \in Nat \ {0} /\ part <= long.qty
    BY <1>1, <1>2 DEF Position, Open
  <2>2. Fill(ExitLong(book, s, part, price), 0)
    BY <1>2
  <2> HIDE DEF part
  <2>3. book' = ExitLong(book, s, part, price) /\ entryFees' = entryFees
    BY <1>1, <2>2 DEF Fill
  <2>4. /\ book'.shorts = book.shorts
        /\ \A t \in Symbols \ {s} : book'.longs[t] = book.longs[t]
        /\ book'.longs[s] = Reduce(book.longs[s], part)
    BY <1>1, <1>2, <2>1, <2>3, ExitLongEffect
  <2> QED
    BY <1>2, <2>1, <2>3, <2>4, LongExitAccounted
<1>3. CASE Open(short) /\ Fill(ExitShort(book, s, least(qty, short.qty), price), 0)
  <2> DEFINE part == least(qty, short.qty)
  <2>1. part \in Nat \ {0} /\ part <= short.qty
    BY <1>1, <1>3 DEF Position, Open
  <2>2. Fill(ExitShort(book, s, part, price), 0)
    BY <1>3
  <2> HIDE DEF part
  <2>3. book' = ExitShort(book, s, part, price) /\ entryFees' = entryFees
    BY <1>1, <2>2 DEF Fill
  <2>4. /\ book'.longs = book.longs
        /\ \A t \in Symbols \ {s} : book'.shorts[t] = book.shorts[t]
        /\ book'.shorts[s] = Reduce(book.shorts[s], part)
    BY <1>1, <1>3, <2>1, <2>3, ExitShortEffect
  <2> QED
    BY <1>3, <2>1, <2>3, <2>4, ShortExitAccounted
<1> QED
  BY <1>2, <1>3 DEF PartialExit

(* So does a tick with the exits it fires.                                  *)
LEMMA TickAccounted ==
  ASSUME IInv, Costly(book), NEW s \in Symbols, NEW px \in Prices,
         UpdateMarketPrices(s, px)
  PROVE  Accounted(s)
<1> DEFINE after == MaybeExitShort(MaybeExitLong(MarkToMarket(book, s, px), s), s)
<1>1. /\ Sound(book, latestPrices) /\ entryFees \in Int
      /\ latestPrices \in [Symbols -> Prices \cup {NoPrice}]
  BY DEF IInv, TypeOK
<1>2. /\ Costly(after)
      /\ Releases(s, book, after, 0) \/ LeavesAlone(s, book, after, 0)
  BY <1>1, TickEffect
<1>3. book' = after /\ entryFees' = entryFees
  BY DEF UpdateMarketPrices
<1>4. entryFees' - entryFees = 0
  BY <1>1, <1>3
<1> HIDE DEF after
<1> QED
  BY <1>2, <1>3, <1>4 DEF Accounted

(* A restart moves no money.                                                *)
LEMMA RestartAccounted ==
  ASSUME IInv, Costly(book), NEW s \in Symbols, Restart
  PROVE  Accounted(s)
<1>1. /\ book \in Book /\ saved \in Snapshot /\ entryFees \in Int
      /\ Restorable(saved, book)
  BY DEF IInv, TypeOK, DurableBook
<1>2. /\ book'.longs = saved.longs /\ book'.shorts = saved.shorts
      /\ book'.realized = book.realized /\ entryFees' = entryFees
  BY <1>1 DEF Restart, RestoreState, Restorable
<1>3. ASSUME NEW p \in Position, NEW q \in Position, Unmarked(p) = Unmarked(q)
      PROVE  p.qty = q.qty /\ p.cost = q.cost
  <2>1. \A r \in Position : Unmarked(r).qty = r.qty /\ Unmarked(r).cost = r.cost
    BY DEF Unmarked, Position
  <2> QED
    BY <1>3, <2>1
<1>4. \A t \in Symbols : /\ book'.longs[t].qty = book.longs[t].qty
                         /\ book'.longs[t].cost = book.longs[t].cost
                         /\ book'.shorts[t].qty = book.shorts[t].qty
                         /\ book'.shorts[t].cost = book.shorts[t].cost
  BY <1>1, <1>2, <1>3 DEF Restorable, Book, Snapshot
<1>5. Costly(book') /\ Cost(book', s) = Cost(book, s)
  BY <1>4 DEF Costly, Cost
<1>6. entryFees' - entryFees = 0
  BY <1>1, <1>2
<1> QED
  BY <1>2, <1>5, <1>6 DEF Accounted, LeavesAlone

(* Every call is an entry, an exit or no movement, in one symbol.           *)
LEMMA NextAccounted ==
  ASSUME IInv, Costly(book), Conserving, SlippageBelowPrice, Next
  PROVE  \E s \in Symbols :
           /\ Accounted(s)
           /\ MovesThrough(s, book, book', entryFees' - entryFees)
<1>1. book' \in Book
  BY NextStep DEF IInv, TypeOK
<1>2. ASSUME NEW s \in Symbols, NEW px \in Prices, UpdateMarketPrices(s, px)
      PROVE  Accounted(s) /\ MovesThrough(s, book, book', entryFees' - entryFees)
  BY <1>2, TickAccounted, UpdateMarketPricesKeepsIInv
<1>3. ASSUME NEW s \in Symbols, NEW qty \in Quantities, NEW stop \in Prices,
             NEW target \in Prices \cup {NoTarget},
             LegalBuyExits(s, stop, target), BuyLong(s, qty, stop, target)
      PROVE  Accounted(s) /\ MovesThrough(s, book, book', entryFees' - entryFees)
  BY <1>1, <1>3, BuyLongAccounted, BuyLongKeepsIInv
<1>4. ASSUME NEW s \in Symbols, NEW qty \in Quantities, NEW stop \in Prices,
             NEW target \in Prices \cup {NoTarget},
             LegalShortExits(s, stop, target), SellShort(s, qty, stop, target)
      PROVE  Accounted(s) /\ MovesThrough(s, book, book', entryFees' - entryFees)
  BY <1>1, <1>4, SellShortAccounted, SellShortKeepsIInv DEF Conserving
<1>5. ASSUME NEW s \in Symbols, NEW qty \in Quantities, BuyToCover(s, qty)
      PROVE  FALSE
  BY <1>5, BuyToCoverKeepsIInv DEF Conserving
<1>6. ASSUME NEW s \in Symbols, NEW qty \in Quantities, SellLong(s, qty)
      PROVE  Accounted(s) /\ MovesThrough(s, book, book', entryFees' - entryFees)
  BY <1>1, <1>6, SellLongAccounted, SellLongKeepsIInv
<1>7. ASSUME NEW s \in Symbols, NEW qty \in Quantities, NEW price \in Prices,
             PartialExit(s, qty, price)
      PROVE  Accounted(s) /\ MovesThrough(s, book, book', entryFees' - entryFees)
  BY <1>1, <1>7, PartialExitAccounted, PartialExitKeepsIInv
<1>8. ASSUME Restart
      PROVE  \E s \in Symbols :
               /\ Accounted(s)
               /\ MovesThrough(s, book, book', entryFees' - entryFees)
  <2>1. PICK s \in Symbols : MovesThrough(s, book, book', entryFees' - entryFees)
    BY <1>8, RestartKeepsIInv, PaperBrokerAssumption
  <2> QED
    BY <1>8, <2>1, RestartAccounted
<1> QED
  BY <1>2, <1>3, <1>4, <1>5, <1>6, <1>7, <1>8 DEF Next

(* What is held is a whole number of ticks, and changes by what the one     *)
(* symbol through which money moves costs more or less.                     *)
LEMMA HeldMoves ==
  ASSUME NEW b \in Book, NEW a \in Book, NEW s \in Symbols, NEW fee,
         MovesThrough(s, b, a, fee)
  PROVE  /\ Held(b) \in Int /\ Held(a) \in Int
         /\ Held(a) - Held(b) = Cost(a, s) - Cost(b, s)
         /\ a.cash - b.cash + (Held(a) - Held(b)) = a.realized - b.realized - fee
<1> DEFINE f(c) == [t \in Symbols |-> c.longs[t].cost + c.shorts[t].cost]
<1>1. ASSUME NEW c \in Book
      PROVE  /\ \A t \in Symbols : f(c)[t] = Cost(c, t) /\ f(c)[t] \in Int
             /\ Held(c) = SumFunctionOnSet(f(c), Symbols)
             /\ c.cash \in Int /\ c.realized \in Int
  <2>1. \A t \in Symbols : c.longs[t].cost \in Int /\ c.shorts[t].cost \in Int
    BY DEF Book, Position
  <2>2. DOMAIN f(c) = Symbols
    OBVIOUS
  <2> QED
    BY <2>1, <2>2 DEF Cost, Held, SumFunction, Book
<1>2. \A t \in Symbols \ {s} : Cost(a, t) = Cost(b, t)
  BY DEF MovesThrough, Cost
<1>3. IsFiniteSet(Symbols)
  BY PaperBrokerAssumption
<1> HIDE DEF f
<1>4. Held(a) - Held(b) = f(a)[s] - f(b)[s]
  <2>1. \A t \in Symbols : f(a)[t] \in Int /\ f(b)[t] \in Int
    BY <1>1
  <2>2. \A t \in Symbols \ {s} : f(a)[t] = f(b)[t]
    BY <1>1, <1>2
  <2>3. SumFunctionOnSet(f(a), Symbols) - SumFunctionOnSet(f(b), Symbols) = f(a)[s] - f(b)[s]
    BY <1>3, <2>1, <2>2, SumsDiffer
  <2> QED
    BY <1>1, <2>3
<1>5. Held(a) \in Int /\ Held(b) \in Int
  BY <1>1, <1>3, SumOfElements
<1>6. a.cash - b.cash + Cost(a, s) - Cost(b, s) = a.realized - b.realized - fee
  BY DEF MovesThrough, Cost
<1>7. /\ f(a)[s] = Cost(a, s) /\ f(b)[s] = Cost(b, s)
      /\ Cost(a, s) \in Int /\ Cost(b, s) \in Int
      /\ a.cash \in Int /\ b.cash \in Int
  BY <1>1
<1> QED
  BY <1>4, <1>5, <1>6, <1>7

(* A fresh broker holds nothing.                                            *)
LEMMA NothingHeld ==
  ASSUME Init
  PROVE  Held(book) = 0 /\ Costly(book)
<1> DEFINE f == [t \in Symbols |-> book.longs[t].cost + book.shorts[t].cost]
<1>1. \A t \in Symbols : book.longs[t] = Flat /\ book.shorts[t] = Flat
  BY DEF Init
<1>2. Flat.cost = 0 /\ Flat.qty = 0
  BY DEF Flat
<1>3. \A t \in Symbols : f[t] = 0
  BY <1>1, <1>2
<1>4. Held(book) = SumFunctionOnSet(f, Symbols)
  BY DEF Held, SumFunction
<1>5. IsFiniteSet(Symbols)
  BY PaperBrokerAssumption
<1> HIDE DEF f
<1>6. Held(book) = 0
  BY <1>3, <1>4, <1>5, SumOfZeros
<1> QED
  BY <1>1, <1>2, <1>6 DEF Costly

(* As long as no manual cover and no second short sale is asked for, cash   *)
(* and what is held are what the account began with, what it has realized   *)
(* and what its entries have cost.                                          *)
THEOREM LedgerAlwaysBalances ==
  ASSUME Conserving
  PROVE  Spec => []LedgerBalances
<1>1. Init => LedgerBalances
  <2> SUFFICES ASSUME Init PROVE LedgerBalances
    OBVIOUS
  <2>1. InitialCash \in Nat
    BY PaperBrokerAssumption
  <2> QED
    BY <2>1, NothingHeld DEF Init, LedgerBalances
<1>2. IInv /\ LedgerBalances /\ [Next]_vars => LedgerBalances'
  <2> SUFFICES ASSUME IInv, LedgerBalances, [Next]_vars
               PROVE  LedgerBalances'
    OBVIOUS
  <2>1. CASE UNCHANGED vars
    BY <2>1 DEF vars, LedgerBalances, Held
  <2>2. CASE Next
    <3>1. PICK s \in Symbols : MovesThrough(s, book, book', entryFees' - entryFees)
      BY <2>2, NextStep
    <3>2. IInv'
      BY <2>2, NextStep
    <3>3. /\ book \in Book /\ book' \in Book /\ entryFees \in Int /\ entryFees' \in Int
      BY <3>2 DEF IInv, TypeOK
    <3>4. /\ Held(book) \in Int /\ Held(book') \in Int
          /\ book'.cash - book.cash + (Held(book') - Held(book))
               = book'.realized - book.realized - (entryFees' - entryFees)
      BY <3>1, <3>3, HeldMoves
    <3>5. /\ book.cash \in Int /\ book'.cash \in Int
          /\ book.realized \in Int /\ book'.realized \in Int
          /\ InitialCash \in Int
      BY <3>3, PaperBrokerAssumption DEF Book
    <3>6. LedgerBalances' <=>
            book'.cash + Held(book') = InitialCash + book'.realized - entryFees'
      BY DEF LedgerBalances, Held
    <3>7. book.cash + Held(book) = InitialCash + book.realized - entryFees
      BY DEF LedgerBalances
    <3>8. book'.cash + Held(book') = InitialCash + book'.realized - entryFees'
      BY <3>3, <3>4, <3>5, <3>7
    <3> QED
      BY <3>6, <3>8
  <2> QED
    BY <2>1, <2>2
<1> QED
  BY <1>1, <1>2, Invariance, PTL DEF Spec

(* Numbers without a difference are equal.                                  *)
LEMMA NoDifference ==
  ASSUME NEW x \in Int, NEW y \in Int, x - y = 0
  PROVE  x = y
  OBVIOUS

(* What the balance sheet says of the three things that may happen.         *)
LEMMA MoneyMoves ==
  ASSUME NEW b \in Book, NEW a \in Book, NEW s \in Symbols,
         NEW fees0 \in Int, NEW fees1 \in Int,
         MovesThrough(s, b, a, fees1 - fees0)
  PROVE  /\ TiesUp(s, b, a, fees1 - fees0)
              => /\ Held(a) > Held(b)
                 /\ fees1 >= fees0
                 /\ b.cash - a.cash = (Held(a) - Held(b)) + (fees1 - fees0)
                 /\ a.realized = b.realized
         /\ Releases(s, b, a, fees1 - fees0)
              => /\ Held(a) < Held(b)
                 /\ a.cash - b.cash = (Held(b) - Held(a)) + (a.realized - b.realized)
                 /\ fees1 = fees0
         /\ LeavesAlone(s, b, a, fees1 - fees0)
              => /\ a.cash = b.cash /\ Held(a) = Held(b)
                 /\ a.realized = b.realized /\ fees1 = fees0
<1>1. /\ Held(b) \in Int /\ Held(a) \in Int
      /\ Held(a) - Held(b) = Cost(a, s) - Cost(b, s)
      /\ a.cash - b.cash + (Held(a) - Held(b)) = a.realized - b.realized - (fees1 - fees0)
  BY HeldMoves
<1>2. /\ b.cash \in Int /\ a.cash \in Int /\ b.realized \in Int /\ a.realized \in Int
      /\ Cost(a, s) \in Int /\ Cost(b, s) \in Int
  BY DEF Book, Position, Cost
<1>3. TiesUp(s, b, a, fees1 - fees0)
        => /\ Held(a) > Held(b)
           /\ fees1 >= fees0
           /\ b.cash - a.cash = (Held(a) - Held(b)) + (fees1 - fees0)
           /\ a.realized = b.realized
  BY <1>1, <1>2 DEF TiesUp
<1>4. Releases(s, b, a, fees1 - fees0)
        => /\ Held(a) < Held(b)
           /\ a.cash - b.cash = (Held(b) - Held(a)) + (a.realized - b.realized)
           /\ fees1 = fees0
  BY <1>1, <1>2 DEF Releases
<1>5. LeavesAlone(s, b, a, fees1 - fees0)
        => /\ a.cash = b.cash /\ Held(a) = Held(b)
           /\ a.realized = b.realized /\ fees1 = fees0
  <2> SUFFICES ASSUME LeavesAlone(s, b, a, fees1 - fees0)
               PROVE  /\ a.cash = b.cash /\ Held(a) = Held(b)
                      /\ a.realized = b.realized /\ fees1 = fees0
    OBVIOUS
  <2>1. Cost(a, s) = Cost(b, s) /\ a.realized = b.realized /\ fees1 - fees0 = 0
    BY DEF LeavesAlone
  <2>2. Held(a) - Held(b) = 0
    BY <1>1, <1>2, <2>1
  <2>3. a.cash - b.cash = 0
    BY <1>1, <1>2, <2>1, <2>2
  <2>4. a.cash = b.cash /\ Held(a) = Held(b) /\ fees1 = fees0
    BY <1>1, <1>2, <2>1, <2>2, <2>3, NoDifference
  <2> QED
    BY <2>1, <2>4
<1> QED
  BY <1>3, <1>4, <1>5

(* As long as no manual cover and no second short sale is asked for, and    *)
(* slippage stays below the whole price, the broker implements Account:     *)
(* every call is an entry, an exit or no movement of money.                 *)
THEOREM BrokerIsAnAccount ==
  ASSUME Conserving, SlippageBelowPrice
  PROVE  Spec => IsAnAccount
<1>1. Init => account!Init /\ Costly(book)
  <2> SUFFICES ASSUME Init PROVE account!Init /\ Costly(book)
    OBVIOUS
  <2>1. book.cash = InitialCash /\ book.realized = 0 /\ entryFees = 0
    BY DEF Init
  <2> QED
    BY <2>1, NothingHeld DEF account!Init
<1>2. IInv /\ Costly(book) /\ [Next]_vars
        => Costly(book)' /\ [account!Next]_account!vars
  <2> SUFFICES ASSUME IInv, Costly(book), [Next]_vars
               PROVE  Costly(book)' /\ [account!Next]_account!vars
    OBVIOUS
  <2>1. Costly(book)' <=> Costly(book')
    BY DEF Costly
  <2>2. Held(book)' = Held(book')
    BY DEF Held
  <2>3. CASE UNCHANGED vars
    BY <2>1, <2>3 DEF vars, account!vars, Held, Costly
  <2>4. CASE Next
    <3>1. PICK s \in Symbols :
            /\ Accounted(s)
            /\ MovesThrough(s, book, book', entryFees' - entryFees)
      BY <2>4, NextAccounted
    <3>2. IInv'
      BY <2>4, NextStep
    <3>3. /\ book \in Book /\ book' \in Book /\ entryFees \in Int /\ entryFees' \in Int
      BY <3>2 DEF IInv, TypeOK
    <3>4. /\ TiesUp(s, book, book', entryFees' - entryFees)
               => /\ Held(book') > Held(book)
                  /\ entryFees' >= entryFees
                  /\ book.cash - book'.cash
                       = (Held(book') - Held(book)) + (entryFees' - entryFees)
                  /\ book'.realized = book.realized
          /\ Releases(s, book, book', entryFees' - entryFees)
               => /\ Held(book') < Held(book)
                  /\ book'.cash - book.cash
                       = (Held(book) - Held(book')) + (book'.realized - book.realized)
                  /\ entryFees' = entryFees
          /\ LeavesAlone(s, book, book', entryFees' - entryFees)
               => /\ book'.cash = book.cash /\ Held(book') = Held(book)
                  /\ book'.realized = book.realized /\ entryFees' = entryFees
      BY <3>1, <3>3, MoneyMoves
    <3>5. /\ TiesUp(s, book, book', entryFees' - entryFees) => account!Enter
          /\ Releases(s, book, book', entryFees' - entryFees) => account!Leave
      BY <2>2, <3>4 DEF account!Enter, account!Leave
    <3>6. LeavesAlone(s, book, book', entryFees' - entryFees) => UNCHANGED account!vars
      BY <2>2, <3>4 DEF account!vars
    <3> QED
      BY <3>1, <3>5, <3>6, <2>1 DEF Accounted, account!Next
  <2> QED
    BY <2>3, <2>4
<1>3. Spec => account!Init /\ [][account!Next]_account!vars
  BY <1>1, <1>2, Invariance, PTL DEF Spec
<1> QED
  BY <1>3 DEF IsAnAccount, account!Spec

-----------------------------------------------------------------------------
(* Solvency                                                                 *)

(* A sale pays for its own charges, and the margin of a short pays twice    *)
(* over for its cover: the premises under which an exit never costs cash.   *)
ExitsPay ==
  \A qty \in Nat \ {0}, p \in Prices :
    LET sold == ApplySlippage(p, "SELL")
        bought == ApplySlippage(p, "BUY")
    IN  /\ ComputeCharges("SELL", qty, sold, FALSE) <= qty * sold
        /\ \A q \in Prices :
             qty * bought + ComputeCharges("BUY", qty, bought, TRUE)
               <= 2 * (qty * ApplySlippage(q, "SELL"))

(* The prices at which a position may be closed are market prices, and what *)
(* a short holds is what its shares were sold at.                           *)
ListedExits(pos) == pos.stop \in Prices /\ pos.target \in Prices \cup {NoTarget}

ListedLong(pos) == Open(pos) => ListedExits(pos)

ListedShort(pos) ==
  Open(pos) =>
    /\ ListedExits(pos)
    /\ \E q \in Prices : pos.cost = pos.qty * ApplySlippage(q, "SELL")

Listed(b) == \A s \in Symbols : ListedLong(b.longs[s]) /\ ListedShort(b.shorts[s])

(* A part of a short holds its share of the margin, to the tick.            *)
LEMMA ExactBasis ==
  ASSUME NEW pos \in Position, Open(pos), NEW fill \in Int, pos.cost = pos.qty * fill,
         NEW qty \in Nat \ {0}, qty <= pos.qty
  PROVE  /\ Basis(pos, qty) = qty * fill
         /\ qty < pos.qty => pos.cost - Basis(pos, qty) = (pos.qty - qty) * fill
<1> DEFINE n == pos.qty
<1>1. n \in Nat \ {0}
  BY DEF Position, Open
<1> HIDE DEF n
<1>2. ((n * fill) * qty) \div n = qty * fill
  <2>1. (n * fill) * qty = n * (qty * fill)
    BY <1>1, Z3
  <2>2. ASSUME NEW m \in Int
        PROVE  (n * m) \div n = m
    BY <1>1, Z3
  <2>3. qty * fill \in Int
    OBVIOUS
  <2> QED
    BY <2>1, <2>2, <2>3
<1>3. n * fill - qty * fill = (n - qty) * fill
  BY <1>1, Z3
<1>4. Basis(pos, qty) = IF qty = n THEN n * fill ELSE ((n * fill) * qty) \div n
  BY DEF Basis, n
<1>5. Basis(pos, qty) = qty * fill
  BY <1>2, <1>4
<1>6. pos.cost = n * fill /\ pos.qty = n
  BY DEF n
<1> QED
  BY <1>3, <1>5, <1>6

(* What remains of a position still cost listed prices.                     *)
LEMMA ReducedListed ==
  ASSUME NEW pos \in Position, Open(pos), NEW qty \in Nat \ {0}, qty <= pos.qty
  PROVE  /\ ListedLong(pos) => ListedLong(Reduce(pos, qty))
         /\ ListedShort(pos) => ListedShort(Reduce(pos, qty))
<1>1. CASE qty >= pos.qty
  BY <1>1 DEF Reduce, Flat, Open, ListedLong, ListedShort
<1>2. CASE qty < pos.qty
  <2>1. /\ Reduce(pos, qty).qty = pos.qty - qty
        /\ Reduce(pos, qty).cost = pos.cost - Basis(pos, qty)
        /\ Reduce(pos, qty).stop = pos.stop /\ Reduce(pos, qty).target = pos.target
    BY <1>2 DEF Reduce, Position
  <2>2. ListedLong(pos) => ListedLong(Reduce(pos, qty))
    BY <2>1 DEF ListedLong, ListedExits
  <2>3. ASSUME ListedShort(pos)
        PROVE  ListedShort(Reduce(pos, qty))
    <3>1. PICK q \in Prices : pos.cost = pos.qty * ApplySlippage(q, "SELL")
      BY <2>3 DEF ListedShort
    <3>2. ApplySlippage(q, "SELL") \in Int
      BY OrderInputs, FillType
    <3>3. pos.cost - Basis(pos, qty) = (pos.qty - qty) * ApplySlippage(q, "SELL")
      BY <1>2, <3>1, <3>2, ExactBasis
    <3> QED
      BY <2>1, <2>3, <3>3 DEF ListedShort, ListedExits
  <2> QED
    BY <2>2, <2>3
<1> QED
  BY <1>1, <1>2 DEF Position

(* A long that is sold, whole or in part, brings cash.                      *)
LEMMA ExitLongPays ==
  ASSUME ExitsPay, NEW b \in Book, Listed(b), NEW s \in Symbols, Open(b.longs[s]),
         NEW qty \in Nat \ {0}, qty <= b.longs[s].qty, NEW price \in Prices
  PROVE  LET a == ExitLong(b, s, qty, price)
         IN  a \in Book /\ Listed(a) /\ a.cash >= b.cash
<1> DEFINE fill == ApplySlippage(price, "SELL")
           fee == ComputeCharges("SELL", qty, fill, FALSE)
           a == ExitLong(b, s, qty, price)
<1>1. price \in Int /\ b.longs[s] \in Position /\ b.cash \in Int
  BY OrderInputs DEF Book
<1>2. fee <= qty * fill
  BY DEF ExitsPay
<1>3. fill \in Int
  BY <1>1, FillType
<1>4. a.cash = b.cash + (qty * fill - fee)
  BY DEF ExitLong, CloseLong, WithLong, Realize
<1> HIDE DEF fill
<1>5. fee \in Int
  BY <1>3, ChargesType
<1>6. qty * fill \in Int
  BY <1>3
<1> HIDE DEF fee
<1>7. a.cash >= b.cash
  BY <1>1, <1>2, <1>4, <1>5, <1>6
<1>8. /\ a \in Book /\ a.shorts = b.shorts /\ a.longs[s] = Reduce(b.longs[s], qty)
      /\ \A t \in Symbols \ {s} : a.longs[t] = b.longs[t]
  BY <1>1, ExitLongEffect
<1> HIDE DEF a
<1>9. ListedLong(a.longs[s])
  BY <1>1, <1>8, ReducedListed DEF Listed
<1>10. Listed(a)
  BY <1>8, <1>9 DEF Listed
<1> QED
  BY <1>7, <1>8, <1>10 DEF a

(* A short that is covered, whole or in part, has the margin for it.        *)
LEMMA ExitShortPays ==
  ASSUME ExitsPay, NEW b \in Book, Listed(b), NEW s \in Symbols, Open(b.shorts[s]),
         NEW qty \in Nat \ {0}, qty <= b.shorts[s].qty, NEW price \in Prices
  PROVE  LET a == ExitShort(b, s, qty, price)
         IN  a \in Book /\ Listed(a) /\ a.cash >= b.cash
<1> DEFINE fill == ApplySlippage(price, "BUY")
           fee == ComputeCharges("BUY", qty, fill, TRUE)
           basis == Basis(b.shorts[s], qty)
           a == ExitShort(b, s, qty, price)
<1>1. price \in Int /\ b.shorts[s] \in Position /\ b.cash \in Int
  BY OrderInputs DEF Book
<1>2. PICK q \in Prices : b.shorts[s].cost = b.shorts[s].qty * ApplySlippage(q, "SELL")
  BY DEF Listed, ListedShort
<1>3. ApplySlippage(q, "SELL") \in Int
  BY OrderInputs, FillType
<1>4. basis = qty * ApplySlippage(q, "SELL")
  BY <1>1, <1>2, <1>3, ExactBasis
<1>5. qty * fill + fee <= 2 * basis
  BY <1>4 DEF ExitsPay
<1>6. fill \in Int
  BY <1>1, FillType
<1>7. a.cash = b.cash + (basis + (basis - qty * fill - fee))
  BY DEF ExitShort, CoverShort, WithShort, Realize
<1> HIDE DEF fill
<1>8. fee \in Int
  BY <1>6, ChargesType
<1>9. qty * fill \in Int /\ basis \in Int
  BY <1>3, <1>4, <1>6
<1> HIDE DEF fee, basis
<1>10. a.cash >= b.cash
  BY <1>1, <1>5, <1>7, <1>8, <1>9
<1>11. /\ a \in Book /\ a.longs = b.longs /\ a.shorts[s] = Reduce(b.shorts[s], qty)
       /\ \A t \in Symbols \ {s} : a.shorts[t] = b.shorts[t]
  BY <1>1, ExitShortEffect
<1> HIDE DEF a
<1>12. ListedShort(a.shorts[s])
  BY <1>1, <1>11, ReducedListed DEF Listed
<1>13. Listed(a)
  BY <1>11, <1>12 DEF Listed
<1> QED
  BY <1>10, <1>11, <1>13 DEF a

(* The checks of a tick sell and cover at stops and targets.                *)
LEMMA MaybeExitLongPays ==
  ASSUME ExitsPay, NEW b \in Book, Listed(b), NEW s \in Symbols
  PROVE  LET a == MaybeExitLong(b, s)
         IN  a \in Book /\ Listed(a) /\ a.cash >= b.cash
<1> DEFINE pos == b.longs[s]
           a == MaybeExitLong(b, s)
<1>1. pos \in Position /\ b.cash \in Int
  BY DEF Book
<1>2. \/ a = b
      \/ /\ Open(pos)
         /\ \E price \in Prices : a = ExitLong(b, s, pos.qty, price)
  BY DEF MaybeExitLong, Listed, ListedLong, ListedExits
<1>3. CASE a = b
  BY <1>1, <1>3
<1>4. ASSUME Open(pos), NEW price \in Prices, a = ExitLong(b, s, pos.qty, price)
      PROVE  a \in Book /\ Listed(a) /\ a.cash >= b.cash
  <2>1. pos.qty \in Nat \ {0} /\ pos.qty <= pos.qty
    BY <1>1, <1>4 DEF Position, Open
  <2> HIDE DEF a
  <2> QED
    BY <1>4, <2>1, ExitLongPays
<1> HIDE DEF a
<1> QED
  BY <1>2, <1>3, <1>4 DEF a

(* A short that is stopped or has reached its target pays, on ExitsPay.     *)
LEMMA MaybeExitShortPays ==
  ASSUME ExitsPay, NEW b \in Book, Listed(b), NEW s \in Symbols
  PROVE  LET a == MaybeExitShort(b, s)
         IN  a \in Book /\ Listed(a) /\ a.cash >= b.cash
<1> DEFINE pos == b.shorts[s]
           a == MaybeExitShort(b, s)
<1>1. pos \in Position /\ b.cash \in Int
  BY DEF Book
<1>2. \/ a = b
      \/ /\ Open(pos)
         /\ \E price \in Prices : a = ExitShort(b, s, pos.qty, price)
  BY DEF MaybeExitShort, Listed, ListedShort, ListedExits
<1>3. CASE a = b
  BY <1>1, <1>3
<1>4. ASSUME Open(pos), NEW price \in Prices, a = ExitShort(b, s, pos.qty, price)
      PROVE  a \in Book /\ Listed(a) /\ a.cash >= b.cash
  <2>1. pos.qty \in Nat \ {0} /\ pos.qty <= pos.qty
    BY <1>1, <1>4 DEF Position, Open
  <2> HIDE DEF a
  <2> QED
    BY <1>4, <2>1, ExitShortPays
<1> HIDE DEF a
<1> QED
  BY <1>2, <1>3, <1>4 DEF a

(* Last prices say nothing of what a position holds and where it exits.     *)
LEMMA UnmarkedListed ==
  ASSUME NEW p \in Position, NEW q \in Position, Unmarked(p) = Unmarked(q)
  PROVE  /\ ListedLong(p) => ListedLong(q)
         /\ ListedShort(p) => ListedShort(q)
<1>1. \A r \in Position : /\ Unmarked(r).qty = r.qty /\ Unmarked(r).cost = r.cost
                         /\ Unmarked(r).stop = r.stop /\ Unmarked(r).target = r.target
  BY DEF Unmarked, Position
<1>2. p.qty = q.qty /\ p.cost = q.cost /\ p.stop = q.stop /\ p.target = q.target
  BY <1>1
<1> QED
  BY <1>2 DEF ListedLong, ListedShort, ListedExits, Open

(* A tick takes no cash.                                                    *)
LEMMA TickPays ==
  ASSUME ExitsPay, IInv, Listed(book), NEW s \in Symbols, NEW px \in Prices,
         UpdateMarketPrices(s, px)
  PROVE  Listed(book') /\ book'.cash >= book.cash
<1> DEFINE marked == MarkToMarket(book, s, px)
           first == MaybeExitLong(marked, s)
           after == MaybeExitShort(first, s)
<1>1. book \in Book /\ px \in Int
  BY OrderInputs DEF IInv, TypeOK
<1>2. /\ marked \in Book /\ marked.cash = book.cash
      /\ \A t \in Symbols \ {s} :
           marked.longs[t] = book.longs[t] /\ marked.shorts[t] = book.shorts[t]
      /\ marked.longs[s] = IF Open(book.longs[s]) THEN [book.longs[s] EXCEPT !.last = px]
                           ELSE book.longs[s]
      /\ marked.shorts[s] = IF Open(book.shorts[s]) THEN [book.shorts[s] EXCEPT !.last = px]
                            ELSE book.shorts[s]
  BY <1>1, MarkEffect
<1>3. /\ Unmarked(book.longs[s]) = Unmarked(marked.longs[s])
      /\ Unmarked(book.shorts[s]) = Unmarked(marked.shorts[s])
  <2>1. book.longs[s] \in Position /\ book.shorts[s] \in Position
    BY <1>1 DEF Book
  <2> HIDE DEF marked
  <2> QED
    BY <1>2, <2>1 DEF Unmarked, Position
<1>4. book' = after
  BY DEF UpdateMarketPrices
<1> HIDE DEF marked
<1>5. Listed(marked)
  <2>1. /\ book.longs[s] \in Position /\ book.shorts[s] \in Position
        /\ marked.longs[s] \in Position /\ marked.shorts[s] \in Position
    BY <1>1, <1>2 DEF Book
  <2>2. ListedLong(marked.longs[s]) /\ ListedShort(marked.shorts[s])
    BY <1>3, <2>1, UnmarkedListed DEF Listed
  <2> QED
    BY <1>2, <2>2 DEF Listed
<1>6. first \in Book /\ Listed(first) /\ first.cash >= marked.cash
  BY <1>2, <1>5, MaybeExitLongPays
<1> HIDE DEF first
<1>7. after \in Book /\ Listed(after) /\ after.cash >= first.cash
  BY <1>6, MaybeExitShortPays
<1> HIDE DEF after
<1>8. /\ book.cash \in Int /\ marked.cash \in Int /\ first.cash \in Int
      /\ after.cash \in Int
  BY <1>1, <1>2, <1>6, <1>7 DEF Book
<1> QED
  BY <1>2, <1>4, <1>6, <1>7, <1>8

(* A restart takes no cash.                                                 *)
LEMMA RestartPays ==
  ASSUME IInv, Listed(book), Restart
  PROVE  Listed(book') /\ book'.cash = book.cash
<1>1. book \in Book /\ saved \in Snapshot /\ Restorable(saved, book)
  BY DEF IInv, TypeOK, DurableBook
<1>2. /\ book'.longs = saved.longs /\ book'.shorts = saved.shorts
      /\ book'.cash = saved.cash
  BY DEF Restart, RestoreState
<1>3. ASSUME NEW t \in Symbols
      PROVE  ListedLong(saved.longs[t]) /\ ListedShort(saved.shorts[t])
  <2>1. /\ saved.longs[t] \in Position /\ saved.shorts[t] \in Position
        /\ book.longs[t] \in Position /\ book.shorts[t] \in Position
    BY <1>1 DEF Book, Snapshot
  <2>2. /\ Unmarked(book.longs[t]) = Unmarked(saved.longs[t])
        /\ Unmarked(book.shorts[t]) = Unmarked(saved.shorts[t])
    BY <1>1 DEF Restorable
  <2> QED
    BY <2>1, <2>2, UnmarkedListed DEF Listed
<1> QED
  BY <1>1, <1>2, <1>3 DEF Listed, Restorable

(* Orders.  Without leverage there is no more to spend than there is.       *)
LEMMA CashIsPower ==
  ASSUME Exec.leverage <= 1, NEW b \in Book, b.cash >= 0
  PROVE  BuyingPower(b) = b.cash
  BY DEF BuyingPower, Book

(* A purchase leaves what it could pay.                                     *)
LEMMA BuyLongPays ==
  ASSUME IInv, Listed(book), NoOverdraft, NEW s \in Symbols, NEW qty \in Quantities,
         NEW stop \in Prices, NEW target \in Prices \cup {NoTarget},
         BuyLong(s, qty, stop, target)
  PROVE  Listed(book') /\ NoOverdraft'
<1> DEFINE fill == ApplySlippage(latestPrices[s], "BUY")
           fee == ComputeCharges("BUY", qty, fill, FALSE)
           amount == qty * fill + fee
           pos == book.longs[s]
           new == IF Open(pos)
                  THEN [qty |-> pos.qty + qty, cost |-> pos.cost + qty * fill,
                        stop |-> stop, target |-> target, last |-> pos.last]
                  ELSE NewPosition(qty, fill, stop, target)
<1>1. /\ qty \in Nat \ {0} /\ latestPrices[s] \in Nat /\ book \in Book
      /\ book.cash \in Int
  BY OrderInputs DEF IInv, TypeOK, Book
<1>2. fill \in Int
  BY <1>1, FillType
<1>3. /\ book' = WithLong(Pay(book, amount), s, new)
      /\ BuyingPower(book) >= amount
  BY <1>1 DEF BuyLong, Fill, OpenOrAddLong, Pay, Book
<1>4. new.stop = stop /\ new.target = target
  BY DEF NewPosition
<1> HIDE DEF fill
<1>5. fee \in Int
  BY <1>1, <1>2, ChargesType
<1> HIDE DEF fee
<1>6. amount \in Int
  BY <1>1, <1>2, <1>5
<1> HIDE DEF amount, new
<1>7. /\ book'.cash = book.cash - amount /\ book'.shorts = book.shorts
      /\ book'.longs = [book.longs EXCEPT ![s] = new]
  BY <1>3 DEF WithLong, Pay, Book
<1>8. Listed(book')
  <2>1. ListedLong(new)
    BY <1>4 DEF ListedLong, ListedExits
  <2>2. book'.longs[s] = new /\ \A t \in Symbols \ {s} : book'.longs[t] = book.longs[t]
    BY <1>1, <1>7 DEF Book
  <2> QED
    BY <1>7, <2>1, <2>2 DEF Listed
<1>9. Exec.leverage <= 1 => book'.cash >= 0
  <2> SUFFICES ASSUME Exec.leverage <= 1
               PROVE  book'.cash >= 0
    OBVIOUS
  <2>1. BuyingPower(book) = book.cash
    BY <1>1, CashIsPower DEF NoOverdraft
  <2> QED
    BY <1>1, <1>3, <1>6, <1>7, <2>1
<1> QED
  BY <1>8, <1>9 DEF NoOverdraft

(* A short leaves what its margin did.                                      *)
LEMMA SellShortPays ==
  ASSUME IInv, Listed(book), NoOverdraft, NEW s \in Symbols, NEW qty \in Quantities,
         NEW stop \in Prices, NEW target \in Prices \cup {NoTarget},
         SellShort(s, qty, stop, target)
  PROVE  Listed(book') /\ NoOverdraft'
<1> DEFINE fill == ApplySlippage(latestPrices[s], "SELL")
           fee == ComputeCharges("SELL", qty, fill, FALSE)
           amount == qty * fill + fee
           new == NewPosition(qty, fill, stop, target)
<1>1. /\ qty \in Nat \ {0} /\ latestPrices[s] \in Nat /\ book \in Book
      /\ book.cash \in Int
  BY OrderInputs DEF IInv, TypeOK, Book
<1>2. fill \in Int
  BY <1>1, FillType
<1>3. /\ book' = WithShort(Pay(book, amount), s, new)
      /\ BuyingPower(book) >= amount
  BY DEF SellShort, Fill, OpenShort
<1>4. latestPrices[s] \in Prices
  BY DEF SellShort, Placing, IInv, TypeOK
<1>5. ListedShort(new)
  BY <1>4 DEF NewPosition, ListedShort, ListedExits
<1> HIDE DEF fill
<1>6. fee \in Int
  BY <1>1, <1>2, ChargesType
<1> HIDE DEF fee
<1>7. amount \in Int
  BY <1>1, <1>2, <1>6
<1> HIDE DEF amount, new
<1>8. /\ book'.cash = book.cash - amount /\ book'.longs = book.longs
      /\ book'.shorts = [book.shorts EXCEPT ![s] = new]
  BY <1>3 DEF WithShort, Pay, Book
<1>9. Listed(book')
  <2>1. book'.shorts[s] = new /\ \A t \in Symbols \ {s} : book'.shorts[t] = book.shorts[t]
    BY <1>1, <1>8 DEF Book
  <2> QED
    BY <1>5, <1>8, <2>1 DEF Listed
<1>10. Exec.leverage <= 1 => book'.cash >= 0
  <2> SUFFICES ASSUME Exec.leverage <= 1
               PROVE  book'.cash >= 0
    OBVIOUS
  <2>1. BuyingPower(book) = book.cash
    BY <1>1, CashIsPower DEF NoOverdraft
  <2> QED
    BY <1>1, <1>3, <1>7, <1>8, <2>1
<1> QED
  BY <1>9, <1>10 DEF NoOverdraft

(* A sale takes no cash.                                                    *)
LEMMA SellLongPays ==
  ASSUME ExitsPay, IInv, Listed(book), NEW s \in Symbols, NEW qty \in Quantities,
         SellLong(s, qty)
  PROVE  Listed(book') /\ book'.cash >= book.cash
<1>1. book \in Book /\ qty \in Nat \ {0}
  BY OrderInputs DEF IInv, TypeOK
<1>2. /\ book' = ExitLong(book, s, qty, latestPrices[s])
      /\ Open(book.longs[s]) /\ qty <= book.longs[s].qty
      /\ latestPrices[s] \in Prices
  BY DEF SellLong, Placing, Fill, ExitLong, IInv, TypeOK
<1> QED
  BY <1>1, <1>2, ExitLongPays

(* A partial exit takes no cash.                                            *)
LEMMA PartialExitPays ==
  ASSUME ExitsPay, IInv, Listed(book), NEW s \in Symbols, NEW qty \in Quantities,
         NEW price \in Prices, PartialExit(s, qty, price)
  PROVE  Listed(book') /\ book'.cash >= book.cash
<1> DEFINE least(a, b) == IF a < b THEN a ELSE b
           long == book.longs[s]
           short == book.shorts[s]
<1>1. /\ qty \in Nat \ {0} /\ book \in Book /\ long \in Position /\ short \in Position
  BY OrderInputs DEF IInv, TypeOK, Book
<1>2. CASE Open(long) /\ book' = ExitLong(book, s, least(qty, long.qty), price)
  <2> DEFINE part == least(qty, long.qty)
  <2>1. part \in Nat \ {0} /\ part <= long.qty
    BY <1>1, <1>2 DEF Position, Open
  <2>2. book' = ExitLong(book, s, part, price)
    BY <1>2
  <2> HIDE DEF part
  <2> QED
    BY <1>1, <1>2, <2>1, <2>2, ExitLongPays
<1>3. CASE Open(short) /\ book' = ExitShort(book, s, least(qty, short.qty), price)
  <2> DEFINE part == least(qty, short.qty)
  <2>1. part \in Nat \ {0} /\ part <= short.qty
    BY <1>1, <1>3 DEF Position, Open
  <2>2. book' = ExitShort(book, s, part, price)
    BY <1>3
  <2> HIDE DEF part
  <2> QED
    BY <1>1, <1>3, <2>1, <2>2, ExitShortPays
<1> QED
  BY <1>2, <1>3 DEF PartialExit, Fill

(* Without leverage the broker is never overdrawn, if no short is covered   *)
(* by an order (place_order takes the cash twice) and exits pay: whatever   *)
(* is bought, sold short, stopped out, booked in part or restored.          *)
THEOREM NeverOverdrawn ==
  ASSUME "cover" \notin Intents, ExitsPay
  PROVE  Spec => []NoOverdraft
<1>1. Init => NoOverdraft /\ Listed(book)
  <2>1. ListedLong(Flat) /\ ListedShort(Flat)
    BY DEF ListedLong, ListedShort, Open, Flat
  <2>2. InitialCash >= 0
    BY PaperBrokerAssumption
  <2> QED
    BY <2>1, <2>2 DEF Init, NoOverdraft, Listed
<1>2. IInv /\ NoOverdraft /\ Listed(book) /\ [Next]_vars => NoOverdraft' /\ Listed(book)'
  <2> SUFFICES ASSUME IInv, NoOverdraft, Listed(book), [Next]_vars
               PROVE  NoOverdraft' /\ Listed(book')
    OBVIOUS
  <2>1. IInv'
    BY NextIInv
  <2>2. book.cash \in Int /\ book'.cash \in Int
    BY <2>1 DEF IInv, TypeOK, Book
  <2>3. ASSUME Listed(book') /\ book'.cash >= book.cash
        PROVE  NoOverdraft' /\ Listed(book')
    BY <2>2, <2>3 DEF NoOverdraft
  <2>4. CASE UNCHANGED vars
    BY <2>4 DEF vars, NoOverdraft
  <2>5. ASSUME NEW s \in Symbols, NEW px \in Prices, UpdateMarketPrices(s, px)
        PROVE  NoOverdraft' /\ Listed(book')
    BY <2>3, <2>5, TickPays
  <2>6. ASSUME NEW s \in Symbols, NEW qty \in Quantities, NEW stop \in Prices,
               NEW target \in Prices \cup {NoTarget},
               BuyLong(s, qty, stop, target) \/ SellShort(s, qty, stop, target)
        PROVE  NoOverdraft' /\ Listed(book')
    BY <2>6, BuyLongPays, SellShortPays
  <2>7. ASSUME NEW s \in Symbols, NEW qty \in Quantities
        PROVE  ~BuyToCover(s, qty)
    BY DEF BuyToCover, Placing
  <2>8. ASSUME NEW s \in Symbols, NEW qty \in Quantities, SellLong(s, qty)
        PROVE  NoOverdraft' /\ Listed(book')
    BY <2>3, <2>8, SellLongPays
  <2>9. ASSUME NEW s \in Symbols, NEW qty \in Quantities, NEW price \in Prices,
               PartialExit(s, qty, price)
        PROVE  NoOverdraft' /\ Listed(book')
    BY <2>3, <2>9, PartialExitPays
  <2>10. CASE Restart
    BY <2>2, <2>3, <2>10, RestartPays
  <2> QED
    BY <2>4, <2>5, <2>6, <2>7, <2>8, <2>9, <2>10 DEF Next
<1> QED
  BY <1>1, <1>2, Invariance, PTL DEF Spec

-----------------------------------------------------------------------------
(* The square-off: one exit after the other                                 *)

(* An exit of the square-off closes one long, and nothing else changes.     *)
LEMMA SquareoffExitEffect ==
  ASSUME book \in Book, NEW s \in Symbols, SquareoffExit(s)
  PROVE  /\ book' \in Book
         /\ LongsOf(book') \subseteq LongsOf(book) \ {s}
         /\ ShortsOf(book') = ShortsOf(book)
<1>1. /\ Open(book.longs[s])
      /\ book' = ExitLong(book, s, book.longs[s].qty, book.longs[s].last)
  BY DEF SquareoffExit
<1>2. /\ book.longs[s] \in Position /\ book.longs[s].qty \in Nat
      /\ book.longs[s].last \in Int /\ book.longs[s].qty <= book.longs[s].qty
  BY DEF Book, Position
<1>3. ~Open(Reduce(book.longs[s], book.longs[s].qty))
  <2>1. book.longs[s].qty >= book.longs[s].qty
    BY <1>2
  <2> QED
    BY <1>1, <1>2, <2>1, ReduceEffect
<1>4. /\ book' \in Book /\ book'.shorts = book.shorts
      /\ \A t \in Symbols \ {s} : book'.longs[t] = book.longs[t]
      /\ book'.longs[s] = Reduce(book.longs[s], book.longs[s].qty)
  BY <1>1, <1>2, ExitLongEffect
<1> QED
  BY <1>3, <1>4 DEF LongsOf, ShortsOf
-----------------------------------------------------------------------------
(* Types                                                                    *)

OrderType == [symbol: Symbols, side: {"BUY", "SELL"}, qty: Nat \ {0},
              stop: Int, target: Int]
DayOrNone == Days \cup {NoData}

AccountTypeOK ==
  /\ TypeOK
  /\ dailyRows \in [Days -> [start: Int, peak: Int]]
  /\ savedDate \in DayOrNone

ProcessTypeOK ==
  /\ clock \in [day: Days, slot: Slots]
  /\ pc \in {"down", "commands", "squareoff", "closing", "halts", "sleep"}
  /\ toClose \in [longs: SUBSET Symbols, shorts: SUBSET Symbols]
  /\ daily \in [start: Int, peak: Int, date: DayOrNone]
  /\ inFlight \in [Threads -> SUBSET OrderType]
  /\ morning \in [Days -> Int]
  /\ startedOn \in DayOrNone /\ closedOn \in DayOrNone
  /\ overlapped \in BOOLEAN

AgentTypeOK == AccountTypeOK /\ ProcessTypeOK

(* The equity of a book is whole.                                           *)
LEMMA EquityType ==
  ASSUME NEW b \in Book
  PROVE  Equity(b) \in Int
<1> DEFINE f == [s \in Symbols |-> b.longs[s].qty * b.longs[s].last]
           g == [s \in Symbols |-> b.shorts[s].cost - b.shorts[s].qty * b.shorts[s].last]
<1>1. \A s \in Symbols : b.longs[s] \in Position /\ b.shorts[s] \in Position
  BY DEF Book
<1>2. \A p \in Position : p.qty \in Int /\ p.last \in Int /\ p.cost \in Int
  BY DEF Position
<1>3. \A x, y \in Int : x * y \in Int
  OBVIOUS
<1>4. \A s \in Symbols : f[s] \in Int /\ g[s] \in Int
  BY <1>1, <1>2, <1>3
<1>5. DOMAIN f = Symbols /\ DOMAIN g = Symbols /\ IsFiniteSet(Symbols) /\ b.cash \in Int
  BY PaperBrokerAssumption DEF Book
<1>6. Equity(b) = b.cash + SumFunctionOnSet(f, Symbols) + SumFunctionOnSet(g, Symbols)
  BY <1>5 DEF Equity, SumFunction
<1> HIDE DEF f, g
<1>7. SumFunctionOnSet(f, Symbols) \in Int /\ SumFunctionOnSet(g, Symbols) \in Int
  BY <1>4, <1>5, SumOfElements
<1> QED
  BY <1>5, <1>6, <1>7

(* A sized quantity is whole.                                               *)
LEMMA SizeIsWhole ==
  ASSUME NEW equity \in Int, NEW signal, signal.entry \in Nat \ {0}, signal.stop \in Int
  PROVE  PositionSize(equity, signal) \in Int
<1> DEFINE risk == RiskPerShare(signal)
           byRisk == (equity * Risk.per_trade_risk_pct) \div (100 * risk)
           bySize == (equity * Risk.max_position_pct) \div (100 * signal.entry)
<1>1. Risk.per_trade_risk_pct \in Int /\ Risk.max_position_pct \in Int
  BY GuardrailsAssumption
<1>2. risk \in Nat
  BY DEF RiskPerShare
<1>3. \A x \in Int, y \in Nat \ {0} : (x \div y) \in Int
  OBVIOUS
<1>4. /\ equity * Risk.per_trade_risk_pct \in Int
      /\ equity * Risk.max_position_pct \in Int
      /\ 100 * signal.entry \in Nat \ {0}
      /\ risk > 0 => 100 * risk \in Nat \ {0}
  BY <1>1, <1>2
<1>5. bySize \in Int /\ (risk > 0 => byRisk \in Int)
  BY <1>3, <1>4
<1> HIDE DEF risk, byRisk, bySize
<1>6. PositionSize(equity, signal) =
        IF risk <= 0 THEN 0 ELSE AtLeastZero(IF byRisk < bySize THEN byRisk ELSE bySize)
  BY DEF PositionSize, risk, byRisk, bySize
<1> QED
  BY <1>2, <1>5, <1>6 DEF AtLeastZero
-----------------------------------------------------------------------------
(* What a step does to the account                                          *)

(* An order that is placed changes one symbol, and is saved at once.        *)
LEMMA PlaceEffect ==
  ASSUME AgentTypeOK, NEW thread \in Threads, PlaceOrder(thread)
  PROVE  \E order \in inFlight[thread] :
           /\ order.symbol \in Symbols
           /\ OpenPositions(book') \subseteq OpenPositions(book) \cup {order.symbol}
           /\ AccountTypeOK'
           /\ saved' = SnapshotState(book')
           /\ savedDate' = clock.day
           /\ inFlight' = [inFlight EXCEPT ![thread] = {}]
           /\ UNCHANGED <<clock, pc, daily, halted, toClose, dailyRows, history>>
<1>1. PICK order \in inFlight[thread] :
        /\ \/ BuyLong(order.symbol, order.qty, order.stop, order.target)
           \/ BuyToCover(order.symbol, order.qty)
           \/ SellLong(order.symbol, order.qty)
           \/ SellShort(order.symbol, order.qty, order.stop, order.target)
        /\ inFlight' = [inFlight EXCEPT ![thread] = {}]
        /\ savedDate' = clock.day
        /\ UNCHANGED <<clock, pc, daily, halted, toClose, dailyRows, history>>
  BY DEF PlaceOrder
<1> DEFINE s == order.symbol
           qty == order.qty
<1>2. /\ s \in Symbols /\ qty \in Nat \ {0} /\ order.stop \in Int /\ order.target \in Int
  BY DEF AgentTypeOK, ProcessTypeOK, OrderType
<1>3. /\ book \in Book /\ entryFees \in Int /\ orders \in Nat
      /\ latestPrices \in [Symbols -> Prices \cup {NoPrice}]
      /\ latestPrices[s] \in Int
  <2>1. \A p \in Prices \cup {NoPrice} : p \in Int
    BY PaperBrokerAssumption DEF NoPrice
  <2> QED
    BY <1>2, <2>1 DEF AgentTypeOK, AccountTypeOK, TypeOK
<1> HIDE DEF s, qty
<1>4. ASSUME NEW after \in Book, NEW fee \in Int, Fill(after, fee),
             \A t \in Symbols \ {s} : /\ after.longs[t] = book.longs[t]
                                      /\ after.shorts[t] = book.shorts[t]
      PROVE  /\ OpenPositions(book') \subseteq OpenPositions(book) \cup {s}
             /\ AccountTypeOK'
             /\ saved' = SnapshotState(book')
  <2>1. /\ book' = after /\ saved' = SnapshotState(after) /\ entryFees' = entryFees + fee
        /\ orders' = orders + 1 /\ latestPrices' = latestPrices
    BY <1>4 DEF Fill
  <2>2. SnapshotState(after) \in Snapshot
    BY SnapshotEffect
  <2>3. entryFees' \in Int /\ orders' \in Nat
    BY <1>3, <2>1
  <2>4. TypeOK'
    BY <1>3, <2>1, <2>2, <2>3 DEF TypeOK
  <2>5. dailyRows' = dailyRows /\ savedDate' \in DayOrNone
    BY <1>1 DEF AgentTypeOK, ProcessTypeOK, DayOrNone
  <2>6. OpenPositions(after) \subseteq OpenPositions(book) \cup {s}
    BY <1>4 DEF OpenPositions, LongsOf, ShortsOf
  <2> QED
    BY <2>1, <2>4, <2>5, <2>6 DEF AgentTypeOK, AccountTypeOK
<1>5. \A side : ApplySlippage(latestPrices[s], side) \in Int
  BY <1>3, FillType
<1>6. ASSUME NEW side, NEW fill \in Int, NEW cover
      PROVE  /\ ComputeCharges(side, qty, fill, cover) \in Int
             /\ qty * fill + ComputeCharges(side, qty, fill, cover) \in Int
  <2>1. ComputeCharges(side, qty, fill, cover) \in Int
    BY <1>2, ChargesType
  <2> QED
    BY <1>2, <2>1
<1>7. ASSUME BuyLong(s, qty, order.stop, order.target)
      PROVE  /\ OpenPositions(book') \subseteq OpenPositions(book) \cup {s}
             /\ AccountTypeOK'
             /\ saved' = SnapshotState(book')
  <2> DEFINE fill == ApplySlippage(latestPrices[s], "BUY")
             fee == ComputeCharges("BUY", qty, fill, FALSE)
             after == OpenOrAddLong(Pay(book, qty * fill + fee), s, qty, fill,
                                    order.stop, order.target)
  <2>1. Fill(after, fee)
    BY <1>7 DEF BuyLong
  <2>2. fill \in Int /\ fee \in Int /\ qty * fill + fee \in Int
    BY <1>5, <1>6
  <2> HIDE DEF fill, fee
  <2>3. Bought(book, after, s, fill, fee, order.stop)
    BY <1>2, <1>3, <2>2, BuyEffect DEF Costs
  <2> HIDE DEF after
  <2> QED
    BY <1>4, <2>1, <2>2, <2>3 DEF Bought
<1>8. ASSUME BuyToCover(s, qty)
      PROVE  /\ OpenPositions(book') \subseteq OpenPositions(book) \cup {s}
             /\ AccountTypeOK'
             /\ saved' = SnapshotState(book')
  <2> DEFINE fill == ApplySlippage(latestPrices[s], "BUY")
             fee == ComputeCharges("BUY", qty, fill, TRUE)
             covered == CoverShort(book, s, qty, fill, fee)
             after == Pay(covered, qty * fill + fee)
  <2>1. Fill(after, 0) /\ Open(book.shorts[s])
    BY <1>8 DEF BuyToCover
  <2>2. fill \in Int /\ fee \in Int /\ qty * fill + fee \in Int
    BY <1>5, <1>6
  <2> HIDE DEF fill, fee
  <2>3. /\ covered \in Book /\ covered.longs = book.longs
        /\ \A t \in Symbols \ {s} : covered.shorts[t] = book.shorts[t]
    BY <1>2, <1>3, <2>1, <2>2, CoverShortEffect
  <2> HIDE DEF covered
  <2>4. after \in Book /\ after.longs = covered.longs /\ after.shorts = covered.shorts
    BY <2>2, <2>3, PayType
  <2> HIDE DEF after
  <2> QED
    BY <1>4, <2>1, <2>3, <2>4
<1>9. ASSUME SellLong(s, qty)
      PROVE  /\ OpenPositions(book') \subseteq OpenPositions(book) \cup {s}
             /\ AccountTypeOK'
             /\ saved' = SnapshotState(book')
  <2> DEFINE fill == ApplySlippage(latestPrices[s], "SELL")
             fee == ComputeCharges("SELL", qty, fill, FALSE)
             after == CloseLong(book, s, qty, fill, fee)
  <2>1. Fill(after, 0) /\ Open(book.longs[s]) /\ qty <= book.longs[s].qty
    BY <1>9 DEF SellLong
  <2>2. fill \in Int /\ fee \in Int
    BY <1>5, <1>6
  <2> HIDE DEF fill, fee
  <2>3. /\ after \in Book /\ after.shorts = book.shorts
        /\ \A t \in Symbols \ {s} : after.longs[t] = book.longs[t]
    BY <1>2, <1>3, <2>1, <2>2, CloseLongEffect
  <2> HIDE DEF after
  <2> QED
    BY <1>4, <2>1, <2>3
<1>10. ASSUME SellShort(s, qty, order.stop, order.target)
      PROVE  /\ OpenPositions(book') \subseteq OpenPositions(book) \cup {s}
             /\ AccountTypeOK'
             /\ saved' = SnapshotState(book')
  <2> DEFINE fill == ApplySlippage(latestPrices[s], "SELL")
             fee == ComputeCharges("SELL", qty, fill, FALSE)
             after == OpenShort(Pay(book, qty * fill + fee), s, qty, fill,
                                order.stop, order.target)
  <2>1. Fill(after, fee)
    BY <1>10 DEF SellShort
  <2>2. fill \in Int /\ fee \in Int /\ qty * fill + fee \in Int
    BY <1>5, <1>6
  <2> HIDE DEF fill, fee
  <2>3. SoldShort(book, after, s, fill, fee, order.stop)
    BY <1>2, <1>3, <2>2, SellShortEffect DEF Costs
  <2> HIDE DEF after
  <2> QED
    BY <1>4, <2>1, <2>2, <2>3 DEF SoldShort
<1>11. /\ OpenPositions(book') \subseteq OpenPositions(book) \cup {s}
       /\ AccountTypeOK'
       /\ saved' = SnapshotState(book')
  BY <1>1, <1>7, <1>8, <1>9, <1>10 DEF s, qty
<1> QED
  BY <1>1, <1>2, <1>11 DEF s

(* A tick opens nothing, and what it closes is saved: otherwise it has only *)
(* moved last prices.                                                       *)
LEMMA TickCloses ==
  ASSUME AgentTypeOK, NEW s \in Symbols, NEW px \in Prices, OnTick(s, px)
  PROVE  /\ OpenPositions(book') \subseteq OpenPositions(book)
         /\ LongsOf(book') \subseteq LongsOf(book) /\ ShortsOf(book') \subseteq ShortsOf(book)
         /\ AccountTypeOK'
         /\ \/ saved' = SnapshotState(book') /\ savedDate' = clock.day
            \/ /\ saved' = saved /\ savedDate' = savedDate
               /\ book'.cash = book.cash /\ SamePositions(book, book')
<1> DEFINE marked == MarkToMarket(book, s, px)
           first == MaybeExitLong(marked, s)
           after == MaybeExitShort(first, s)
<1>1. /\ book' = after
      /\ latestPrices' = [latestPrices EXCEPT ![s] = px]
      /\ saved' = IF after.trades = marked.trades THEN saved ELSE SnapshotState(after)
      /\ savedDate' = IF after.trades = book.trades THEN savedDate ELSE clock.day
      /\ UNCHANGED <<entryFees, orders, clock, dailyRows>>
  BY DEF OnTick, UpdateMarketPrices
<1>2. /\ book \in Book /\ px \in Int /\ saved \in Snapshot
      /\ latestPrices \in [Symbols -> Prices \cup {NoPrice}]
      /\ \A t \in Symbols : book.longs[t] \in Position /\ book.shorts[t] \in Position
  BY PaperBrokerAssumption DEF AgentTypeOK, AccountTypeOK, TypeOK, Book
<1>3. /\ marked \in Book
      /\ marked.cash = book.cash /\ marked.trades = book.trades
      /\ \A t \in Symbols \ {s} : /\ marked.longs[t] = book.longs[t]
                                  /\ marked.shorts[t] = book.shorts[t]
      /\ marked.longs[s] = IF Open(book.longs[s])
                           THEN [book.longs[s] EXCEPT !.last = px]
                           ELSE book.longs[s]
      /\ marked.shorts[s] = IF Open(book.shorts[s])
                            THEN [book.shorts[s] EXCEPT !.last = px]
                            ELSE book.shorts[s]
  BY <1>2, MarkEffect
<1> HIDE DEF marked
<1>4. \A t \in Symbols :
        /\ marked.longs[t].qty = book.longs[t].qty
        /\ marked.shorts[t].qty = book.shorts[t].qty
        /\ Unmarked(marked.longs[t]) = Unmarked(book.longs[t])
        /\ Unmarked(marked.shorts[t]) = Unmarked(book.shorts[t])
  <2> SUFFICES ASSUME NEW t \in Symbols
               PROVE  /\ marked.longs[t].qty = book.longs[t].qty
                      /\ marked.shorts[t].qty = book.shorts[t].qty
                      /\ Unmarked(marked.longs[t]) = Unmarked(book.longs[t])
                      /\ Unmarked(marked.shorts[t]) = Unmarked(book.shorts[t])
    OBVIOUS
  <2>1. CASE t # s
    BY <1>3, <2>1
  <2>2. CASE t = s
    BY <1>2, <1>3, <2>2 DEF Unmarked, Position
  <2> QED
    BY <2>1, <2>2
<1>5. /\ first \in Book /\ first.shorts = marked.shorts
      /\ \A t \in Symbols \ {s} : first.longs[t] = marked.longs[t]
      /\ \/ first = marked
         \/ Open(marked.longs[s]) /\ ~Open(first.longs[s]) /\ first.trades = marked.trades + 1
  BY <1>3, MaybeExitLongEffect
<1> HIDE DEF first
<1>6. /\ after \in Book /\ after.longs = first.longs
      /\ \A t \in Symbols \ {s} : after.shorts[t] = first.shorts[t]
      /\ \/ after = first
         \/ Open(first.shorts[s]) /\ ~Open(after.shorts[s]) /\ after.trades = first.trades + 1
  BY <1>5, MaybeExitShortEffect
<1> HIDE DEF after
<1>7. after.trades = marked.trades => after = marked
  <2>1. marked.trades \in Nat
    BY <1>3 DEF Book
  <2> QED
    BY <1>5, <1>6, <2>1
<1>8. /\ LongsOf(after) \subseteq LongsOf(book) /\ ShortsOf(after) \subseteq ShortsOf(book)
      /\ OpenPositions(after) \subseteq OpenPositions(book)
  <2> SUFFICES ASSUME NEW t \in Symbols
               PROVE  /\ Open(after.longs[t]) => Open(book.longs[t])
                      /\ Open(after.shorts[t]) => Open(book.shorts[t])
    BY DEF OpenPositions, LongsOf, ShortsOf
  <2>1. /\ Open(marked.longs[t]) => Open(book.longs[t])
        /\ Open(marked.shorts[t]) => Open(book.shorts[t])
    BY <1>4 DEF Open
  <2> QED
    BY <1>5, <1>6, <2>1
<1>9. SamePositions(book, marked)
  BY <1>4 DEF SamePositions
<1>10. saved' \in Snapshot
  BY <1>1, <1>2, <1>6, SnapshotEffect
<1>11. AccountTypeOK'
  BY <1>1, <1>2, <1>6, <1>10
     DEF AgentTypeOK, AccountTypeOK, ProcessTypeOK, TypeOK, DayOrNone
<1>12. CASE after.trades = marked.trades
  BY <1>1, <1>3, <1>7, <1>8, <1>9, <1>11, <1>12
<1>13. CASE after.trades # marked.trades
  BY <1>1, <1>3, <1>8, <1>11, <1>13
<1> QED
  BY <1>12, <1>13
(* An order that is checked and not yet placed: it was within the hours and *)
(* within the number of positions of that moment.                           *)
Checked(thread, order) ==
  /\ order \in OrderType
  /\ inFlight' = [inFlight EXCEPT ![thread] = {order}]
  /\ clock.slot < Hours.no_new_entries_after
  /\ \/ order.symbol \in OpenPositions(book)
     \/ Cardinality(OpenPositions(book)) < Risk.max_open_positions
  /\ overlapped' = (overlapped \/ \E other \in UNION Range(inFlight) :
                                    other.symbol # order.symbol)
  /\ UNCHANGED <<vars, clock, pc, daily, halted, toClose, dailyRows, savedDate,
                 morning, startedOn, closedOn, crashes>>

(* The open positions can be counted.                                       *)
LEMMA PositionsCounted ==
  ASSUME NEW b
  PROVE  IsFiniteSet(OpenPositions(b)) /\ Cardinality(OpenPositions(b)) \in Nat
<1>1. OpenPositions(b) \subseteq Symbols
  BY DEF OpenPositions, LongsOf, ShortsOf
<1>2. IsFiniteSet(OpenPositions(b))
  BY <1>1, PaperBrokerAssumption, FS_Subset
<1> QED
  BY <1>2, FS_CardinalityType

(* An order that passes the check is in flight: in time, and within the     *)
(* limit as the account was at that moment.                                 *)
LEMMA CheckEffect ==
  ASSUME AgentTypeOK, NEW thread \in Threads, NEW signal, NEW qty \in Int, NEW target \in Int,
         signal.symbol \in Symbols, signal.side \in {"BUY", "SELL"}, signal.stop \in Int,
         CheckOrder(thread, signal, qty, target)
  PROVE  Checked(thread, Order(signal, qty, target))
<1>1. Allowed(signal, qty, Portfolio, Market)
  BY DEF CheckOrder
<1>2. ~ QtyNotPositive(qty) /\ ~ OutsideMarketWindow(Market)
      /\ ~ TooManyPositions(signal, Portfolio)
  BY <1>1 DEF Allowed
<1>3. qty \in Nat \ {0}
  BY <1>2 DEF QtyNotPositive
<1>4. Order(signal, qty, target) \in OrderType
  BY <1>3 DEF Order, OrderType
<1>5. clock.slot < Hours.no_new_entries_after
  <2>1. clock.slot \in Int /\ Hours.no_new_entries_after \in Int
    BY GuardrailsAssumption, OrchestratorAssumption DEF AgentTypeOK, ProcessTypeOK, Slots
  <2> QED
    BY <1>2, <2>1 DEF OutsideMarketWindow, Market
<1>6. \/ signal.symbol \in OpenPositions(book)
      \/ Cardinality(OpenPositions(book)) < Risk.max_open_positions
  <2>1. Cardinality(OpenPositions(book)) \in Int /\ Risk.max_open_positions \in Int
    BY PositionsCounted, GuardrailsAssumption
  <2>2. Portfolio.open_positions = OpenPositions(book)
    BY DEF Portfolio
  <2> QED
    BY <1>2, <2>1, <2>2 DEF TooManyPositions
<1>7. Order(signal, qty, target).symbol = signal.symbol
  BY DEF Order
<1> QED
  BY <1>4, <1>5, <1>6, <1>7 DEF CheckOrder, Checked

(* A signal is such an order of the feed thread.                            *)
LEMMA SignalEffect ==
  ASSUME AgentTypeOK, NEW s \in Symbols, NEW side \in {"BUY", "SELL"},
         NEW stop \in Prices, NEW target \in Prices \cup {NoTarget},
         HandleSignal(s, side, stop, target)
  PROVE  \E order \in OrderType : Checked("feed", order)
<1> DEFINE signal == [symbol |-> s, side |-> side, entry |-> latestPrices[s], stop |-> stop]
           qty == PositionSize(Equity(book), signal)
<1>0. CheckOrder("feed", signal, qty, target)
  BY DEF HandleSignal
<1>1. latestPrices[s] \in Nat \ {0} /\ stop \in Int /\ target \in Int
  <2>1. latestPrices[s] \in Prices \cup {NoPrice} /\ latestPrices[s] # NoPrice
    BY DEF HandleSignal, AgentTypeOK, AccountTypeOK, TypeOK
  <2>2. latestPrices[s] \in Prices
    BY <2>1
  <2>3. \A p \in Prices : p \in Nat \ {0}
    BY PaperBrokerAssumption
  <2>4. target \in Int
    BY <2>3 DEF NoTarget
  <2>5. latestPrices[s] \in Nat \ {0}
    BY <2>2, <2>3
  <2>6. stop \in Int
    BY <2>3
  <2> QED
    BY <2>4, <2>5, <2>6
<1>2. qty \in Int
  <2>1. Equity(book) \in Int
    BY EquityType DEF AgentTypeOK, AccountTypeOK, TypeOK
  <2>2. signal.entry \in Nat \ {0} /\ signal.stop \in Int
    BY <1>1
  <2> HIDE DEF signal
  <2> QED
    BY <2>1, <2>2, SizeIsWhole
<1>3. signal.symbol = s /\ signal.side = side /\ signal.stop \in Int
  BY <1>1
<1> HIDE DEF signal, qty
<1>4. Checked("feed", Order(signal, qty, target))
  BY <1>0, <1>1, <1>2, <1>3, CheckEffect DEF Threads
<1> QED
  BY <1>4 DEF Checked

(* A command is such an order of the main thread.                           *)
LEMMA CommandEffect ==
  ASSUME AgentTypeOK, NEW s \in Symbols, NEW side \in {"BUY", "SELL"},
         NEW qty \in Quantities, CommandOrder(s, side, qty)
  PROVE  \E order \in OrderType : Checked("main", order)
<1> DEFINE ltp == latestPrices[s]
           Lower(p) == (ltp * p) \div 100
           Upper(p) == (ltp * p + 99) \div 100
           signal == [symbol |-> s, side |-> side, entry |-> ltp,
                      stop |-> IF side = "BUY" THEN Lower(98) ELSE Upper(102)]
           target == IF side = "BUY" THEN Upper(104) ELSE Lower(96)
<1>1. CheckOrder("main", signal, qty, target)
  BY DEF CommandOrder
<1>2. ltp \in Int /\ qty \in Int
  <2>1. latestPrices[s] \in Prices \cup {NoPrice}
    BY DEF AgentTypeOK, AccountTypeOK, TypeOK
  <2>2. /\ \A p \in Prices : p \in Nat \ {0}
        /\ \A q \in Quantities : q \in Nat \ {0}
    BY PaperBrokerAssumption
  <2> QED
    BY <2>1, <2>2 DEF NoPrice
<1>3. \A p \in Int : Lower(p) \in Int /\ Upper(p) \in Int
  BY <1>2
<1>4. target \in Int
  BY <1>3
<1>5. signal.symbol = s /\ signal.side = side /\ signal.stop \in Int
  BY <1>3
<1> HIDE DEF signal, target
<1>6. Checked("main", Order(signal, qty, target))
  BY <1>1, <1>2, <1>4, <1>5, CheckEffect DEF Threads
<1> QED
  BY <1>6 DEF Checked
-----------------------------------------------------------------------------
(* What a step does to the process and its rows                             *)

(* The days and the slots are numbers; the square-off is after two slots at *)
(* least.                                                                   *)
LEMMA DayBounds ==
  /\ \A d \in Days : d \in Int
  /\ SquareoffAt \in Int /\ SquareoffAt >= 2
  /\ NoData = -1
BY OrchestratorAssumption, GuardrailsAssumption DEF Days, NoData

(* Time goes by one slot or one day, and never past an order in flight into *)
(* the last slot.                                                           *)
LEMMA ClockEffect ==
  ASSUME AgentTypeOK, AdvanceClock
  PROVE  /\ clock' \in [day: Days, slot: Slots]
         /\ \/ /\ clock'.day = clock.day
               /\ clock.slot < SquareoffAt
               /\ clock'.slot = SquareoffAt => inFlight = NothingInFlight
            \/ /\ clock'.day = clock.day + 1 /\ clock'.slot = 1
               /\ clock.slot = SquareoffAt
         /\ UNCHANGED <<vars, process, dailyRows, savedDate, history>>
<1>1. clock \in [day: Days, slot: Slots]
  BY DEF AgentTypeOK, ProcessTypeOK
<1>2. CASE clock.slot < SquareoffAt /\ clock' = [clock EXCEPT !.slot = clock.slot + 1]
  <2>1. clock' = [day |-> clock.day, slot |-> clock.slot + 1]
    BY <1>1, <1>2
  <2>2. clock.slot + 1 \in Slots
    BY <1>1, <1>2, DayBounds DEF Slots
  <2> QED
    BY <1>1, <1>2, <2>1, <2>2 DEF AdvanceClock
<1>3. CASE /\ clock.slot = SquareoffAt /\ clock.day < MaxDay
           /\ clock' = [day |-> clock.day + 1, slot |-> 1]
  <2>1. clock.day + 1 \in Days /\ 1 \in Slots
    BY <1>1, <1>3, DayBounds, OrchestratorAssumption DEF Days, Slots
  <2> QED
    BY <1>3, <2>1 DEF AdvanceClock
<1> QED
  BY <1>2, <1>3 DEF AdvanceClock

(* A new process has today's baseline, if there is a row, and either the    *)
(* account of today's row or a fresh one.                                   *)
LEMMA FreshAccount ==
  /\ FreshBook \in Book
  /\ OpenPositions(FreshBook) = {}
<1>1. Flat \in Position /\ ~Open(Flat)
  BY DEF Flat, Position, Open, NoTarget
<1>2. InitialCash \in Int
  BY PaperBrokerAssumption
<1> QED
  BY <1>1, <1>2 DEF FreshBook, Book, OpenPositions, LongsOf, ShortsOf

(* A start takes the day's baseline from its row if there is one, writes    *)
(* the row, and restores today's account or begins with a fresh one.        *)
LEMMA StartEffect ==
  ASSUME AgentTypeOK, Start
  PROVE  /\ \E start, peak \in Int :
              /\ daily' = [start |-> start, peak |-> peak, date |-> clock.day]
              /\ start = dailyRows[clock.day].start \/ dailyRows[clock.day] = NoRow
         /\ dailyRows' = [dailyRows EXCEPT ![clock.day] = Row(daily')]
         /\ \/ savedDate = clock.day /\ book' = RestoreState(saved)
            \/ savedDate # clock.day /\ book' = FreshBook
         /\ book' \in Book
<1>1. /\ clock.day \in Days /\ saved \in Snapshot
      /\ dailyRows[clock.day].start \in Int /\ dailyRows[clock.day].peak \in Int
  BY DEF AgentTypeOK, AccountTypeOK, ProcessTypeOK, TypeOK
<1>2. Equity(FreshBook) \in Int
  BY FreshAccount, EquityType
<1>3. \A a, b \in Int : Larger(a, b) \in Int
  BY DEF Larger
<1>4. \E start, peak \in Int :
        /\ daily' = [start |-> start, peak |-> peak, date |-> clock.day]
        /\ start = dailyRows[clock.day].start \/ dailyRows[clock.day] = NoRow
  <2> DEFINE equity == Equity(FreshBook)
             row == dailyRows[clock.day]
  <2>1. daily' = IF row # NoRow
                 THEN [start |-> row.start, peak |-> Larger(row.peak, equity),
                       date |-> clock.day]
                 ELSE [start |-> equity, peak |-> equity, date |-> clock.day]
    BY DEF Start, RestoreOrInitDailyState
  <2>2. Larger(row.peak, equity) \in Int
    BY <1>1, <1>2, <1>3
  <2> HIDE DEF equity
  <2>3. CASE row # NoRow
    BY <1>1, <2>1, <2>2, <2>3
  <2>4. CASE row = NoRow
    BY <1>2, <2>1, <2>4 DEF equity
  <2> QED
    BY <2>3, <2>4
<1>5. RestoreState(saved) \in Book
  BY <1>1 DEF RestoreState, Snapshot, Book
<1>6. book' = IF savedDate = clock.day THEN RestoreState(saved) ELSE FreshBook
  BY DEF Start, RestoreBrokerStateIfSameDay
<1> QED
  BY <1>4, <1>5, <1>6, FreshAccount DEF Start

(* The rollover takes the equity of the moment for a baseline once a day.   *)
LEMMA BaselinesEffect ==
  ASSUME AgentTypeOK, Baselines
  PROVE  \E start, peak \in Int :
           /\ daily' = [start |-> start, peak |-> peak, date |-> clock.day]
           /\ start = daily.start \/ daily.date # clock.day
<1> DEFINE equity == Equity(book)
           rolled == IF daily.date # clock.day
                     THEN [daily EXCEPT !.start = equity, !.date = clock.day]
                     ELSE daily
<1>1. daily \in [start: Int, peak: Int, date: DayOrNone] /\ equity \in Int
  BY EquityType DEF AgentTypeOK, AccountTypeOK, ProcessTypeOK, TypeOK
<1>2. daily' = [rolled EXCEPT !.peak = Larger(rolled.peak, equity)]
  BY DEF Baselines
<1> HIDE DEF equity
<1>3. rolled = [start |-> IF daily.date # clock.day THEN equity ELSE daily.start,
                peak |-> daily.peak, date |-> clock.day]
  BY <1>1
<1>4. rolled.start \in Int /\ rolled.peak \in Int
  BY <1>1, <1>3
<1>5. Larger(rolled.peak, equity) \in Int
  BY <1>1, <1>4 DEF Larger
<1>6. daily' = [start |-> rolled.start, peak |-> Larger(rolled.peak, equity),
                date |-> clock.day]
  BY <1>2, <1>3
<1>7. rolled.start = daily.start \/ daily.date # clock.day
  BY <1>3
<1> HIDE DEF rolled
<1> QED
  BY <1>4, <1>5, <1>6, <1>7

(* A checked order keeps the types.                                         *)
LEMMA CheckedType ==
  ASSUME AgentTypeOK, NEW thread \in Threads, NEW order \in OrderType, Checked(thread, order)
  PROVE  AgentTypeOK'
<1>1. inFlight' \in [Threads -> SUBSET OrderType]
  BY DEF Checked, AgentTypeOK, ProcessTypeOK
<1>2. overlapped' \in BOOLEAN
  BY DEF Checked, AgentTypeOK, ProcessTypeOK
<1> QED
  BY <1>1, <1>2
     DEF Checked, AgentTypeOK, AccountTypeOK, ProcessTypeOK, TypeOK, vars

(* A baseline that is written keeps the types, and is the morning's if it   *)
(* is the first.                                                            *)
LEMMA BaselineWritten ==
  ASSUME AgentTypeOK, NEW start \in Int, NEW peak \in Int,
         daily' = [start |-> start, peak |-> peak, date |-> clock.day],
         FirstBaseline(daily')
  PROVE  /\ daily' \in [start: Int, peak: Int, date: DayOrNone]
         /\ Row(daily') = [start |-> start, peak |-> peak]
         /\ [dailyRows EXCEPT ![clock.day] = Row(daily')]
              \in [Days -> [start: Int, peak: Int]]
         /\ morning' \in [Days -> Int]
         /\ \A d \in Days : morning'[d] = IF d # clock.day THEN morning[d]
                                           ELSE IF morning[d] = NoData THEN start
                                           ELSE morning[d]
<1>1. clock.day \in Days /\ morning \in [Days -> Int]
      /\ dailyRows \in [Days -> [start: Int, peak: Int]]
  BY DEF AgentTypeOK, AccountTypeOK, ProcessTypeOK
<1>2. daily'.start = start /\ daily'.peak = peak /\ daily'.date = clock.day
  OBVIOUS
<1>3. Row(daily') = [start |-> start, peak |-> peak]
  BY <1>2 DEF Row
<1>4. morning' = [morning EXCEPT ![clock.day] = IF morning[clock.day] = NoData
                                                THEN start ELSE morning[clock.day]]
  BY <1>2 DEF FirstBaseline
<1> QED
  BY <1>1, <1>3, <1>4 DEF DayOrNone

(* Every step keeps the types.                                              *)
LEMMA AgentTypeStep ==
  ASSUME AgentTypeOK, [AgentNext]_agentVars
  PROVE  AgentTypeOK'
<1>1. ASSUME AdvanceClock PROVE AgentTypeOK'
  BY <1>1, ClockEffect
     DEF AgentTypeOK, AccountTypeOK, ProcessTypeOK, TypeOK, vars, process, history
<1>2. ASSUME Start PROVE AgentTypeOK'
  <2>1. PICK start, peak \in Int : daily' = [start |-> start, peak |-> peak,
                                             date |-> clock.day]
    BY <1>2, StartEffect
  <2>2. /\ daily' \in [start: Int, peak: Int, date: DayOrNone]
        /\ dailyRows' \in [Days -> [start: Int, peak: Int]]
        /\ morning' \in [Days -> Int]
    BY <1>2, <2>1, BaselineWritten DEF Start
  <2>3. book' \in Book
    BY <1>2, StartEffect
  <2>4. /\ inFlight' \in [Threads -> SUBSET OrderType]
        /\ toClose' \in [longs: SUBSET Symbols, shorts: SUBSET Symbols]
    BY <1>2 DEF Start, NothingInFlight, NothingListed
  <2>5. startedOn' \in DayOrNone /\ latestPrices' \in [Symbols -> Prices \cup {NoPrice}]
    BY <1>2 DEF Start, AgentTypeOK, ProcessTypeOK, DayOrNone
  <2>6. AccountTypeOK'
    BY <1>2, <2>2, <2>3, <2>5 DEF Start, AgentTypeOK, AccountTypeOK, TypeOK
  <2>7. ProcessTypeOK'
    BY <1>2, <2>2, <2>4, <2>5 DEF Start, AgentTypeOK, ProcessTypeOK
  <2> QED
    BY <2>6, <2>7 DEF AgentTypeOK
<1>3. ASSUME Crash PROVE AgentTypeOK'
  BY <1>3 DEF Crash, NothingInFlight, NothingListed, AgentTypeOK, AccountTypeOK, ProcessTypeOK, TypeOK, vars
<1>4. ASSUME NEW s \in Symbols, NEW px \in Prices, OnTick(s, px) PROVE AgentTypeOK'
  <2>1. AccountTypeOK'
    BY <1>4, TickCloses
  <2>2. UNCHANGED <<clock, process, history>>
    BY <1>4 DEF OnTick
  <2> QED
    BY <2>1, <2>2 DEF AgentTypeOK, ProcessTypeOK, process, history
<1>5. ASSUME NEW s \in Symbols, NEW side \in {"BUY", "SELL"}, NEW stop \in Prices,
             NEW target \in Prices \cup {NoTarget}, HandleSignal(s, side, stop, target)
      PROVE  AgentTypeOK'
  BY <1>5, SignalEffect, CheckedType DEF Threads
<1>6. ASSUME NEW s \in Symbols, NEW side \in {"BUY", "SELL"}, NEW qty \in Quantities,
             CommandOrder(s, side, qty)
      PROVE  AgentTypeOK'
  BY <1>6, CommandEffect, CheckedType DEF Threads
<1>7. ASSUME NEW thread \in Threads, PlaceOrder(thread) PROVE AgentTypeOK'
  <2>1. AccountTypeOK' /\ inFlight' = [inFlight EXCEPT ![thread] = {}]
        /\ UNCHANGED <<clock, pc, daily, halted, toClose, dailyRows, history>>
    BY <1>7, PlaceEffect
  <2> QED
    BY <2>1 DEF AgentTypeOK, ProcessTypeOK, history
<1>8. ASSUME NEW thread \in Threads, RejectOrder(thread) PROVE AgentTypeOK'
  BY <1>8 DEF RejectOrder, AgentTypeOK, AccountTypeOK, ProcessTypeOK, TypeOK, vars, history
<1>9. ASSUME CommandHalt \/ CommandResume PROVE AgentTypeOK'
  BY <1>9 DEF CommandHalt, CommandResume, AgentTypeOK, AccountTypeOK, ProcessTypeOK,
              TypeOK, vars, history
<1>10. ASSUME Baselines PROVE AgentTypeOK'
  <2>1. PICK start, peak \in Int : daily' = [start |-> start, peak |-> peak,
                                             date |-> clock.day]
    BY <1>10, BaselinesEffect
  <2>2. /\ daily' \in [start: Int, peak: Int, date: DayOrNone]
        /\ dailyRows' \in [Days -> [start: Int, peak: Int]]
        /\ morning' \in [Days -> Int]
    BY <1>10, <2>1, BaselineWritten DEF Baselines, AgentTypeOK, AccountTypeOK
  <2> QED
    BY <1>10, <2>2
       DEF Baselines, AgentTypeOK, AccountTypeOK, ProcessTypeOK, TypeOK, vars
<1>11. ASSUME SkipSquareoff PROVE AgentTypeOK'
  BY <1>11 DEF SkipSquareoff, AgentTypeOK, AccountTypeOK, ProcessTypeOK, TypeOK, vars, DayOrNone
<1>12. ASSUME NEW s \in Symbols, SquareoffExit(s) PROVE AgentTypeOK'
  <2>1. book' \in Book /\ SnapshotState(book') \in Snapshot
    BY <1>12, SquareoffExitEffect, SnapshotEffect DEF AgentTypeOK, AccountTypeOK, TypeOK
  <2>2. savedDate' \in DayOrNone /\ saved' = SnapshotState(book')
    BY <1>12 DEF SquareoffExit, AgentTypeOK, ProcessTypeOK, DayOrNone
  <2>3. toClose' \in [longs: SUBSET Symbols, shorts: SUBSET Symbols]
    BY <1>12 DEF SquareoffExit, AgentTypeOK, ProcessTypeOK
  <2>4. UNCHANGED <<latestPrices, entryFees, orders, clock, pc, daily, halted, inFlight,
                    dailyRows, history>>
    BY <1>12 DEF SquareoffExit
  <2> QED
    BY <2>1, <2>2, <2>3, <2>4 DEF AgentTypeOK, AccountTypeOK, ProcessTypeOK, TypeOK, history
<1>16. ASSUME Squareoff PROVE AgentTypeOK'
  <2>1. toClose' \in [longs: SUBSET Symbols, shorts: SUBSET Symbols] /\ pc' = "closing"
    BY <1>16 DEF Squareoff, LongsOf, ShortsOf
  <2> QED
    BY <1>16, <2>1
       DEF Squareoff, AgentTypeOK, AccountTypeOK, ProcessTypeOK, TypeOK, vars, history
<1>17. ASSUME SquareoffFails \/ SquareoffEnds PROVE AgentTypeOK'
  <2>1. /\ toClose' \in [longs: SUBSET Symbols, shorts: SUBSET Symbols]
        /\ pc' \in {"down", "halts"} /\ closedOn' \in DayOrNone
        /\ inFlight' \in [Threads -> SUBSET OrderType]
    BY <1>17 DEF SquareoffFails, SquareoffEnds, NothingListed, NothingInFlight, AgentTypeOK,
                 ProcessTypeOK, DayOrNone, history
  <2>2. UNCHANGED <<vars, clock, daily, halted, dailyRows, savedDate, morning, startedOn,
                    overlapped>>
    BY <1>17 DEF SquareoffFails, SquareoffEnds, history
  <2> QED
    BY <2>1, <2>2 DEF AgentTypeOK, AccountTypeOK, ProcessTypeOK, TypeOK, vars
<1>13. ASSUME CheckGlobalHalts PROVE AgentTypeOK'
  BY <1>13 DEF CheckGlobalHalts, AgentTypeOK, AccountTypeOK, ProcessTypeOK,
               TypeOK, vars, history
<1>14. ASSUME RunLoop PROVE AgentTypeOK'
  BY <1>14 DEF RunLoop, NothingInFlight, AgentTypeOK, AccountTypeOK, ProcessTypeOK,
               TypeOK, vars, history
<1>15. ASSUME UNCHANGED agentVars PROVE AgentTypeOK'
  BY <1>15 DEF agentVars, process, history, vars, AgentTypeOK, AccountTypeOK,
               ProcessTypeOK, TypeOK
<1> QED
  BY <1>1, <1>2, <1>3, <1>4, <1>5, <1>6, <1>7, <1>8, <1>9, <1>10, <1>11, <1>12,
     <1>13, <1>14, <1>15, <1>16, <1>17 DEF AgentNext, Tick, Threads

(* The agent begins with its types.                                         *)
LEMMA AgentTypeInit == AgentInit => AgentTypeOK
<1> SUFFICES ASSUME AgentInit
             PROVE  AgentTypeOK
  OBVIOUS
<1>1. TypeOK
  BY InitIInv DEF AgentInit, IInv
<1>2. clock \in [day: Days, slot: Slots]
  BY OrchestratorAssumption, DayBounds DEF AgentInit, Days, Slots
<1>3. /\ daily \in [start: Int, peak: Int, date: DayOrNone]
      /\ dailyRows \in [Days -> [start: Int, peak: Int]]
      /\ morning \in [Days -> Int]
      /\ inFlight \in [Threads -> SUBSET OrderType]
      /\ toClose \in [longs: SUBSET Symbols, shorts: SUBSET Symbols]
  BY DayBounds DEF AgentInit, NoRow, DayOrNone, NothingInFlight, NothingListed
<1> QED
  BY <1>1, <1>2, <1>3 DEF AgentInit, AgentTypeOK, AccountTypeOK, ProcessTypeOK, DayOrNone

(* Every variable of the agent keeps its type, the account included, for    *)
(* every account, every limit and any number of days.                       *)
THEOREM AgentTyped == AgentSpec => []AgentTypeOK
<1>1. AgentTypeOK /\ [AgentNext]_agentVars => AgentTypeOK'
  BY AgentTypeStep
<1> QED
  BY <1>1, AgentTypeInit, PTL DEF AgentSpec
-----------------------------------------------------------------------------
(* The baseline of the day                                                  *)

(* The row of a day and the day's first baseline say the same, whether or   *)
(* not a process is up; a day still to come has none; and a process that    *)
(* has lived past midnight and not yet rolled over has left today alone.    *)
RowsTell == \A d \in Days : dailyRows[d].start = morning[d]

ComingDays == \A d \in Days : d > clock.day => morning[d] = NoData

NotRolledOver ==
  Up => /\ daily.date \in 0..clock.day
        /\ daily.date # clock.day => morning[clock.day] = NoData

BaselineInv == RowsTell /\ ComingDays /\ NotRolledOver /\ MorningBaseline

(* A baseline that is the morning's, or the first, keeps the baselines      *)
(* true.                                                                    *)
LEMMA BaselineWrittenTrue ==
  ASSUME AgentTypeOK, RowsTell, ComingDays,
         NEW start \in Int, NEW peak \in Int,
         daily' = [start |-> start, peak |-> peak, date |-> clock.day],
         FirstBaseline(daily'), clock' = clock,
         dailyRows' = [dailyRows EXCEPT ![clock.day] = Row(daily')],
         start = morning[clock.day] \/ morning[clock.day] = NoData
  PROVE  BaselineInv'
<1>1. clock.day \in Days /\ clock.day \in Nat
  BY DEF AgentTypeOK, ProcessTypeOK, Days
<1>2. /\ Row(daily') = [start |-> start, peak |-> peak]
      /\ \A d \in Days : morning'[d] = IF d # clock.day THEN morning[d]
                                        ELSE IF morning[d] = NoData THEN start
                                        ELSE morning[d]
  BY BaselineWritten
<1>3. dailyRows \in [Days -> [start: Int, peak: Int]]
  BY DEF AgentTypeOK, AccountTypeOK
<1>4. morning'[clock.day] = start
  BY <1>1, <1>2
<1>5. \A d \in Days : dailyRows'[d] = IF d = clock.day THEN [start |-> start, peak |-> peak]
                                      ELSE dailyRows[d]
  BY <1>2, <1>3
<1>6. daily'.date = clock.day /\ daily'.start = start
  OBVIOUS
<1>7. RowsTell'
  BY <1>2, <1>4, <1>5 DEF RowsTell
<1>8. ComingDays'
  <2>1. \A d \in Days : d > clock.day => d # clock.day
    BY <1>1, DayBounds
  <2> QED
    BY <1>2, <2>1 DEF ComingDays
<1>9. NotRolledOver'
  BY <1>1, <1>6 DEF NotRolledOver
<1>10. MorningBaseline'
  BY <1>1, <1>2, <1>4, <1>5, <1>6 DEF MorningBaseline
<1> QED
  BY <1>7, <1>8, <1>9, <1>10 DEF BaselineInv

(* The baselines are true when there are none.                              *)
LEMMA BaselineInit == AgentInit => BaselineInv
BY DEF AgentInit, BaselineInv, RowsTell, ComingDays, NotRolledOver, MorningBaseline, Up, NoRow

(* Every step keeps the baselines true.                                     *)
LEMMA BaselineStep ==
  ASSUME AgentTypeOK, BaselineInv, [AgentNext]_agentVars
  PROVE  BaselineInv'
<1> DEFINE Quiet == /\ clock' = clock /\ daily' = daily
                    /\ dailyRows' = dailyRows /\ morning' = morning
                    /\ Up' => Up
<1>1. ASSUME Quiet PROVE BaselineInv'
  BY <1>1 DEF BaselineInv, RowsTell, ComingDays, NotRolledOver, MorningBaseline
<1>2. ASSUME AdvanceClock PROVE BaselineInv'
  <2>1. /\ daily' = daily /\ dailyRows' = dailyRows /\ morning' = morning /\ Up' = Up
        /\ clock'.day = clock.day \/ clock'.day = clock.day + 1
    BY <1>2, ClockEffect DEF process, history, Up
  <2>2. clock.day \in Nat /\ clock'.day \in Days
    BY <1>2, ClockEffect DEF AgentTypeOK, ProcessTypeOK, Days
  <2>3. ComingDays'
    <3>1. \A d \in Days : d > clock'.day => d > clock.day
      BY <2>1, <2>2, DayBounds
    <3> QED
      BY <2>1, <3>1 DEF BaselineInv, ComingDays
  <2>4. NotRolledOver'
    <3> SUFFICES ASSUME Up
                 PROVE  /\ daily.date \in 0..clock'.day
                        /\ daily.date # clock'.day => morning[clock'.day] = NoData
      BY <2>1 DEF NotRolledOver
    <3>1. /\ daily.date \in 0..clock.day
          /\ daily.date # clock.day => morning[clock.day] = NoData
      BY DEF BaselineInv, NotRolledOver
    <3>2. daily.date \in 0..clock'.day
      BY <2>1, <2>2, <3>1
    <3>3. clock'.day # clock.day => morning[clock'.day] = NoData
      BY <2>1, <2>2 DEF BaselineInv, ComingDays
    <3> QED
      BY <3>1, <3>2, <3>3
  <2> QED
    BY <2>1, <2>3, <2>4 DEF BaselineInv, RowsTell, MorningBaseline
<1>3. ASSUME Start PROVE BaselineInv'
  <2>1. PICK start, peak \in Int :
          /\ daily' = [start |-> start, peak |-> peak, date |-> clock.day]
          /\ start = dailyRows[clock.day].start \/ dailyRows[clock.day] = NoRow
    BY <1>3, StartEffect
  <2>2. start = morning[clock.day] \/ morning[clock.day] = NoData
    BY <2>1 DEF BaselineInv, RowsTell, NoRow, AgentTypeOK, ProcessTypeOK
  <2> QED
    BY <1>3, <2>1, <2>2, BaselineWrittenTrue DEF Start, BaselineInv
<1>4. ASSUME Baselines PROVE BaselineInv'
  <2>1. PICK start, peak \in Int :
          /\ daily' = [start |-> start, peak |-> peak, date |-> clock.day]
          /\ start = daily.start \/ daily.date # clock.day
    BY <1>4, BaselinesEffect
  <2>2. Up /\ Up'
    BY <1>4 DEF Baselines, Up
  <2>3. /\ daily.start = morning[daily.date]
        /\ Row(daily) = dailyRows[daily.date]
        /\ daily.date # clock.day => morning[clock.day] = NoData
    BY <2>2 DEF BaselineInv, NotRolledOver, MorningBaseline
  <2>4. start = morning[clock.day] \/ morning[clock.day] = NoData
    BY <2>1, <2>3
  <2>5. dailyRows' = [dailyRows EXCEPT ![clock.day] = Row(daily')]
    <3>1. CASE daily' # daily
      BY <1>4, <3>1 DEF Baselines
    <3>2. CASE daily' = daily
      <4>1. daily.date = clock.day
        BY <2>1, <3>2
      <4>2. Row(daily') = dailyRows[clock.day] /\ dailyRows' = dailyRows
        BY <1>4, <2>3, <3>2, <4>1 DEF Baselines, Row
      <4>3. dailyRows \in [Days -> [start: Int, peak: Int]]
        BY DEF AgentTypeOK, AccountTypeOK
      <4> QED
        BY <4>2, <4>3
    <3> QED
      BY <3>1, <3>2
  <2> QED
    BY <1>4, <2>1, <2>4, <2>5, BaselineWrittenTrue DEF Baselines, BaselineInv
<1>5. ASSUME NEW s \in Symbols, NEW px \in Prices, OnTick(s, px) PROVE Quiet
  <2>1. UNCHANGED <<clock, process, dailyRows, history>>
    BY <1>5 DEF OnTick
  <2> QED
    BY <2>1 DEF process, history, Up
<1>6. ASSUME NEW thread \in Threads, NEW order \in OrderType, Checked(thread, order) PROVE Quiet
  BY <1>6 DEF Checked, Up
<1>7. ASSUME NEW thread \in Threads, PlaceOrder(thread) \/ RejectOrder(thread) PROVE Quiet
  BY <1>7 DEF PlaceOrder, RejectOrder, history, Up
<1>8. ASSUME Crash \/ CommandHalt \/ CommandResume PROVE Quiet
  BY <1>8 DEF Crash, CommandHalt, CommandResume, history, Up
<1>10. ASSUME SkipSquareoff \/ Squareoff \/ SquareoffFails \/ SquareoffEnds PROVE Quiet
  BY <1>10 DEF SkipSquareoff, Squareoff, SquareoffFails, SquareoffEnds, history, Up
<1>11. ASSUME NEW s \in Symbols, SquareoffExit(s) PROVE Quiet
  BY <1>11 DEF SquareoffExit, history, Up
<1>9. ASSUME CheckGlobalHalts \/ RunLoop \/ UNCHANGED agentVars PROVE Quiet
  BY <1>9 DEF CheckGlobalHalts, RunLoop, agentVars, process, history, Up
<1> HIDE DEF Quiet
<1> QED
  BY <1>1, <1>2, <1>3, <1>4, <1>5, <1>6, <1>7, <1>8, <1>9, <1>10, <1>11, SignalEffect,
     CommandEffect
     DEF AgentNext, Tick, Threads

(* The daily-loss circuit always measures a day against the first equity    *)
(* the agent saw that day, however often the process crashed, restarted or  *)
(* ran across midnight (orchestrator.py:544).                               *)
THEOREM BaselineIsTheMornings == AgentSpec => []MorningBaseline
<1>1. AgentTypeOK /\ BaselineInv /\ [AgentNext]_agentVars => BaselineInv'
  BY BaselineStep
<1>2. BaselineInv => MorningBaseline
  BY DEF BaselineInv
<1> QED
  BY <1>1, <1>2, BaselineInit, AgentTyped, PTL DEF AgentSpec
-----------------------------------------------------------------------------
(* What a restart brings back                                               *)

(* Today's row has the account that is in memory, but for last prices, and  *)
(* without a row of today the account is still the fresh one. No date that  *)
(* is kept lies in the future.                                              *)
RowIsCurrent ==
  savedDate = clock.day => saved.cash = book.cash /\ SamePositions(book, saved)

FreshWithoutRow ==
  startedOn = clock.day /\ savedDate # clock.day
    => book.cash = InitialCash /\ SamePositions(FreshBook, book)

DatesPast == savedDate <= clock.day /\ startedOn <= clock.day /\ closedOn <= clock.day

RestoredInv == RowIsCurrent /\ FreshWithoutRow /\ DatesPast

(* The steps, as far as the row is concerned.                               *)
SameDates ==
  /\ clock'.day = clock.day
  /\ startedOn' = startedOn
  /\ closedOn' \in {closedOn, clock.day}

KeepsAccount ==
  /\ SameDates
  /\ UNCHANGED <<saved, savedDate>>
  /\ book'.cash = book.cash
  /\ SamePositions(book, book')

SavesAccount ==
  /\ SameDates
  /\ saved' = SnapshotState(book')
  /\ savedDate' = clock.day

(* A step leaves the account alone, saves it, lets time pass or is a start. *)
LEMMA AccountSteps ==
  ASSUME AgentTypeOK, [AgentNext]_agentVars
  PROVE  KeepsAccount \/ SavesAccount \/ AdvanceClock \/ Start
<1>0. SamePositions(book, book)
  BY DEF SamePositions
<1>1. ASSUME NEW s \in Symbols, NEW px \in Prices, OnTick(s, px)
      PROVE  KeepsAccount \/ SavesAccount
  <2>1. SameDates
    BY <1>1 DEF OnTick, SameDates, history
  <2> QED
    BY <1>1, <2>1, TickCloses DEF KeepsAccount, SavesAccount
<1>2. ASSUME NEW thread \in Threads, NEW order \in OrderType, Checked(thread, order)
      PROVE  KeepsAccount
  BY <1>0, <1>2 DEF Checked, KeepsAccount, SameDates, vars
<1>3. ASSUME NEW thread \in Threads, PlaceOrder(thread) PROVE SavesAccount
  <2>1. SameDates
    BY <1>3 DEF PlaceOrder, SameDates, history
  <2> QED
    BY <1>3, <2>1, PlaceEffect DEF SavesAccount
<1>4. ASSUME NEW thread \in Threads, RejectOrder(thread) PROVE KeepsAccount
  BY <1>0, <1>4 DEF RejectOrder, KeepsAccount, SameDates, vars, history
<1>5. ASSUME Crash \/ CommandHalt \/ CommandResume \/ SkipSquareoff \/ Baselines
      PROVE  KeepsAccount
  BY <1>0, <1>5 DEF Crash, CommandHalt, CommandResume, SkipSquareoff, Baselines,
                    KeepsAccount, SameDates, vars, history
<1>6. ASSUME CheckGlobalHalts \/ RunLoop \/ UNCHANGED agentVars PROVE KeepsAccount
  BY <1>0, <1>6 DEF CheckGlobalHalts, RunLoop, KeepsAccount, SameDates,
                    agentVars, process, vars, history
<1>7. ASSUME NEW s \in Symbols, SquareoffExit(s) PROVE SavesAccount
  BY <1>7 DEF SquareoffExit, SavesAccount, SameDates, history
<1>8. ASSUME Squareoff \/ SquareoffFails \/ SquareoffEnds PROVE KeepsAccount
  BY <1>0, <1>8 DEF Squareoff, SquareoffFails, SquareoffEnds, KeepsAccount, SameDates,
                    vars, history
<1> QED
  BY <1>1, <1>2, <1>3, <1>4, <1>5, <1>6, <1>7, <1>8, SignalEffect, CommandEffect
     DEF AgentNext, Tick, Threads

(* What has the positions of the same book has the same positions.          *)
LEMMA SamePositionsCompose ==
  ASSUME NEW a, NEW b, NEW c, SamePositions(a, b), SamePositions(a, c)
  PROVE  SamePositions(b, c)
BY DEF SamePositions

(* Having the same positions works both ways.                               *)
LEMMA SamePositionsSwap ==
  ASSUME NEW a, NEW b, SamePositions(a, b)
  PROVE  SamePositions(b, a)
BY DEF SamePositions

(* At the beginning there is nothing to restore.                            *)
LEMMA RestoredInit == AgentInit => RestoredInv
<1> SUFFICES ASSUME AgentInit
             PROVE  RestoredInv
  OBVIOUS
<1>1. savedDate = -1 /\ startedOn = -1 /\ closedOn = -1 /\ clock.day = 0
  BY DayBounds DEF AgentInit
<1> QED
  BY <1>1 DEF RestoredInv, RowIsCurrent, FreshWithoutRow, DatesPast

(* Every step keeps the row of today current.                               *)
LEMMA RestoredStep ==
  ASSUME AgentTypeOK, RestoredInv, [AgentNext]_agentVars
  PROVE  RestoredInv'
<1>0. /\ clock.day \in Nat /\ savedDate \in Int /\ startedOn \in Int /\ closedOn \in Int
      /\ savedDate <= clock.day /\ startedOn <= clock.day /\ closedOn <= clock.day
  BY DayBounds
     DEF AgentTypeOK, AccountTypeOK, ProcessTypeOK, DayOrNone, Days, RestoredInv, DatesPast
<1>1. CASE KeepsAccount
  <2>1. RowIsCurrent'
    <3> SUFFICES ASSUME savedDate = clock.day
                 PROVE  saved.cash = book'.cash /\ SamePositions(book', saved)
      BY <1>1 DEF KeepsAccount, SameDates, RowIsCurrent
    <3>1. saved.cash = book.cash /\ SamePositions(book, saved)
      BY DEF RestoredInv, RowIsCurrent
    <3> QED
      BY <1>1, <3>1, SamePositionsCompose DEF KeepsAccount
  <2>2. FreshWithoutRow'
    <3> SUFFICES ASSUME startedOn = clock.day, savedDate # clock.day
                 PROVE  book'.cash = InitialCash /\ SamePositions(FreshBook, book')
      BY <1>1 DEF KeepsAccount, SameDates, FreshWithoutRow
    <3>1. book.cash = InitialCash /\ SamePositions(FreshBook, book)
      BY DEF RestoredInv, FreshWithoutRow
    <3> QED
      BY <1>1, <3>1, SamePositionsCompose, SamePositionsSwap DEF KeepsAccount
  <2>3. DatesPast'
    BY <1>0, <1>1 DEF KeepsAccount, SameDates, DatesPast
  <2> QED
    BY <2>1, <2>2, <2>3 DEF RestoredInv
<1>2. CASE SavesAccount
  <2>1. RowIsCurrent'
    BY <1>2 DEF SavesAccount, SameDates, RowIsCurrent, SnapshotState, SamePositions
  <2>2. FreshWithoutRow' /\ DatesPast'
    BY <1>0, <1>2 DEF SavesAccount, SameDates, FreshWithoutRow, DatesPast
  <2> QED
    BY <2>1, <2>2 DEF RestoredInv
<1>3. CASE AdvanceClock
  <2>1. UNCHANGED <<book, saved, savedDate, startedOn, closedOn>>
    BY <1>3, ClockEffect DEF vars, history
  <2>2. clock'.day = clock.day \/ clock'.day = clock.day + 1
    BY <1>3, ClockEffect
  <2>3. CASE clock'.day = clock.day
    BY <2>1, <2>3 DEF RestoredInv, RowIsCurrent, FreshWithoutRow, DatesPast
  <2>4. CASE clock'.day = clock.day + 1
    BY <1>0, <2>1, <2>4 DEF RestoredInv, RowIsCurrent, FreshWithoutRow, DatesPast
  <2> QED
    BY <2>2, <2>3, <2>4
<1>4. CASE Start
  <2>1. /\ clock' = clock /\ saved' = saved /\ savedDate' = savedDate
        /\ closedOn' = closedOn /\ startedOn' = clock.day
    BY <1>4 DEF Start
  <2>2. CASE savedDate = clock.day /\ book' = RestoreState(saved)
    BY <1>0, <2>1, <2>2
       DEF RestoredInv, RowIsCurrent, FreshWithoutRow, DatesPast, RestoreState, SamePositions
  <2>3. CASE savedDate # clock.day /\ book' = FreshBook
    <3>1. FreshBook.cash = InitialCash /\ SamePositions(FreshBook, FreshBook)
      BY DEF FreshBook, SamePositions
    <3> QED
      BY <1>0, <2>1, <2>3, <3>1 DEF RestoredInv, RowIsCurrent, FreshWithoutRow, DatesPast
  <2> QED
    BY <1>4, <2>2, <2>3, StartEffect
<1> QED
  BY <1>1, <1>2, <1>3, <1>4, AccountSteps

(* What a restart on the same day would restore is the account as it is,    *)
(* and no row, start or square-off is of a day to come (orchestrator.py:137).*)
THEOREM RowAlwaysCurrent == AgentSpec => []RestoredInv
<1>1. AgentTypeOK /\ RestoredInv /\ [AgentNext]_agentVars => RestoredInv'
  BY RestoredStep
<1> QED
  BY <1>1, RestoredInit, AgentTyped, PTL DEF AgentSpec

(* A process that is down comes up by a start only.                         *)
LEMMA OnlyStartStarts ==
  ASSUME [AgentNext]_agentVars, AgentTypeOK, pc = "down", pc' # "down"
  PROVE  Start
<1>1. ~ \E s \in Symbols, px \in Prices : OnTick(s, px)
  BY DEF OnTick
<1>2. ~ \E thread \in Threads : PlaceOrder(thread) \/ RejectOrder(thread)
  BY DEF PlaceOrder, RejectOrder
<1>3. ~ \E thread \in Threads, order \in OrderType : Checked(thread, order)
  BY DEF Checked
<1>4. ~ (Crash \/ CommandHalt \/ CommandResume \/ SkipSquareoff \/ Baselines \/ Squareoff)
  BY DEF Crash, CommandHalt, CommandResume, SkipSquareoff, Baselines, Squareoff
<1>6. ~ (SquareoffFails \/ SquareoffEnds \/ \E s \in Symbols : SquareoffExit(s))
  BY DEF SquareoffFails, SquareoffEnds, SquareoffExit
<1>5. ~ (CheckGlobalHalts \/ RunLoop \/ AdvanceClock \/ UNCHANGED agentVars)
  BY DEF CheckGlobalHalts, RunLoop, AdvanceClock, agentVars, process
<1> QED
  BY <1>1, <1>2, <1>3, <1>4, <1>5, <1>6, SignalEffect, CommandEffect
     DEF AgentNext, Tick, Threads

(* A process that restarts on the day it was started has the cash and the   *)
(* positions its predecessor had, wherever that one crashed                 *)
(* (orchestrator.py:137).                                                   *)
THEOREM RestartsCarryOver == AgentSpec => SameDayRestart
<1>1. ASSUME AgentTypeOK, RestoredInv, [AgentNext]_agentVars, Restarts, startedOn = clock.day
      PROVE  CarriedOver
  <2>1. Start
    BY <1>1, OnlyStartStarts DEF Restarts
  <2>2. CASE savedDate = clock.day /\ book' = RestoreState(saved)
    BY <1>1, <2>2
       DEF RestoredInv, RowIsCurrent, RestoreState, SamePositions, CarriedOver
  <2>3. CASE savedDate # clock.day /\ book' = FreshBook
    <3>1. book.cash = InitialCash /\ SamePositions(FreshBook, book)
      BY <1>1, <2>3 DEF RestoredInv, FreshWithoutRow
    <3>2. FreshBook.cash = InitialCash
      BY DEF FreshBook
    <3> QED
      BY <2>3, <3>1, <3>2, SamePositionsSwap DEF CarriedOver
  <2> QED
    BY <1>1, <2>1, <2>2, <2>3, StartEffect
<1>2. AgentTypeOK /\ RestoredInv /\ [AgentNext]_agentVars
        => [Restarts /\ startedOn = clock.day => CarriedOver]_agentVars
  BY <1>1
<1> QED
  BY <1>2, AgentTyped, RowAlwaysCurrent, PTL DEF AgentSpec, SameDayRestart
-----------------------------------------------------------------------------
(* The open positions                                                       *)

(* The same positions are open in both.                                     *)
LEMMA SameAreOpen ==
  ASSUME NEW a \in Book, NEW b, SamePositions(a, b), b \in Snapshot \/ b \in Book
  PROVE  OpenPositions(b) = OpenPositions(a)
<1>1. \A p \in Position : Unmarked(p).qty = p.qty
  BY DEF Unmarked, Position
<1>2. \A s \in Symbols : /\ a.longs[s] \in Position /\ a.shorts[s] \in Position
                        /\ b.longs[s] \in Position /\ b.shorts[s] \in Position
  BY DEF Book, Snapshot
<1>3. \A s \in Symbols : a.longs[s].qty = b.longs[s].qty /\ a.shorts[s].qty = b.shorts[s].qty
  BY <1>1, <1>2 DEF SamePositions
<1> QED
  BY <1>3 DEF OpenPositions, LongsOf, ShortsOf, Open

(* A start opens no position that was not open before.                      *)
LEMMA StartOpens ==
  ASSUME AgentTypeOK, RestoredInv, Start
  PROVE  OpenPositions(book') \subseteq OpenPositions(book)
<1>1. book \in Book /\ saved \in Snapshot
  BY DEF AgentTypeOK, AccountTypeOK, TypeOK
<1>2. CASE savedDate = clock.day /\ book' = RestoreState(saved)
  <2>1. OpenPositions(saved) = OpenPositions(book)
    BY <1>1, <1>2, SameAreOpen DEF RestoredInv, RowIsCurrent
  <2>2. OpenPositions(book') = OpenPositions(saved)
    BY <1>2 DEF OpenPositions, LongsOf, ShortsOf, RestoreState
  <2> QED
    BY <2>1, <2>2
<1>3. CASE book' = FreshBook
  BY <1>3, FreshAccount
<1> QED
  BY <1>2, <1>3, StartEffect

(* Steps that open nothing and want nothing more than before.               *)
OpensNothing ==
  /\ OpenPositions(book') \subseteq OpenPositions(book)
  /\ \A t \in Threads : inFlight'[t] \subseteq inFlight[t]

Drained == \A t \in Threads : inFlight[t] = {}

(* What a step may do to the positions and to the orders in flight.         *)
LEMMA QuietSteps ==
  ASSUME AgentTypeOK, RestoredInv, [AgentNext]_agentVars
  PROVE  \/ OpensNothing /\ UNCHANGED <<overlapped, clock, closedOn>>
         \/ /\ OpensNothing /\ overlapped' = overlapped
            /\ AdvanceClock \/ SkipSquareoff \/ SquareoffEnds
         \/ \E thread \in Threads :
              \/ \E order \in OrderType : Checked(thread, order)
              \/ PlaceOrder(thread)
<1> DEFINE Quiet == OpensNothing /\ UNCHANGED <<overlapped, clock, closedOn>>
<1>0. /\ inFlight \in [Threads -> SUBSET OrderType] /\ book \in Book
      /\ \A t \in Threads : NothingInFlight[t] = {}
  BY DEF AgentTypeOK, AccountTypeOK, ProcessTypeOK, TypeOK, NothingInFlight
<1>1. ASSUME NEW s \in Symbols, NEW px \in Prices, OnTick(s, px) PROVE Quiet
  <2>1. UNCHANGED <<inFlight, overlapped, clock, closedOn>>
    BY <1>1 DEF OnTick, process, history
  <2> QED
    BY <1>1, <2>1, TickCloses DEF OpensNothing
<1>2. ASSUME NEW thread \in Threads, RejectOrder(thread) PROVE Quiet
  BY <1>0, <1>2 DEF RejectOrder, OpensNothing, vars, history
<1>3. ASSUME Crash \/ CommandHalt \/ CommandResume \/ Baselines PROVE Quiet
  BY <1>0, <1>3 DEF Crash, CommandHalt, CommandResume, Baselines, OpensNothing, vars, history
<1>4. ASSUME CheckGlobalHalts \/ RunLoop \/ UNCHANGED agentVars PROVE Quiet
  BY <1>0, <1>4 DEF CheckGlobalHalts, RunLoop, OpensNothing, agentVars, process, vars, history
<1>5. ASSUME Start PROVE Quiet
  BY <1>0, <1>5, StartOpens DEF Start, OpensNothing
<1>6. ASSUME AdvanceClock PROVE OpensNothing /\ overlapped' = overlapped
  BY <1>6 DEF AdvanceClock, OpensNothing, process, vars, history
<1>7. ASSUME SkipSquareoff PROVE OpensNothing /\ overlapped' = overlapped
  BY <1>7 DEF SkipSquareoff, OpensNothing, vars
<1>8. ASSUME SquareoffEnds PROVE OpensNothing /\ overlapped' = overlapped
  BY <1>8 DEF SquareoffEnds, OpensNothing, vars
<1>10. ASSUME Squareoff \/ SquareoffFails PROVE Quiet
  BY <1>0, <1>10 DEF Squareoff, SquareoffFails, OpensNothing, vars, history
<1>11. ASSUME NEW s \in Symbols, SquareoffExit(s) PROVE Quiet
  <2>1. OpenPositions(book') \subseteq OpenPositions(book)
    BY <1>0, <1>11, SquareoffExitEffect DEF OpenPositions
  <2> QED
    BY <1>11, <2>1 DEF SquareoffExit, OpensNothing, history
<1> HIDE DEF Quiet
<1>9. ASSUME ~Quiet, ~(AdvanceClock \/ SkipSquareoff \/ SquareoffEnds)
      PROVE  \E thread \in Threads :
               \/ \E order \in OrderType : Checked(thread, order)
               \/ PlaceOrder(thread)
  BY <1>1, <1>2, <1>3, <1>4, <1>5, <1>9, <1>10, <1>11, SignalEffect, CommandEffect
     DEF AgentNext, Tick, Threads
<1> QED
  BY <1>6, <1>7, <1>8, <1>9 DEF Quiet

(* In the last slot no order is in flight any more, and from a square-off   *)
(* that ran to its end to the end of its day nothing is open, process or    *)
(* no process.                                                              *)
LastSlotDrained == clock.slot = SquareoffAt => Drained

ClosedIsFlat ==
  closedOn = clock.day => clock.slot = SquareoffAt /\ OpenPositions(book) = {}

(* While the square-off goes through its list, nothing is open that is not  *)
(* on it.                                                                   *)
OpenIsListed ==
  pc = "closing" =>
    /\ clock.slot = SquareoffAt /\ closedOn # clock.day
    /\ LongsOf(book) \subseteq toClose.longs
    /\ ShortsOf(book) \subseteq toClose.shorts

FlatInv == LastSlotDrained /\ ClosedIsFlat /\ OpenIsListed

(* At the beginning no day is closed.                                       *)
LEMMA FlatInit == AgentInit => FlatInv
<1> SUFFICES ASSUME AgentInit
             PROVE  FlatInv
  OBVIOUS
<1>1. closedOn = -1 /\ clock.day = 0
  BY DayBounds DEF AgentInit
<1>2. Drained
  BY DEF AgentInit, Drained, NothingInFlight
<1> QED
  BY <1>1, <1>2 DEF AgentInit, FlatInv, LastSlotDrained, ClosedIsFlat, OpenIsListed

(* Every step keeps what is open on the list.                               *)
LEMMA ListedStep ==
  ASSUME AgentTypeOK, FlatInv, [AgentNext]_agentVars
  PROVE  OpenIsListed'
<1>0. /\ clock.slot \in Int /\ clock.slot <= SquareoffAt
      /\ book \in Book /\ \A t \in Threads : inFlight[t] \in SUBSET OrderType
  BY DayBounds DEF AgentTypeOK, AccountTypeOK, ProcessTypeOK, TypeOK, Slots
<1> DEFINE Same == UNCHANGED <<book, clock, pc, toClose, closedOn>>
<1>1. ASSUME Same PROVE OpenIsListed'
  BY <1>1 DEF FlatInv, OpenIsListed
<1>2. ASSUME pc' # "closing" PROVE OpenIsListed'
  BY <1>2 DEF OpenIsListed
<1>3. ASSUME AdvanceClock PROVE OpenIsListed'
  <2>1. UNCHANGED <<vars, process, history>>
    BY <1>3, ClockEffect
  <2>2. pc # "closing"
    <3> SUFFICES ASSUME pc = "closing"
                 PROVE  FALSE
      OBVIOUS
    <3>1. clock.slot = SquareoffAt /\ closedOn # clock.day
      BY DEF FlatInv, OpenIsListed
    <3> QED
      BY <1>0, <1>3, <3>1 DEF AdvanceClock
  <2> QED
    BY <1>2, <2>1, <2>2 DEF process
<1>4. ASSUME NEW s \in Symbols, NEW px \in Prices, OnTick(s, px) PROVE OpenIsListed'
  <2>1. LongsOf(book') \subseteq LongsOf(book) /\ ShortsOf(book') \subseteq ShortsOf(book)
    BY <1>4, TickCloses
  <2>2. UNCHANGED <<clock, pc, toClose, closedOn>>
    BY <1>4 DEF OnTick, process, history
  <2> QED
    BY <2>1, <2>2 DEF FlatInv, OpenIsListed
<1>5. ASSUME NEW thread \in Threads, NEW order \in OrderType, Checked(thread, order)
      PROVE  Same
  BY <1>5 DEF Checked, vars
<1>6. ASSUME NEW thread \in Threads, PlaceOrder(thread) PROVE OpenIsListed'
  <2>1. inFlight[thread] # {} /\ pc' = pc
    BY <1>6 DEF PlaceOrder
  <2>2. pc # "closing"
    BY <2>1 DEF FlatInv, OpenIsListed, LastSlotDrained, Drained
  <2> QED
    BY <1>2, <2>1, <2>2
<1>7. ASSUME NEW thread \in Threads, RejectOrder(thread) PROVE Same
  BY <1>7 DEF RejectOrder, vars, history
<1>8. ASSUME CommandHalt \/ CommandResume \/ UNCHANGED agentVars PROVE Same
  BY <1>8 DEF CommandHalt, CommandResume, agentVars, process, vars, history
<1>9. ASSUME Start \/ Crash \/ Baselines \/ CheckGlobalHalts \/ RunLoop PROVE pc' # "closing"
  BY <1>9 DEF Start, Crash, Baselines, CheckGlobalHalts, RunLoop
<1>10. ASSUME SkipSquareoff \/ SquareoffFails \/ SquareoffEnds PROVE pc' # "closing"
  BY <1>10 DEF SkipSquareoff, SquareoffFails, SquareoffEnds
<1>11. ASSUME Squareoff PROVE OpenIsListed'
  <2>1. /\ clock.slot >= SquareoffAt /\ OpenPositions(book) # {}
        /\ toClose' = [longs |-> LongsOf(book), shorts |-> ShortsOf(book)]
        /\ UNCHANGED <<book, clock, closedOn>>
    BY <1>11 DEF Squareoff, vars, history
  <2>2. clock.slot = SquareoffAt
    BY <1>0, <2>1, DayBounds
  <2>3. closedOn # clock.day
    BY <2>1 DEF FlatInv, ClosedIsFlat
  <2> QED
    BY <2>1, <2>2, <2>3 DEF OpenIsListed
<1>12. ASSUME NEW s \in Symbols, SquareoffExit(s) PROVE OpenIsListed'
  <2>1. /\ LongsOf(book') \subseteq LongsOf(book) \ {s} /\ ShortsOf(book') = ShortsOf(book)
    BY <1>0, <1>12, SquareoffExitEffect
  <2>2. /\ pc = "closing" /\ toClose' = [toClose EXCEPT !.longs = toClose.longs \ {s}]
        /\ UNCHANGED <<clock, closedOn>>
    BY <1>12 DEF SquareoffExit, history
  <2>3. toClose'.longs = toClose.longs \ {s} /\ toClose'.shorts = toClose.shorts
    BY <2>2 DEF AgentTypeOK, ProcessTypeOK
  <2> QED
    BY <2>1, <2>2, <2>3 DEF FlatInv, OpenIsListed
<1> HIDE DEF Same
<1> QED
  BY <1>1, <1>2, <1>3, <1>4, <1>5, <1>6, <1>7, <1>8, <1>9, <1>10, <1>11, <1>12,
     SignalEffect, CommandEffect
     DEF AgentNext, Tick, Threads

(* Every step keeps a closed day flat.                                      *)
LEMMA ClosedStep ==
  ASSUME AgentTypeOK, RestoredInv, FlatInv, [AgentNext]_agentVars
  PROVE  LastSlotDrained' /\ ClosedIsFlat'
<1>0. clock.slot \in Int /\ clock.day \in Nat /\ clock.slot <= SquareoffAt
      /\ closedOn \in Int /\ closedOn <= clock.day
      /\ inFlight \in [Threads -> SUBSET OrderType]
  BY DayBounds
     DEF AgentTypeOK, ProcessTypeOK, Slots, Days, DayOrNone, RestoredInv, DatesPast
<1>1. CASE OpensNothing /\ UNCHANGED <<overlapped, clock, closedOn>>
  BY <1>1 DEF OpensNothing, FlatInv, LastSlotDrained, ClosedIsFlat, Drained
<1>2. CASE OpensNothing /\ AdvanceClock
  <2>1. UNCHANGED <<book, inFlight, closedOn>>
    BY <1>2, ClockEffect DEF vars, process, history
  <2>2. CASE /\ clock'.day = clock.day /\ clock.slot < SquareoffAt
             /\ clock'.slot = SquareoffAt => inFlight = NothingInFlight
    <3>1. closedOn # clock.day
      BY <1>0, <2>2 DEF FlatInv, ClosedIsFlat
    <3> QED
      BY <2>1, <2>2, <3>1 DEF FlatInv, LastSlotDrained, ClosedIsFlat, Drained, NothingInFlight
  <2>3. CASE clock'.day = clock.day + 1 /\ clock'.slot = 1
    BY <1>0, <2>1, <2>3, DayBounds DEF FlatInv, LastSlotDrained, ClosedIsFlat
  <2> QED
    BY <1>2, <2>2, <2>3, ClockEffect
<1>3. CASE OpensNothing /\ SkipSquareoff
  <2>1. /\ clock' = clock /\ inFlight' = inFlight
        /\ closedOn' = IF clock.slot < SquareoffAt THEN closedOn ELSE clock.day
        /\ clock.slot < SquareoffAt \/ OpenPositions(book) = {}
    BY <1>3 DEF SkipSquareoff
  <2>2. CASE clock.slot < SquareoffAt
    BY <1>3, <2>1, <2>2
       DEF OpensNothing, FlatInv, LastSlotDrained, ClosedIsFlat, Drained
  <2>3. CASE ~(clock.slot < SquareoffAt)
    <3>1. clock.slot = SquareoffAt
      BY <1>0, <2>3, DayBounds
    <3> QED
      BY <1>3, <2>1, <2>3, <3>1
         DEF OpensNothing, FlatInv, LastSlotDrained, ClosedIsFlat, Drained
  <2> QED
    BY <2>2, <2>3
<1>4. CASE OpensNothing /\ SquareoffEnds
  <2>1. /\ pc = "closing" /\ toClose = NothingListed
        /\ UNCHANGED <<clock, inFlight, book>> /\ closedOn' = clock.day
    BY <1>4 DEF SquareoffEnds, vars
  <2>2. clock.slot = SquareoffAt /\ OpenPositions(book) = {}
    BY <2>1 DEF FlatInv, OpenIsListed, OpenPositions, NothingListed
  <2> QED
    BY <2>1, <2>2 DEF FlatInv, LastSlotDrained, ClosedIsFlat, Drained
<1>5. ASSUME NEW thread \in Threads, NEW order \in OrderType, Checked(thread, order)
      PROVE  LastSlotDrained' /\ ClosedIsFlat'
  <2>1. clock' = clock /\ closedOn' = closedOn /\ clock.slot # SquareoffAt
    BY <1>0, <1>5, GuardrailsAssumption, OrchestratorAssumption DEF Checked
  <2> QED
    BY <2>1 DEF FlatInv, LastSlotDrained, ClosedIsFlat
<1>6. ASSUME NEW thread \in Threads, PlaceOrder(thread) PROVE LastSlotDrained' /\ ClosedIsFlat'
  <2>1. clock' = clock /\ closedOn' = closedOn /\ inFlight[thread] # {}
    BY <1>6 DEF PlaceOrder, history
  <2>2. clock.slot # SquareoffAt
    BY <2>1 DEF FlatInv, LastSlotDrained, Drained
  <2> QED
    BY <2>1, <2>2 DEF FlatInv, LastSlotDrained, ClosedIsFlat
<1> QED
  BY <1>1, <1>2, <1>3, <1>4, <1>5, <1>6, QuietSteps

(* Every step keeps a closed day flat and what is open on the list.         *)
LEMMA FlatStep ==
  ASSUME AgentTypeOK, RestoredInv, FlatInv, [AgentNext]_agentVars
  PROVE  FlatInv'
BY ListedStep, ClosedStep DEF FlatInv

(* Once the square-off has run, the account stays flat to the end of the    *)
(* day, for the process that ran it and for any that restarts               *)
(* (orchestrator.py:896, guardrails.py:119).                                *)
THEOREM FlatTillMidnight == AgentSpec => []FlatAfterClose
<1>1. AgentTypeOK /\ RestoredInv /\ FlatInv /\ [AgentNext]_agentVars => FlatInv'
  BY FlatStep
<1>2. FlatInv => FlatAfterClose
  BY DEF FlatInv, ClosedIsFlat, FlatAfterClose
<1> QED
  BY <1>1, <1>2, FlatInit, AgentTyped, RowAlwaysCurrent, PTL DEF AgentSpec

(* The symbols that are held or that an order in flight may add; without a  *)
(* race they are never more than the limit, process or no process.          *)
Wanted == {s \in Symbols : \E t \in Threads : \E order \in inFlight[t] : order.symbol = s}

Reached == OpenPositions(book) \cup Wanted

LimitInv == ~overlapped => Cardinality(Reached) <= Risk.max_open_positions

(* A subset has no more elements.                                           *)
LEMMA Counted ==
  ASSUME NEW S \in SUBSET Symbols, NEW T \in SUBSET S
  PROVE  /\ IsFiniteSet(S)
         /\ Cardinality(S) \in Nat /\ Cardinality(T) \in Nat
         /\ Cardinality(T) <= Cardinality(S)
<1>1. IsFiniteSet(S)
  BY PaperBrokerAssumption, FS_Subset
<1>2. IsFiniteSet(T) /\ Cardinality(T) <= Cardinality(S)
  BY <1>1, FS_Subset
<1> QED
  BY <1>1, <1>2, FS_CardinalityType

(* At the beginning nothing is open or in flight.                           *)
LEMMA LimitInit == AgentInit => LimitInv
<1> SUFFICES ASSUME AgentInit
             PROVE  LimitInv
  OBVIOUS
<1>1. OpenPositions(book) = {}
  BY FreshAccount DEF AgentInit, Init, FreshBook
<1>2. Wanted = {}
  BY DEF AgentInit, Wanted, NothingInFlight
<1>3. Cardinality(Reached) = 0
  BY <1>1, <1>2, FS_EmptySet DEF Reached
<1> QED
  BY <1>3, GuardrailsAssumption DEF LimitInv

(* With no more positions in reach, the limit stays kept.                   *)
LEMMA ReachesNoMore ==
  ASSUME LimitInv, Reached' \subseteq Reached, overlapped' = overlapped
  PROVE  LimitInv'
<1>1. Reached \in SUBSET Symbols
  BY DEF Reached, OpenPositions, LongsOf, ShortsOf, Wanted
<1> DEFINE before == Reached
           after == Reached'
<1>2. before \in SUBSET Symbols /\ after \in SUBSET before
  BY <1>1
<1> HIDE DEF before, after
<1>3. Cardinality(before) \in Nat /\ Cardinality(after) \in Nat
      /\ Cardinality(after) <= Cardinality(before)
  BY <1>2, Counted
<1>4. Risk.max_open_positions \in Int
  BY GuardrailsAssumption
<1>5. ~overlapped => Cardinality(before) <= Risk.max_open_positions
  BY DEF LimitInv, before
<1>6. ~overlapped => Cardinality(after) <= Risk.max_open_positions
  BY <1>3, <1>4, <1>5
<1> QED
  BY <1>6 DEF LimitInv, after

(* Every step keeps the limit unless two orders overlapped.                 *)
LEMMA LimitStep ==
  ASSUME AgentTypeOK, RestoredInv, LimitInv, [AgentNext]_agentVars
  PROVE  LimitInv'
<1>0. /\ inFlight \in [Threads -> SUBSET OrderType] /\ overlapped \in BOOLEAN
      /\ Risk.max_open_positions \in Int
  BY GuardrailsAssumption DEF AgentTypeOK, ProcessTypeOK
<1>1. CASE OpensNothing /\ overlapped' = overlapped
  <2>1. Reached' \subseteq Reached
    BY <1>1 DEF OpensNothing, Reached, Wanted
  <2> QED
    BY <1>1, <2>1, ReachesNoMore
<1>2. ASSUME NEW thread \in Threads, PlaceOrder(thread) PROVE LimitInv'
  <2>1. PICK order \in inFlight[thread] :
          /\ order.symbol \in Symbols
          /\ OpenPositions(book') \subseteq OpenPositions(book) \cup {order.symbol}
          /\ inFlight' = [inFlight EXCEPT ![thread] = {}]
          /\ UNCHANGED history
    BY <1>2, PlaceEffect
  <2>2. order.symbol \in Wanted
    BY <2>1 DEF Wanted
  <2>3. Wanted' \subseteq Wanted
    BY <1>0, <2>1 DEF Wanted
  <2>4. Reached' \subseteq Reached /\ overlapped' = overlapped
    BY <2>1, <2>2, <2>3 DEF Reached, history
  <2> QED
    BY <2>4, ReachesNoMore
<1>3. ASSUME NEW thread \in Threads, NEW order \in OrderType, Checked(thread, order)
      PROVE  LimitInv'
  <2> SUFFICES ASSUME ~overlapped'
               PROVE  Cardinality(Reached') <= Risk.max_open_positions
    BY DEF LimitInv
  <2>1. /\ inFlight' = [inFlight EXCEPT ![thread] = {order}]
        /\ book' = book
        /\ overlapped' = (overlapped \/ \E other \in UNION Range(inFlight) :
                                          other.symbol # order.symbol)
        /\ \/ order.symbol \in OpenPositions(book)
           \/ Cardinality(OpenPositions(book)) < Risk.max_open_positions
    BY <1>3 DEF Checked, vars
  <2>2. ~overlapped /\ \A t \in Threads : \A other \in inFlight[t] :
                          other.symbol = order.symbol
    BY <1>0, <2>1 DEF Range
  <2>3. order.symbol \in Symbols
    BY DEF OrderType
  <2>4. Wanted' = {order.symbol}
    <3>1. \A t \in Threads : \A other \in inFlight'[t] : other.symbol = order.symbol
      BY <1>0, <2>1, <2>2
    <3>2. order \in inFlight'[thread]
      BY <1>0, <2>1
    <3> QED
      BY <2>3, <3>1, <3>2 DEF Wanted
  <2>5. Reached' = OpenPositions(book) \cup {order.symbol}
    BY <2>1, <2>4 DEF Reached
  <2>6. OpenPositions(book) \in SUBSET Reached /\ Reached \in SUBSET Symbols
    BY DEF Reached, OpenPositions, LongsOf, ShortsOf, Wanted
  <2>7. CASE order.symbol \in OpenPositions(book)
    <3>1. Reached' = OpenPositions(book)
      BY <2>5, <2>7
    <3>2. /\ Cardinality(OpenPositions(book)) \in Nat /\ Cardinality(Reached) \in Nat
          /\ Cardinality(OpenPositions(book)) <= Cardinality(Reached)
          /\ Cardinality(Reached) <= Risk.max_open_positions
      BY <2>2, <2>6, Counted DEF LimitInv
    <3>3. Cardinality(OpenPositions(book)) <= Risk.max_open_positions
      BY <1>0, <3>2
    <3> QED
      BY <3>1, <3>3
  <2>8. CASE Cardinality(OpenPositions(book)) < Risk.max_open_positions
    <3> DEFINE held == OpenPositions(book)
               symbol == order.symbol
    <3>1. IsFiniteSet(held) /\ Cardinality(held) \in Nat
      BY PositionsCounted
    <3>2. Cardinality(held) < Risk.max_open_positions
      BY <2>8
    <3>3. Reached' = held \cup {symbol}
      BY <2>5
    <3> HIDE DEF held, symbol
    <3>4. \/ Cardinality(held \cup {symbol}) = Cardinality(held)
          \/ Cardinality(held \cup {symbol}) = Cardinality(held) + 1
      BY <3>1, FS_AddElement
    <3>5. Cardinality(held \cup {symbol}) <= Risk.max_open_positions
      BY <1>0, <3>1, <3>2, <3>4
    <3> QED
      BY <3>3, <3>5
  <2> QED
    BY <2>1, <2>7, <2>8
<1> QED
  BY <1>1, <1>2, <1>3, QuietSteps

(* Signals and commands together never hold more positions than the limit,  *)
(* restarts included, unless orders for two symbols were in flight at once  *)
(* (guardrails.py:150): that race is the only way past it.                  *)
THEOREM LimitUnlessOverlap == AgentSpec => []LimitUnlessRaced
<1>1. AgentTypeOK /\ RestoredInv /\ LimitInv /\ [AgentNext]_agentVars => LimitInv'
  BY LimitStep
<1>2. LimitInv => LimitUnlessRaced
  <2> SUFFICES ASSUME LimitInv, ~overlapped
               PROVE  WithinLimit
    BY DEF LimitUnlessRaced
  <2>1. OpenPositions(book) \in SUBSET Reached /\ Reached \in SUBSET Symbols
    BY DEF Reached, OpenPositions, LongsOf, ShortsOf, Wanted
  <2>2. /\ Cardinality(OpenPositions(book)) \in Nat /\ Cardinality(Reached) \in Nat
        /\ Cardinality(OpenPositions(book)) <= Cardinality(Reached)
        /\ Cardinality(Reached) <= Risk.max_open_positions
    BY <2>1, Counted DEF LimitInv
  <2>3. Risk.max_open_positions \in Int
    BY GuardrailsAssumption
  <2> QED
    BY <2>2, <2>3 DEF WithinLimit
<1> QED
  BY <1>1, <1>2, LimitInit, AgentTyped, RowAlwaysCurrent, PTL DEF AgentSpec
=============================================================================
