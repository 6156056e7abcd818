---------------------------- MODULE BacktestProofs ----------------------------
(***************************************************************************)
(* Proofs about the daily-bar backtest, for every history of bars, market,  *)
(* signal, charge model and universe: stops are kept to, positions are      *)
(* closed by age, the recorded equity is the account's, and a trade that    *)
(* was moved to breakeven does not lose.                                    *)
(***************************************************************************)
EXTENDS Backtest, SumTheorems, TLAPS

-----------------------------------------------------------------------------
(* The account                                                              *)

(* The cost is a whole number of average prices, as long as nothing was     *)
(* averaged.                                                                *)
Exact(pos) == AvgPrice(pos) \in Nat \ {0} /\ pos.cost = pos.qty * AvgPrice(pos)

Priced(pos) == pos.stop > 0 /\ pos.target >= 0 /\ pos.last > 0

Sound(b) ==
  /\ b \in Book
  /\ \A s \in Symbols :
       /\ ~Open(b.longs[s]) => b.longs[s] = Flat
       /\ ~Open(b.shorts[s]) => b.shorts[s] = Flat
       /\ ~(Open(b.longs[s]) /\ Open(b.shorts[s]))
       /\ Open(b.longs[s]) => Priced(b.longs[s])
       /\ Open(b.shorts[s]) => Priced(b.shorts[s]) /\ Exact(b.shorts[s])

OnlyAt(b, c, s) ==
  \A u \in Symbols \ {s} : c.longs[u] = b.longs[u] /\ c.shorts[u] = b.shorts[u]

(* Without charges and slippage a fill is the price, and costs nothing.     *)
Frictionless ==
  Exec = [slippage_bps |-> 0, leverage |-> Exec.leverage, brokerage |-> 0, min_brokerage |-> 0,
          stt_bps |-> 0, levy_bps |-> 0, stamp_bps |-> 0]

(* A long, or short, that is closed as a whole at a price pays that price   *)
(* or less.                                                                 *)
LongOut(b, c, s, price) ==
  /\ Sound(c) /\ OnlyAt(b, c, s)
  /\ c.longs[s] = Flat /\ c.shorts[s] = Flat
  /\ c.realized - b.realized <= b.longs[s].qty * price - b.longs[s].cost
  /\ Frictionless => c.realized - b.realized = b.longs[s].qty * price - b.longs[s].cost

ShortOut(b, c, s, price) ==
  /\ Sound(c) /\ OnlyAt(b, c, s)
  /\ c.longs[s] = Flat /\ c.shorts[s] = Flat
  /\ c.realized - b.realized <= b.shorts[s].cost - b.shorts[s].qty * price
  /\ Frictionless => c.realized - b.realized = b.shorts[s].cost - b.shorts[s].qty * price

(* A position that is flat is closed and free.                              *)
LEMMA FlatIsClosed == Flat \in Position /\ ~Open(Flat) /\ Flat.qty = 0 /\ Flat.cost = 0
  BY DEF Flat, Position, Open, NoTarget

(* A rate below the whole takes less than the price.                        *)
LEMMA RateBelow ==
  ASSUME NEW price \in Nat \ {0}, NEW rate \in Nat, rate < 10000
  PROVE  (price * rate) \div 10000 \in 0..(price - 1)
<1>1. price * rate < price * 10000 /\ price * rate >= 0
  BY Z3
<1> QED
  BY <1>1, Z3

(* A fill is no better than the price, and above zero.                      *)
LEMMA FillBounds ==
  ASSUME NEW price \in Nat \ {0}
  PROVE  /\ ApplySlippage(price, "SELL") \in 1..price
         /\ ApplySlippage(price, "BUY") \in Nat /\ ApplySlippage(price, "BUY") >= price
         /\ Frictionless => /\ ApplySlippage(price, "SELL") = price
                            /\ ApplySlippage(price, "BUY") = price
<1> DEFINE slip == (price * Exec.slippage_bps) \div 10000
<1>1. Exec.slippage_bps \in Nat /\ Exec.slippage_bps < 10000
  BY BacktestAssumption
<1>2. slip \in 0..(price - 1)
  BY <1>1, RateBelow
<1>3. Frictionless => slip = 0
  <2>1. Frictionless => Exec.slippage_bps = 0
    BY DEF Frictionless
  <2> QED
    BY <2>1
<1>4. ApplySlippage(price, "SELL") = price - slip /\ ApplySlippage(price, "BUY") = price + slip
  BY DEF ApplySlippage
<1> HIDE DEF slip
<1> QED
  BY <1>2, <1>3, <1>4

(* A share of a turnover is a natural.                                      *)
LEMMA ShareOf ==
  ASSUME NEW turnover \in Nat, NEW rate \in Nat
  PROVE  (turnover * rate) \div 10000 \in Nat /\ (rate = 0 => (turnover * rate) \div 10000 = 0)
<1>1. turnover * rate \in Nat
  OBVIOUS
<1> QED
  BY <1>1

(* Charges are not negative, and none without friction.                     *)
LEMMA ChargesBounds ==
  ASSUME NEW side, NEW qty \in Nat, NEW price \in Nat, NEW cover
  PROVE  /\ ComputeCharges(side, qty, price, cover) \in Nat
         /\ Frictionless => ComputeCharges(side, qty, price, cover) = 0
<1> DEFINE turnover == qty * price
           capped    == IF Exec.brokerage < turnover \div 1000
                        THEN Exec.brokerage ELSE turnover \div 1000
           brokerage == IF turnover <= 0 THEN 0
                        ELSE IF capped < Exec.min_brokerage
                             THEN Exec.min_brokerage ELSE capped
           stt       == IF side = "SELL" /\ ~cover
                        THEN (turnover * Exec.stt_bps) \div 10000 ELSE 0
           levies    == (turnover * Exec.levy_bps) \div 10000
           stamp     == IF side = "BUY"
                        THEN (turnover * Exec.stamp_bps) \div 10000 ELSE 0
<1>1. /\ Exec.brokerage \in Nat /\ Exec.min_brokerage \in Nat
      /\ Exec.stt_bps \in Nat /\ Exec.levy_bps \in Nat /\ Exec.stamp_bps \in Nat
  BY BacktestAssumption
<1>2. Frictionless => /\ Exec.brokerage = 0 /\ Exec.min_brokerage = 0
                      /\ Exec.stt_bps = 0 /\ Exec.levy_bps = 0 /\ Exec.stamp_bps = 0
  BY DEF Frictionless
<1>3. turnover \in Nat
  OBVIOUS
<1>4. ComputeCharges(side, qty, price, cover) = brokerage + stt + levies + stamp
  BY DEF ComputeCharges
<1> HIDE DEF turnover
<1>5. brokerage \in Nat /\ (Frictionless => brokerage = 0)
  BY <1>1, <1>2, <1>3
<1>6. /\ stt \in Nat /\ (Frictionless => stt = 0)
      /\ levies \in Nat /\ (Frictionless => levies = 0)
      /\ stamp \in Nat /\ (Frictionless => stamp = 0)
  <2> DEFINE share(rate) == (turnover * rate) \div 10000
  <2>1. \A rate \in Nat : share(rate) \in Nat /\ (rate = 0 => share(rate) = 0)
    BY <1>3, ShareOf
  <2>2. /\ stt = IF side = "SELL" /\ ~cover THEN share(Exec.stt_bps) ELSE 0
        /\ levies = share(Exec.levy_bps)
        /\ stamp = IF side = "BUY" THEN share(Exec.stamp_bps) ELSE 0
    OBVIOUS
  <2> HIDE DEF share, stt, levies, stamp
  <2> QED
    BY <1>1, <1>2, <2>1, <2>2
<1> HIDE DEF brokerage, stt, levies, stamp
<1> QED
  BY <1>4, <1>5, <1>6

(* The two exits, field by field.                                           *)
LEMMA CloseLongIs ==
  ASSUME NEW b, NEW s, NEW qty, NEW fill, NEW fee
  PROVE  CloseLong(b, s, qty, fill, fee) =
           [cash |-> b.cash + (qty * fill - fee),
            realized |-> b.realized + (qty * fill - Basis(b.longs[s], qty) - fee),
            trades |-> b.trades + 1,
            longs |-> [b.longs EXCEPT ![s] = Reduce(b.longs[s], qty)],
            shorts |-> b.shorts]
  BY DEF CloseLong, WithLong, Realize

(* What a cover does to a book, written out.                                *)
LEMMA CoverShortIs ==
  ASSUME NEW b, NEW s, NEW qty, NEW fill, NEW fee
  PROVE  CoverShort(b, s, qty, fill, fee) =
           [cash |-> b.cash + (Basis(b.shorts[s], qty)
                                 + (Basis(b.shorts[s], qty) - qty * fill - fee)),
            realized |-> b.realized + (Basis(b.shorts[s], qty) - qty * fill - fee),
            trades |-> b.trades + 1,
            longs |-> b.longs,
            shorts |-> [b.shorts EXCEPT ![s] = Reduce(b.shorts[s], qty)]]
  BY DEF CoverShort, WithShort, Realize

(* A part of an exact position is exact, and what is left of it too.        *)
LEMMA ExactParts ==
  ASSUME NEW pos \in Position, Exact(pos), NEW qty \in Nat \ {0}, Open(pos)
  PROVE  /\ Basis(pos, qty) = qty * AvgPrice(pos)
         /\ qty < pos.qty => Exact(Reduce(pos, qty)) /\ AvgPrice(Reduce(pos, qty)) = AvgPrice(pos)
<1> DEFINE avg == AvgPrice(pos)
           left == pos.qty - qty
<1>1. avg \in Nat \ {0} /\ pos.cost = pos.qty * avg /\ pos.qty \in Nat \ {0}
  BY DEF Exact, Position, Open
<1> HIDE DEF avg
<1>2. ASSUME NEW n \in Nat \ {0}
      PROVE  (n * avg) \div n = avg
  BY <1>1, Z3
<1>3. (pos.cost * qty) \div pos.qty = qty * avg
  <2>1. pos.cost * qty = pos.qty * (qty * avg)
    BY <1>1, Z3
  <2>2. qty * avg \in Nat
    BY <1>1
  <2>3. ASSUME NEW n \in Nat \ {0}, NEW k \in Nat
        PROVE  (n * k) \div n = k
    BY Z3
  <2> QED
    BY <1>1, <2>1, <2>2, <2>3
<1>4. Basis(pos, qty) = qty * avg
  BY <1>1, <1>3 DEF Basis
<1>5. ASSUME qty < pos.qty
      PROVE  Exact(Reduce(pos, qty)) /\ AvgPrice(Reduce(pos, qty)) = avg
  <2>1. left \in Nat \ {0}
    BY <1>1, <1>5
  <2>2. Reduce(pos, qty).qty = left /\ Reduce(pos, qty).cost = pos.cost - qty * avg
    BY <1>1, <1>4, <1>5 DEF Reduce
  <2>3. pos.cost - qty * avg = left * avg
    BY <1>1, Z3
  <2>4. (left * avg) \div left = avg
    BY <1>2, <2>1
  <2> HIDE DEF left
  <2> QED
    BY <1>1, <2>1, <2>2, <2>3, <2>4 DEF Exact, AvgPrice
<1> QED
  BY <1>4, <1>5 DEF avg

(* A sound book stays sound when a long, or a short, takes its symbol's     *)
(* place.                                                                   *)
LEMMA LongReplaced ==
  ASSUME NEW b, Sound(b), NEW s \in Symbols, NEW p \in Position,
         NEW cash \in Int, NEW realized \in Int, NEW trades \in Nat,
         ~Open(p) => p = Flat, Open(p) => Priced(p) /\ ~Open(b.shorts[s])
  PROVE  LET c == [cash |-> cash, realized |-> realized, trades |-> trades,
                   longs |-> [b.longs EXCEPT ![s] = p], shorts |-> b.shorts]
         IN  /\ Sound(c) /\ OnlyAt(b, c, s) /\ c.longs[s] = p /\ c.shorts[s] = b.shorts[s]
             /\ c.realized = realized /\ c.cash = cash
<1> DEFINE c == [cash |-> cash, realized |-> realized, trades |-> trades,
                 longs |-> [b.longs EXCEPT ![s] = p], shorts |-> b.shorts]
<1>1. b.longs \in [Symbols -> Position] /\ b.shorts \in [Symbols -> Position]
  BY DEF Sound, Book
<1>2. c \in Book
  BY <1>1 DEF Book
<1>3. c.longs[s] = p /\ \A u \in Symbols \ {s} : c.longs[u] = b.longs[u]
  BY <1>1
<1>4. c.shorts = b.shorts /\ c.realized = realized /\ c.cash = cash
  OBVIOUS
<1> HIDE DEF c
<1>5. Sound(c)
  BY <1>2, <1>3, <1>4 DEF Sound
<1> QED
  BY <1>3, <1>4, <1>5 DEF OnlyAt, c

(* A book with another short in one symbol is sound if that is.             *)
LEMMA ShortReplaced ==
  ASSUME NEW b, Sound(b), NEW s \in Symbols, NEW p \in Position,
         NEW cash \in Int, NEW realized \in Int, NEW trades \in Nat,
         ~Open(p) => p = Flat, Open(p) => Priced(p) /\ Exact(p) /\ ~Open(b.longs[s])
  PROVE  LET c == [cash |-> cash, realized |-> realized, trades |-> trades,
                   longs |-> b.longs, shorts |-> [b.shorts EXCEPT ![s] = p]]
         IN  /\ Sound(c) /\ OnlyAt(b, c, s) /\ c.shorts[s] = p /\ c.longs[s] = b.longs[s]
             /\ c.realized = realized /\ c.cash = cash
<1> DEFINE c == [cash |-> cash, realized |-> realized, trades |-> trades,
                 longs |-> b.longs, shorts |-> [b.shorts EXCEPT ![s] = p]]
<1>1. b.longs \in [Symbols -> Position] /\ b.shorts \in [Symbols -> Position]
  BY DEF Sound, Book
<1>2. c \in Book
  BY <1>1 DEF Book
<1>3. c.shorts[s] = p /\ \A u \in Symbols \ {s} : c.shorts[u] = b.shorts[u]
  BY <1>1
<1>4. c.longs = b.longs /\ c.realized = realized /\ c.cash = cash
  OBVIOUS
<1> HIDE DEF c
<1>5. Sound(c)
  BY <1>2, <1>3, <1>4 DEF Sound
<1> QED
  BY <1>3, <1>4, <1>5 DEF OnlyAt, c

(* The fields of a book.                                                    *)
LEMMA BookFields ==
  ASSUME NEW b, Sound(b)
  PROVE  /\ b = [cash |-> b.cash, realized |-> b.realized, trades |-> b.trades,
                 longs |-> b.longs, shorts |-> b.shorts]
         /\ b.cash \in Int /\ b.realized \in Int /\ b.trades \in Nat
         /\ b.longs \in [Symbols -> Position] /\ b.shorts \in [Symbols -> Position]
  BY DEF Sound, Book

(* An exit of a part of a long, or of the whole of it.                      *)
LEMMA ExitLongEffect ==
  ASSUME NEW b, Sound(b), NEW s \in Symbols, Open(b.longs[s]),
         NEW qty \in Nat \ {0}, qty <= b.longs[s].qty, NEW price \in Nat \ {0}
  PROVE  LET c == ExitLong(b, s, qty, price)
         IN  /\ Sound(c) /\ OnlyAt(b, c, s)
             /\ c.longs[s] = Reduce(b.longs[s], qty) /\ c.shorts[s] = Flat
             /\ c.realized - b.realized <= qty * price - Basis(b.longs[s], qty)
             /\ Frictionless => c.realized - b.realized = qty * price - Basis(b.longs[s], qty)
<1> DEFINE pos == b.longs[s]
           fill == ApplySlippage(price, "SELL")
           fee == ComputeCharges("SELL", qty, fill, FALSE)
           basis == Basis(pos, qty)
           cash == b.cash + (qty * fill - fee)
           realized == b.realized + (qty * fill - basis - fee)
           trades == b.trades + 1
           p == Reduce(pos, qty)
           c == ExitLong(b, s, qty, price)
<1>1. c = [cash |-> cash, realized |-> realized, trades |-> trades,
           longs |-> [b.longs EXCEPT ![s] = p], shorts |-> b.shorts]
  <2>1. c = CloseLong(b, s, qty, fill, fee)
    BY DEF ExitLong
  <2> HIDE DEF c, fill, fee
  <2> QED
    BY <2>1, CloseLongIs
<1>2. fill \in 1..price /\ (Frictionless => fill = price)
  BY FillBounds
<1>3. fee \in Nat /\ (Frictionless => fee = 0)
  <2>1. fill \in Nat
    BY <1>2
  <2> HIDE DEF fill
  <2> QED
    BY <2>1, ChargesBounds
<1>4. pos \in Position /\ pos.qty \in Nat /\ pos.cost \in Int /\ pos.qty > 0
      /\ qty <= pos.qty
  BY BookFields DEF Position, Open
<1>5. basis \in Int
  <2>1. pos.cost * qty \in Int
    BY <1>4
  <2> HIDE DEF pos
  <2> QED
    BY <1>4, <2>1 DEF Basis
<1>6. b.cash \in Int /\ b.realized \in Int /\ b.trades \in Nat
  BY BookFields
<1>7. /\ p \in Position /\ (~Open(p) => p = Flat) /\ (Open(p) => Priced(p))
  <2>1. Priced(pos)
    BY DEF Sound
  <2> HIDE DEF pos, basis
  <2>2. CASE qty = pos.qty
    BY <2>2, FlatIsClosed DEF Reduce
  <2>3. CASE qty # pos.qty
    <3>1. p = [qty |-> pos.qty - qty, cost |-> pos.cost - basis,
               stop |-> pos.stop, target |-> pos.target, last |-> pos.last]
      BY <1>4, <2>3 DEF Reduce, basis
    <3> HIDE DEF p
    <3>2. pos.qty - qty \in Nat /\ pos.qty - qty > 0 /\ pos.cost - basis \in Int
      BY <1>4, <1>5, <2>3
    <3> QED
      BY <1>4, <2>1, <3>1, <3>2 DEF Position, Open, Priced
  <2> QED
    BY <2>2, <2>3
<1>8. ~Open(b.shorts[s]) /\ b.shorts[s] = Flat
  BY DEF Sound
<1>9. qty * fill <= qty * price /\ qty * fill \in Nat /\ qty * price \in Nat
  <2> HIDE DEF fill
  <2>1. fill \in Nat /\ fill <= price
    BY <1>2
  <2>2. qty * fill <= qty * price
    BY <2>1, Z3
  <2> QED
    BY <2>1, <2>2
<1> HIDE DEF fill, fee, basis, p, pos, c
<1>10. cash \in Int /\ realized \in Int /\ trades \in Nat
  BY <1>3, <1>5, <1>6, <1>9
<1>11. /\ realized - b.realized <= qty * price - basis
       /\ Frictionless => realized - b.realized = qty * price - basis
  BY <1>2, <1>3, <1>5, <1>6, <1>9
<1> HIDE DEF cash, realized, trades
<1>12. /\ Sound(c) /\ OnlyAt(b, c, s) /\ c.longs[s] = p /\ c.shorts[s] = b.shorts[s]
       /\ c.realized = realized
  BY <1>1, <1>7, <1>8, <1>10, LongReplaced
<1> QED
  BY <1>8, <1>11, <1>12 DEF c, p, pos, basis

(* The exit of a short realizes its basis less the price at most, and just  *)
(* that without friction.                                                   *)
LEMMA ExitShortEffect ==
  ASSUME NEW b, Sound(b), NEW s \in Symbols, Open(b.shorts[s]),
         NEW qty \in Nat \ {0}, NEW price \in Nat \ {0}
  PROVE  LET c == ExitShort(b, s, qty, price)
         IN  /\ Sound(c) /\ OnlyAt(b, c, s)
             /\ c.shorts[s] = Reduce(b.shorts[s], qty) /\ c.longs[s] = Flat
             /\ c.realized - b.realized <= Basis(b.shorts[s], qty) - qty * price
             /\ Frictionless => c.realized - b.realized = Basis(b.shorts[s], qty) - qty * price
<1> DEFINE pos == b.shorts[s]
           fill == ApplySlippage(price, "BUY")
           fee == ComputeCharges("BUY", qty, fill, TRUE)
           basis == Basis(pos, qty)
           cash == b.cash + (basis + (basis - qty * fill - fee))
           realized == b.realized + (basis - qty * fill - fee)
           trades == b.trades + 1
           p == Reduce(pos, qty)
           c == ExitShort(b, s, qty, price)
<1>1. c = [cash |-> cash, realized |-> realized, trades |-> trades,
           longs |-> b.longs, shorts |-> [b.shorts EXCEPT ![s] = p]]
  <2>1. c = CoverShort(b, s, qty, fill, fee)
    BY DEF ExitShort
  <2> HIDE DEF c, fill, fee
  <2> QED
    BY <2>1, CoverShortIs
<1>2. fill \in Nat /\ price <= fill /\ (Frictionless => fill = price)
  BY FillBounds
<1>3. fee \in Nat /\ (Frictionless => fee = 0)
  <2> HIDE DEF fill
  <2> QED
    BY <1>2, ChargesBounds
<1>4. pos \in Position /\ pos.qty \in Nat /\ pos.cost \in Int /\ pos.qty > 0
  BY BookFields DEF Position, Open
<1>5. Priced(pos) /\ Exact(pos) /\ Open(pos)
  BY DEF Sound
<1>6. basis \in Int /\ (qty < pos.qty => Exact(p))
  <2>1. AvgPrice(pos) \in Nat
    BY <1>5 DEF Exact
  <2>2. basis = qty * AvgPrice(pos) /\ (qty < pos.qty => Exact(p))
    <3> HIDE DEF pos
    <3> QED
      BY <1>4, <1>5, ExactParts
  <2> HIDE DEF basis, p, pos
  <2> QED
    BY <2>1, <2>2
<1>7. b.cash \in Int /\ b.realized \in Int /\ b.trades \in Nat
  BY BookFields
<1>8. /\ p \in Position /\ (~Open(p) => p = Flat) /\ (Open(p) => Priced(p) /\ Exact(p))
  <2> HIDE DEF pos, basis
  <2>1. CASE qty >= pos.qty
    BY <2>1, FlatIsClosed DEF Reduce
  <2>2. CASE ~(qty >= pos.qty)
    <3>1. p = [qty |-> pos.qty - qty, cost |-> pos.cost - basis,
               stop |-> pos.stop, target |-> pos.target, last |-> pos.last]
      BY <1>4, <2>2 DEF Reduce, basis
    <3>2. Exact(p)
      BY <1>4, <1>6, <2>2
    <3> HIDE DEF p
    <3>3. pos.qty - qty \in Nat /\ pos.qty - qty > 0 /\ pos.cost - basis \in Int
      BY <1>4, <1>6, <2>2
    <3> QED
      BY <1>4, <1>5, <3>1, <3>2, <3>3 DEF Position, Open, Priced
  <2> QED
    BY <2>1, <2>2
<1>9. ~Open(b.longs[s]) /\ b.longs[s] = Flat
  BY DEF Sound
<1>10. qty * price <= qty * fill /\ qty * fill \in Nat /\ qty * price \in Nat
  <2> HIDE DEF fill
  <2>1. qty * price <= qty * fill
    BY <1>2, Z3
  <2> QED
    BY <1>2, <2>1
<1> HIDE DEF fill, fee, basis, p, pos, c
<1>11. cash \in Int /\ realized \in Int /\ trades \in Nat
  BY <1>3, <1>6, <1>7, <1>10
<1>12. /\ realized - b.realized <= basis - qty * price
       /\ Frictionless => realized - b.realized = basis - qty * price
  BY <1>2, <1>3, <1>6, <1>7, <1>10
<1> HIDE DEF cash, realized, trades
<1>13. /\ Sound(c) /\ OnlyAt(b, c, s) /\ c.shorts[s] = p /\ c.longs[s] = b.longs[s]
       /\ c.realized = realized
  BY <1>1, <1>8, <1>9, <1>11, ShortReplaced
<1> QED
  BY <1>9, <1>12, <1>13 DEF c, p, pos, basis

(* A long that is closed as a whole goes out.                               *)
LEMMA LongGoesOut ==
  ASSUME NEW b, Sound(b), NEW s \in Symbols, Open(b.longs[s]), NEW price \in Nat \ {0}
  PROVE  LongOut(b, ExitLong(b, s, b.longs[s].qty, price), s, price)
<1> DEFINE pos == b.longs[s]
<1>1. pos.qty \in Nat \ {0}
  BY BookFields DEF Position, Open
<1>2. Reduce(pos, pos.qty) = Flat /\ Basis(pos, pos.qty) = pos.cost
  BY <1>1 DEF Reduce, Basis
<1>3. pos.qty <= b.longs[s].qty
  BY <1>1
<1> DEFINE c == ExitLong(b, s, pos.qty, price)
<1>4. /\ Sound(c) /\ OnlyAt(b, c, s)
      /\ c.longs[s] = Reduce(b.longs[s], pos.qty) /\ c.shorts[s] = Flat
      /\ c.realized - b.realized <= pos.qty * price - Basis(b.longs[s], pos.qty)
      /\ Frictionless => c.realized - b.realized = pos.qty * price - Basis(b.longs[s], pos.qty)
  BY <1>1, <1>3, ExitLongEffect
<1> HIDE DEF c
<1> QED
  BY <1>2, <1>4 DEF LongOut, c

(* So does a short.                                                         *)
LEMMA ShortGoesOut ==
  ASSUME NEW b, Sound(b), NEW s \in Symbols, Open(b.shorts[s]), NEW price \in Nat \ {0}
  PROVE  ShortOut(b, ExitShort(b, s, b.shorts[s].qty, price), s, price)
<1> DEFINE pos == b.shorts[s]
<1>1. pos.qty \in Nat \ {0}
  BY BookFields DEF Position, Open
<1>2. Reduce(pos, pos.qty) = Flat /\ Basis(pos, pos.qty) = pos.cost
  BY <1>1 DEF Reduce, Basis
<1> DEFINE c == ExitShort(b, s, pos.qty, price)
<1>3. /\ Sound(c) /\ OnlyAt(b, c, s)
      /\ c.shorts[s] = Reduce(b.shorts[s], pos.qty) /\ c.longs[s] = Flat
      /\ c.realized - b.realized <= Basis(b.shorts[s], pos.qty) - pos.qty * price
      /\ Frictionless => c.realized - b.realized = Basis(b.shorts[s], pos.qty) - pos.qty * price
  BY <1>1, ExitShortEffect
<1> HIDE DEF c
<1> QED
  BY <1>2, <1>3 DEF ShortOut, c
-----------------------------------------------------------------------------
(* A price                                                                  *)

AtPrice(pos, px) ==
  IF Open(pos) THEN [qty |-> pos.qty, cost |-> pos.cost, stop |-> pos.stop,
                     target |-> pos.target, last |-> px]
  ELSE pos

(* A price that closes nothing ...                                          *)
Kept(b, c, s, px) ==
  /\ Sound(c) /\ OnlyAt(b, c, s)
  /\ c.realized = b.realized /\ c.cash = b.cash
  /\ c.longs[s] = AtPrice(b.longs[s], px) /\ c.shorts[s] = AtPrice(b.shorts[s], px)
  /\ Open(b.longs[s]) =>
       /\ px > b.longs[s].stop
       /\ b.longs[s].target # NoTarget => px < b.longs[s].target
  /\ Open(b.shorts[s]) =>
       /\ px < b.shorts[s].stop
       /\ b.shorts[s].target # NoTarget => px > b.shorts[s].target

(* ... and one that is at the stop or, failing that, at the target.         *)
LongHit(b, c, s, px) ==
  LET pos == b.longs[s]
  IN  /\ Open(pos)
      /\ \/ px <= pos.stop /\ LongOut(b, c, s, pos.stop)
         \/ /\ px > pos.stop /\ pos.target # NoTarget /\ px >= pos.target
            /\ LongOut(b, c, s, pos.target)

ShortHit(b, c, s, px) ==
  LET pos == b.shorts[s]
  IN  /\ Open(pos)
      /\ \/ px >= pos.stop /\ ShortOut(b, c, s, pos.stop)
         \/ /\ px < pos.stop /\ pos.target # NoTarget /\ px <= pos.target
            /\ ShortOut(b, c, s, pos.target)

(* A position that is marked has its new price and is otherwise the same.   *)
LEMMA AtPriceIs ==
  ASSUME NEW pos \in Position, NEW px \in Nat \ {0}
  PROVE  /\ (IF Open(pos) THEN [pos EXCEPT !.last = px] ELSE pos) = AtPrice(pos, px)
         /\ AtPrice(pos, px) \in Position
         /\ Open(AtPrice(pos, px)) <=> Open(pos)
         /\ Priced(pos) => Priced(AtPrice(pos, px)) \/ ~Open(pos)
         /\ Exact(pos) => Exact(AtPrice(pos, px))
         /\ Open(pos) => /\ AtPrice(pos, px).last = px
                         /\ AtPrice(pos, px).stop = pos.stop
                         /\ AtPrice(pos, px).target = pos.target
                         /\ AtPrice(pos, px).qty = pos.qty
                         /\ AtPrice(pos, px).cost = pos.cost
         /\ ~Open(pos) => AtPrice(pos, px) = pos
<1>1. CASE ~Open(pos)
  BY <1>1 DEF AtPrice
<1>2. CASE Open(pos)
  <2> DEFINE p == [qty |-> pos.qty, cost |-> pos.cost, stop |-> pos.stop,
                   target |-> pos.target, last |-> px]
  <2>1. AtPrice(pos, px) = p
    BY <1>2 DEF AtPrice
  <2>2. [pos EXCEPT !.last = px] = p
    BY DEF Position
  <2>3. p \in Position
    BY DEF Position
  <2>4. /\ p.qty = pos.qty /\ p.cost = pos.cost /\ p.stop = pos.stop
        /\ p.target = pos.target /\ p.last = px
    OBVIOUS
  <2> HIDE DEF p
  <2>5. AvgPrice(p) = AvgPrice(pos)
    BY <2>4 DEF AvgPrice
  <2> QED
    BY <1>2, <2>1, <2>2, <2>3, <2>4, <2>5 DEF Open, Priced, Exact
<1> QED
  BY <1>1, <1>2

(* Marking changes the price of one symbol and no money.                    *)
LEMMA MarkEffect ==
  ASSUME NEW b, Sound(b), NEW s \in Symbols, NEW px \in Nat \ {0}
  PROVE  LET m == MarkToMarket(b, s, px)
         IN  /\ Sound(m) /\ OnlyAt(b, m, s)
             /\ m.realized = b.realized /\ m.cash = b.cash
             /\ m.longs[s] = AtPrice(b.longs[s], px) /\ m.shorts[s] = AtPrice(b.shorts[s], px)
<1> DEFINE m == MarkToMarket(b, s, px)
           ml == AtPrice(b.longs[s], px)
           ms == AtPrice(b.shorts[s], px)
           bl == [cash |-> b.cash, realized |-> b.realized, trades |-> b.trades,
                  longs |-> [b.longs EXCEPT ![s] = ml], shorts |-> b.shorts]
           bs == [cash |-> bl.cash, realized |-> bl.realized, trades |-> bl.trades,
                  longs |-> bl.longs, shorts |-> [bl.shorts EXCEPT ![s] = ms]]
<1>1. b.longs[s] \in Position /\ b.shorts[s] \in Position
  BY BookFields
<1>2. m = bs
  <2>1. m = WithShort(WithLong(b, s, ml), s, ms)
    <3>1. (IF Open(b.longs[s]) THEN [b.longs[s] EXCEPT !.last = px] ELSE b.longs[s]) = ml
      BY <1>1, AtPriceIs
    <3>2. (IF Open(b.shorts[s]) THEN [b.shorts[s] EXCEPT !.last = px] ELSE b.shorts[s]) = ms
      BY <1>1, AtPriceIs
    <3> HIDE DEF ml, ms
    <3> QED
      BY <3>1, <3>2 DEF MarkToMarket
  <2>2. b = [cash |-> b.cash, realized |-> b.realized, trades |-> b.trades,
             longs |-> b.longs, shorts |-> b.shorts]
    BY BookFields
  <2> HIDE DEF ml, ms
  <2>3. WithLong(b, s, ml) = bl
    BY <2>2 DEF WithLong
  <2>4. WithShort(bl, s, ms) = bs
    BY DEF WithShort
  <2> QED
    BY <2>1, <2>3, <2>4
<1>3. /\ ml \in Position /\ (~Open(ml) => ml = Flat)
      /\ (Open(ml) => Priced(ml) /\ ~Open(b.shorts[s]))
      /\ ms \in Position /\ (~Open(ms) => ms = Flat)
      /\ (Open(ms) => Priced(ms) /\ Exact(ms) /\ ~Open(ml))
  <2>1. /\ ~Open(b.longs[s]) => b.longs[s] = Flat
        /\ ~Open(b.shorts[s]) => b.shorts[s] = Flat
        /\ ~(Open(b.longs[s]) /\ Open(b.shorts[s]))
        /\ Open(b.longs[s]) => Priced(b.longs[s])
        /\ Open(b.shorts[s]) => Priced(b.shorts[s]) /\ Exact(b.shorts[s])
    BY DEF Sound
  <2>2. /\ ml \in Position /\ (Open(ml) <=> Open(b.longs[s]))
        /\ (Priced(b.longs[s]) => Priced(ml) \/ ~Open(b.longs[s]))
        /\ ~Open(b.longs[s]) => ml = b.longs[s]
    BY <1>1, AtPriceIs
  <2>3. /\ ms \in Position /\ (Open(ms) <=> Open(b.shorts[s]))
        /\ (Priced(b.shorts[s]) => Priced(ms) \/ ~Open(b.shorts[s]))
        /\ (Exact(b.shorts[s]) => Exact(ms))
        /\ ~Open(b.shorts[s]) => ms = b.shorts[s]
    BY <1>1, AtPriceIs
  <2> HIDE DEF ml, ms
  <2> QED
    BY <2>1, <2>2, <2>3
<1> HIDE DEF m, ml, ms
<1>4. /\ Sound(bl) /\ OnlyAt(b, bl, s) /\ bl.longs[s] = ml /\ bl.shorts[s] = b.shorts[s]
      /\ bl.realized = b.realized /\ bl.cash = b.cash
  <2>1. b.cash \in Int /\ b.realized \in Int /\ b.trades \in Nat
    BY BookFields
  <2> QED
    BY <1>3, <2>1, LongReplaced
<1> HIDE DEF bl
<1>5. /\ Sound(bs) /\ OnlyAt(bl, bs, s) /\ bs.shorts[s] = ms /\ bs.longs[s] = bl.longs[s]
      /\ bs.realized = bl.realized /\ bs.cash = bl.cash
  <2>1. bl.cash \in Int /\ bl.realized \in Int /\ bl.trades \in Nat
    BY <1>4, BookFields
  <2>2. Open(ms) => Priced(ms) /\ Exact(ms) /\ ~Open(bl.longs[s])
    BY <1>3, <1>4
  <2> QED
    BY <1>3, <1>4, <2>1, <2>2, ShortReplaced
<1> HIDE DEF bs
<1> QED
  BY <1>2, <1>4, <1>5 DEF OnlyAt, m, ml, ms

(* update_market_prices: the price is taken note of, or the position is     *)
(* closed at its stop or its target.                                        *)
LEMMA MarkedEffect ==
  ASSUME NEW b, Sound(b), NEW s \in Symbols, NEW px \in Nat \ {0}
  PROVE  LET c == Marked(b, s, px)
         IN  Kept(b, c, s, px) \/ LongHit(b, c, s, px) \/ ShortHit(b, c, s, px)
<1> DEFINE m == MarkToMarket(b, s, px)
           l == MaybeExitLong(m, s)
           c == Marked(b, s, px)
           pos == b.longs[s]
           short == b.shorts[s]
<1>1. /\ Sound(m) /\ OnlyAt(b, m, s)
      /\ m.realized = b.realized /\ m.cash = b.cash
      /\ m.longs[s] = AtPrice(pos, px) /\ m.shorts[s] = AtPrice(short, px)
  BY MarkEffect
<1>2. c = MaybeExitShort(l, s)
  BY DEF Marked
<1>3. pos \in Position /\ short \in Position
  BY BookFields
<1>4. /\ ~(Open(pos) /\ Open(short))
      /\ Open(pos) => Priced(pos)
      /\ Open(short) => Priced(short)
  BY DEF Sound
<1>5. /\ Open(m.longs[s]) <=> Open(pos)
      /\ Open(m.shorts[s]) <=> Open(short)
      /\ Open(pos) => /\ m.longs[s].last = px /\ m.longs[s].stop = pos.stop
                      /\ m.longs[s].target = pos.target
                      /\ m.longs[s].qty = pos.qty /\ m.longs[s].cost = pos.cost
      /\ Open(short) => /\ m.shorts[s].last = px /\ m.shorts[s].stop = short.stop
                        /\ m.shorts[s].target = short.target
                        /\ m.shorts[s].qty = short.qty /\ m.shorts[s].cost = short.cost
  <2> HIDE DEF pos, short, m
  <2> QED
    BY <1>1, <1>3, AtPriceIs
<1> HIDE DEF m, c, l, pos, short
<1>6. ASSUME NEW d, NEW price \in Nat \ {0}, LongOut(m, d, s, price), Open(pos)
      PROVE  LongOut(b, d, s, price)
  <2>1. m.longs[s].qty = pos.qty /\ m.longs[s].cost = pos.cost
    BY <1>5, <1>6
  <2> QED
    BY <1>1, <1>6, <2>1 DEF LongOut, OnlyAt, pos
<1>7. ASSUME NEW d, NEW price \in Nat \ {0}, ShortOut(m, d, s, price), Open(short)
      PROVE  ShortOut(b, d, s, price)
  <2>1. m.shorts[s].qty = short.qty /\ m.shorts[s].cost = short.cost
    BY <1>5, <1>7
  <2> QED
    BY <1>1, <1>7, <2>1 DEF ShortOut, OnlyAt, short
<1>8. ASSUME Open(pos)
      PROVE  Kept(b, c, s, px) \/ LongHit(b, c, s, px)
  <2>1. ~Open(short) /\ ~Open(m.shorts[s])
    BY <1>4, <1>5, <1>8
  <2>2. pos.stop \in Nat \ {0} /\ pos.target \in Nat
    BY <1>3, <1>4, <1>8 DEF Position, Priced
  <2>3. Open(m.longs[s]) /\ m.longs[s].last = px /\ m.longs[s].stop = pos.stop
        /\ m.longs[s].target = pos.target
    BY <1>5, <1>8
  <2>4. l = IF px <= pos.stop THEN ExitLong(m, s, m.longs[s].qty, pos.stop)
            ELSE IF pos.target # NoTarget /\ px >= pos.target
                 THEN ExitLong(m, s, m.longs[s].qty, pos.target)
            ELSE m
    BY <2>3 DEF MaybeExitLong, l
  <2>5. ASSUME NEW price \in Nat \ {0}, l = ExitLong(m, s, m.longs[s].qty, price)
        PROVE  LongOut(b, c, s, price)
    <3>1. LongOut(m, l, s, price)
      BY <1>1, <2>3, <2>5, LongGoesOut
    <3>2. ~Open(l.shorts[s])
      BY <3>1, FlatIsClosed DEF LongOut
    <3>3. c = l
      BY <1>2, <3>2 DEF MaybeExitShort
    <3> QED
      BY <1>6, <1>8, <3>1, <3>3
  <2>6. CASE px <= pos.stop
    BY <1>8, <2>2, <2>4, <2>5, <2>6 DEF LongHit, pos
  <2>7. CASE ~(px <= pos.stop) /\ pos.target # NoTarget /\ px >= pos.target
    <3>1. pos.target \in Nat \ {0} /\ px > pos.stop
      BY <2>2, <2>7 DEF NoTarget
    <3> QED
      BY <1>8, <2>4, <2>5, <2>7, <3>1 DEF LongHit, pos
  <2>8. CASE ~(px <= pos.stop) /\ ~(pos.target # NoTarget /\ px >= pos.target)
    <3>1. l = m
      BY <2>4, <2>8
    <3>2. c = m
      BY <1>2, <2>1, <3>1 DEF MaybeExitShort
    <3>3. px > pos.stop /\ (pos.target # NoTarget => px < pos.target)
      BY <2>2, <2>8
    <3> QED
      BY <1>1, <2>1, <3>2, <3>3 DEF Kept, pos, short
  <2> QED
    BY <2>6, <2>7, <2>8
<1>9. ASSUME ~Open(pos)
      PROVE  Kept(b, c, s, px) \/ ShortHit(b, c, s, px)
  <2>1. l = m
    BY <1>5, <1>9 DEF MaybeExitLong, l
  <2>2. CASE ~Open(short)
    <3>1. c = m
      BY <1>2, <1>5, <2>1, <2>2 DEF MaybeExitShort
    <3> QED
      BY <1>1, <1>9, <2>2, <3>1 DEF Kept, pos, short
  <2>3. CASE Open(short)
    <3>2. short.stop \in Nat \ {0} /\ short.target \in Nat
      BY <1>3, <1>4, <2>3 DEF Position, Priced
    <3>3. Open(m.shorts[s]) /\ m.shorts[s].last = px /\ m.shorts[s].stop = short.stop
          /\ m.shorts[s].target = short.target
      BY <1>5, <2>3
    <3>4. c = IF px >= short.stop THEN ExitShort(m, s, m.shorts[s].qty, short.stop)
              ELSE IF short.target # NoTarget /\ px <= short.target
                   THEN ExitShort(m, s, m.shorts[s].qty, short.target)
              ELSE m
      BY <1>2, <2>1, <3>3 DEF MaybeExitShort
    <3>5. ASSUME NEW price \in Nat \ {0}, c = ExitShort(m, s, m.shorts[s].qty, price)
          PROVE  ShortOut(b, c, s, price)
      BY <1>1, <1>7, <2>3, <3>3, <3>5, ShortGoesOut
    <3>6. CASE px >= short.stop
      BY <2>3, <3>2, <3>4, <3>5, <3>6 DEF ShortHit, short
    <3>7. CASE ~(px >= short.stop) /\ short.target # NoTarget /\ px <= short.target
      <4>1. short.target \in Nat \ {0} /\ px < short.stop
        BY <3>2, <3>7 DEF NoTarget
      <4> QED
        BY <2>3, <3>4, <3>5, <3>7, <4>1 DEF ShortHit, short
    <3>8. CASE ~(px >= short.stop) /\ ~(short.target # NoTarget /\ px <= short.target)
      <4>1. c = m
        BY <3>4, <3>8
      <4>2. px < short.stop /\ (short.target # NoTarget => px > short.target)
        BY <3>2, <3>8
      <4> QED
        BY <1>1, <1>9, <4>1, <4>2 DEF Kept, pos, short
    <3> QED
      BY <3>6, <3>7, <3>8
  <2> QED
    BY <2>2, <2>3
<1> QED
  BY <1>8, <1>9 DEF c
-----------------------------------------------------------------------------
(* Orders                                                                   *)

(* A new position cost its fill, share by share.                            *)
LEMMA NewIsExact ==
  ASSUME NEW qty \in Nat \ {0}, NEW fill \in Nat \ {0}, NEW stop \in Nat \ {0}, NEW target \in Nat
  PROVE  LET p == NewPosition(qty, fill, stop, target)
         IN  /\ p \in Position /\ Open(p) /\ Priced(p) /\ Exact(p) /\ AvgPrice(p) = fill
             /\ p.qty = qty /\ p.stop = stop /\ p.target = target /\ p.last = fill
<1> DEFINE p == NewPosition(qty, fill, stop, target)
<1>1. p = [qty |-> qty, cost |-> qty * fill, stop |-> stop, target |-> target, last |-> fill]
  BY DEF NewPosition
<1>2. qty * fill \in Int
  OBVIOUS
<1>3. (qty * fill) \div qty = fill
  BY Z3
<1> HIDE DEF p
<1>4. p \in Position
  BY <1>1, <1>2 DEF Position
<1>5. p.qty = qty /\ p.cost = qty * fill /\ p.stop = stop /\ p.target = target /\ p.last = fill
  BY <1>1
<1>6. AvgPrice(p) = fill
  BY <1>3, <1>5 DEF AvgPrice
<1> QED
  BY <1>4, <1>5, <1>6 DEF Open, Priced, Exact, p

(* Paying changes the cash alone.                                           *)
LEMMA Paid ==
  ASSUME NEW b, Sound(b), NEW amount \in Int
  PROVE  LET c == Pay(b, amount)
         IN  /\ Sound(c) /\ c.realized = b.realized /\ c.longs = b.longs /\ c.shorts = b.shorts
             /\ c.trades = b.trades /\ c.cash = b.cash - amount
             /\ c = [cash |-> b.cash - amount, realized |-> b.realized, trades |-> b.trades,
                     longs |-> b.longs, shorts |-> b.shorts]
<1> DEFINE c == Pay(b, amount)
<1>1. b = [cash |-> b.cash, realized |-> b.realized, trades |-> b.trades,
           longs |-> b.longs, shorts |-> b.shorts]
  BY BookFields
<1>2. c = [cash |-> b.cash - amount, realized |-> b.realized, trades |-> b.trades,
           longs |-> b.longs, shorts |-> b.shorts]
  BY <1>1 DEF Pay
<1>3. b.cash - amount \in Int
  BY BookFields
<1> HIDE DEF c
<1>4. c \in Book
  BY <1>2, <1>3, BookFields DEF Book
<1>5. /\ c.longs = b.longs /\ c.shorts = b.shorts /\ c.cash = b.cash - amount
      /\ c.realized = b.realized /\ c.trades = b.trades
  BY <1>2
<1>6. Sound(c)
  BY <1>4, <1>5 DEF Sound
<1> QED
  BY <1>2, <1>5, <1>6 DEF c

(* A long is opened, or added to.                                           *)
LEMMA BuyEffect ==
  ASSUME Sound(book), NEW s \in Symbols, latestPrices[s] \in Nat \ {0},
         NEW qty \in Nat \ {0}, NEW stop \in Nat \ {0}, NEW target \in Nat,
         BuyLong(s, qty, stop, target)
  PROVE  /\ Sound(book') /\ OnlyAt(book, book', s)
         /\ book'.realized = book.realized /\ latestPrices' = latestPrices
         /\ ~Open(book.shorts[s]) /\ book'.shorts[s] = Flat
         /\ Open(book'.longs[s])
         /\ Open(book.longs[s]) => book'.longs[s].qty > book.longs[s].qty
         /\ ~Open(book.longs[s]) =>
              book'.longs[s] = NewPosition(qty, ApplySlippage(latestPrices[s], "BUY"), stop, target)
<1> DEFINE fill == ApplySlippage(latestPrices[s], "BUY")
           fee == ComputeCharges("BUY", qty, fill, FALSE)
           amount == qty * fill + fee
           pos == book.longs[s]
           b == Pay(book, amount)
           p == IF Open(pos)
                THEN [qty |-> pos.qty + qty, cost |-> pos.cost + qty * fill,
                      stop |-> stop, target |-> target, last |-> pos.last]
                ELSE NewPosition(qty, fill, stop, target)
<1>1. book' = OpenOrAddLong(Pay(book, amount), s, qty, fill, stop, target)
      /\ latestPrices' = latestPrices /\ ~Open(book.shorts[s])
  BY DEF BuyLong, Fill
<1>2. fill \in Nat \ {0}
  BY FillBounds
<1>3. fee \in Nat
  <2> HIDE DEF fill
  <2> QED
    BY <1>2, ChargesBounds
<1> HIDE DEF fee, fill
<1>4. qty * fill \in Nat /\ amount \in Int
  BY <1>2, <1>3
<1> HIDE DEF amount
<1>5. /\ Sound(b) /\ b.realized = book.realized /\ b.longs = book.longs /\ b.shorts = book.shorts
      /\ b.trades = book.trades
  BY <1>4, Paid
<1> HIDE DEF b
<1>6. pos \in Position
  BY BookFields
<1>7. /\ p \in Position /\ Open(p) /\ Priced(p)
      /\ Open(pos) => p.qty > pos.qty
  <2>1. CASE Open(pos)
    <3>1. Priced(pos) /\ pos.qty \in Nat /\ pos.cost \in Int /\ pos.last \in Int
      BY <1>6, <2>1 DEF Sound, Position
    <3> HIDE DEF pos
    <3>2. p = [qty |-> pos.qty + qty, cost |-> pos.cost + qty * fill,
               stop |-> stop, target |-> target, last |-> pos.last]
      BY <2>1
    <3>3. pos.qty + qty \in Nat /\ pos.cost + qty * fill \in Int /\ pos.qty + qty > pos.qty
      BY <1>4, <3>1
    <3> HIDE DEF p
    <3> QED
      BY <3>1, <3>2, <3>3 DEF Position, Open, Priced
  <2>2. CASE ~Open(pos)
    BY <1>2, <2>2, NewIsExact
  <2> QED
    BY <2>1, <2>2
<1>8. book' = [cash |-> b.cash, realized |-> b.realized, trades |-> b.trades,
               longs |-> [b.longs EXCEPT ![s] = p], shorts |-> b.shorts]
  <2>1. book' = WithLong(b, s, p)
    BY <1>1, <1>5 DEF OpenOrAddLong, b
  <2>2. b = [cash |-> b.cash, realized |-> b.realized, trades |-> b.trades,
             longs |-> b.longs, shorts |-> b.shorts]
    BY <1>5, BookFields
  <2> HIDE DEF p
  <2> QED
    BY <2>1, <2>2 DEF WithLong
<1> HIDE DEF p
<1>9. /\ Sound(book') /\ OnlyAt(b, book', s) /\ book'.longs[s] = p
      /\ book'.shorts[s] = b.shorts[s] /\ book'.realized = b.realized
  <2>1. b.cash \in Int /\ b.realized \in Int /\ b.trades \in Nat
    BY <1>5, BookFields
  <2>2. Open(p) => Priced(p) /\ ~Open(b.shorts[s])
    BY <1>1, <1>5, <1>7
  <2>3. ~Open(p) => p = Flat
    BY <1>7
  <2> QED
    BY <1>5, <1>7, <1>8, <2>1, <2>2, <2>3, LongReplaced
<1>10. book.shorts[s] = Flat
  BY <1>1 DEF Sound
<1>11. ~Open(pos) => p = NewPosition(qty, fill, stop, target)
  BY DEF p
<1> QED
  BY <1>1, <1>5, <1>7, <1>9, <1>10, <1>11 DEF OnlyAt, fill

(* A short is opened in the place of whatever short there was.              *)
LEMMA SellShortEffect ==
  ASSUME Sound(book), NEW s \in Symbols, latestPrices[s] \in Nat \ {0},
         NEW qty \in Nat \ {0}, NEW stop \in Nat \ {0}, NEW target \in Nat,
         SellShort(s, qty, stop, target)
  PROVE  /\ Sound(book') /\ OnlyAt(book, book', s)
         /\ book'.realized = book.realized /\ latestPrices' = latestPrices
         /\ ~Open(book.longs[s]) /\ book'.longs[s] = Flat
         /\ book'.shorts[s] = NewPosition(qty, ApplySlippage(latestPrices[s], "SELL"), stop, target)
         /\ book' # book
<1> DEFINE fill == ApplySlippage(latestPrices[s], "SELL")
           fee == ComputeCharges("SELL", qty, fill, FALSE)
           amount == qty * fill + fee
           b == Pay(book, amount)
           p == NewPosition(qty, fill, stop, target)
<1>1. book' = OpenShort(Pay(book, amount), s, qty, fill, stop, target)
      /\ latestPrices' = latestPrices /\ ~Open(book.longs[s])
  BY DEF SellShort, Fill
<1>2. fill \in Nat \ {0}
  BY FillBounds
<1>3. fee \in Nat
  <2> HIDE DEF fill
  <2> QED
    BY <1>2, ChargesBounds
<1> HIDE DEF fee, fill
<1>4. qty * fill \in Nat /\ qty * fill > 0
  BY <1>2, Z3
<1>5. amount \in Int /\ amount > 0
  BY <1>3, <1>4
<1> HIDE DEF amount
<1>6. /\ Sound(b) /\ b.realized = book.realized /\ b.longs = book.longs /\ b.shorts = book.shorts
      /\ b.cash = book.cash - amount
  BY <1>5, Paid
<1> HIDE DEF b
<1>7. p \in Position /\ Open(p) /\ Priced(p) /\ Exact(p)
  BY <1>2, NewIsExact
<1> HIDE DEF p
<1>8. book' = [cash |-> b.cash, realized |-> b.realized, trades |-> b.trades,
               longs |-> b.longs, shorts |-> [b.shorts EXCEPT ![s] = p]]
  <2>1. book' = WithShort(b, s, p)
    BY <1>1 DEF OpenShort, b, p
  <2>2. b = [cash |-> b.cash, realized |-> b.realized, trades |-> b.trades,
             longs |-> b.longs, shorts |-> b.shorts]
    BY <1>6, BookFields
  <2> QED
    BY <2>1, <2>2 DEF WithShort
<1>9. /\ Sound(book') /\ OnlyAt(b, book', s) /\ book'.shorts[s] = p
      /\ book'.longs[s] = b.longs[s] /\ book'.realized = b.realized /\ book'.cash = b.cash
  <2>1. b.cash \in Int /\ b.realized \in Int /\ b.trades \in Nat
    BY <1>6, BookFields
  <2>2. Open(p) => Priced(p) /\ Exact(p) /\ ~Open(b.longs[s])
    BY <1>1, <1>6, <1>7
  <2>3. ~Open(p) => p = Flat
    BY <1>7
  <2>4. LET c == [cash |-> b.cash, realized |-> b.realized, trades |-> b.trades,
                  longs |-> b.longs, shorts |-> [b.shorts EXCEPT ![s] = p]]
        IN  /\ Sound(c) /\ OnlyAt(b, c, s) /\ c.shorts[s] = p /\ c.longs[s] = b.longs[s]
            /\ c.realized = b.realized /\ c.cash = b.cash
    <3>1. Sound(b) /\ p \in Position
      BY <1>6, <1>7
    <3> QED
      BY <3>1, <2>1, <2>2, <2>3, ShortReplaced
  <2> QED
    BY <1>8, <2>4
<1>10. book.longs[s] = Flat
  BY <1>1 DEF Sound
<1>11. book'.cash # book.cash
  BY <1>5, <1>6, <1>9, BookFields
<1> QED
  BY <1>1, <1>6, <1>9, <1>10, <1>11 DEF OnlyAt, fill, p

(* Shares of a long are sold, or all of it.                                 *)
LEMMA SellLongEffect ==
  ASSUME Sound(book), NEW s \in Symbols, latestPrices[s] \in Nat \ {0},
         NEW qty \in Nat \ {0}, SellLong(s, qty)
  PROVE  /\ Sound(book') /\ OnlyAt(book, book', s) /\ latestPrices' = latestPrices
         /\ Open(book.longs[s]) /\ qty <= book.longs[s].qty
         /\ book'.longs[s] = Reduce(book.longs[s], qty) /\ book'.shorts[s] = Flat
         /\ Frictionless => book'.realized - book.realized
                              = qty * latestPrices[s] - Basis(book.longs[s], qty)
<1>1. /\ book' = ExitLong(book, s, qty, latestPrices[s])
      /\ latestPrices' = latestPrices
      /\ Open(book.longs[s]) /\ qty <= book.longs[s].qty
  BY DEF SellLong, Fill, ExitLong
<1> QED
  BY <1>1, ExitLongEffect

(* A cover by order reduces the short.                                      *)
LEMMA CoverEffect ==
  ASSUME Sound(book), NEW s \in Symbols, latestPrices[s] \in Nat \ {0},
         NEW qty \in Nat \ {0}, BuyToCover(s, qty)
  PROVE  /\ Sound(book') /\ OnlyAt(book, book', s) /\ latestPrices' = latestPrices
         /\ Open(book.shorts[s])
         /\ book'.shorts[s] = Reduce(book.shorts[s], qty) /\ book'.longs[s] = Flat
         /\ Frictionless => book'.realized - book.realized
                              = Basis(book.shorts[s], qty) - qty * latestPrices[s]
<1> DEFINE fill == ApplySlippage(latestPrices[s], "BUY")
           fee == ComputeCharges("BUY", qty, fill, TRUE)
           amount == qty * fill + fee
           c == ExitShort(book, s, qty, latestPrices[s])
<1>1. /\ book' = Pay(c, amount) /\ latestPrices' = latestPrices /\ Open(book.shorts[s])
  BY DEF BuyToCover, Fill, ExitShort
<1>2. fill \in Nat
  BY FillBounds
<1>3. fee \in Nat
  <2> HIDE DEF fill
  <2> QED
    BY <1>2, ChargesBounds
<1> HIDE DEF fill, fee
<1>4. amount \in Int
  BY <1>2, <1>3
<1>5. /\ Sound(c) /\ OnlyAt(book, c, s)
      /\ c.shorts[s] = Reduce(book.shorts[s], qty) /\ c.longs[s] = Flat
      /\ Frictionless => c.realized - book.realized
                           = Basis(book.shorts[s], qty) - qty * latestPrices[s]
  <2>1. Open(book.shorts[s])
    BY <1>1
  <2>2. /\ Sound(c) /\ OnlyAt(book, c, s)
        /\ c.shorts[s] = Reduce(book.shorts[s], qty) /\ c.longs[s] = Flat
        /\ c.realized - book.realized <= Basis(book.shorts[s], qty) - qty * latestPrices[s]
        /\ Frictionless => c.realized - book.realized
                             = Basis(book.shorts[s], qty) - qty * latestPrices[s]
    BY <2>1, ExitShortEffect
  <2> QED
    BY <2>2
<1> HIDE DEF c, amount
<1>6. /\ Sound(book') /\ book'.realized = c.realized
      /\ book'.longs = c.longs /\ book'.shorts = c.shorts
  BY <1>1, <1>4, <1>5, Paid
<1> QED
  BY <1>1, <1>5, <1>6 DEF OnlyAt
-----------------------------------------------------------------------------
(* The inductive invariant                                                  *)

Steps == {"day", "exits", "signals", "price", "place", "close"}

BacktestTypeOK ==
  /\ Sound(book)
  /\ latestPrices \in [Symbols -> Nat \ {0}]
  /\ trail \in [Symbols -> [risk: Int, moved: BOOLEAN]]
  /\ age \in [Symbols -> Nat]
  /\ pc \in Steps
  /\ bars \in [Symbols -> Bars \cup {NoBar}]
  /\ cursor \in Nat \ {0}

(* The order on its way is one that the filters let through, and when it is *)
(* placed today's open has closed what it could.                            *)
OrderIsSound ==
  LET s == pending.symbol
      open == bars[s].open
  IN  pc \in {"price", "place"} =>
        /\ s \in Symbols /\ bars[s] # NoBar
        /\ pending.side \in {"BUY", "SELL"}
        /\ pending.qty \in Nat \ {0} /\ pending.stop \in Nat \ {0} /\ pending.target \in Nat
        /\ pending.side = "BUY" =>
             pending.stop < open /\ (pending.target # NoTarget => pending.target > open)
        /\ pending.side = "SELL" =>
             pending.stop > open /\ (pending.target # NoTarget => pending.target < open)
        /\ pc = "place" =>
             /\ latestPrices[s] = open
             /\ Open(book.longs[s]) => open > book.longs[s].stop
             /\ Open(book.shorts[s]) => open < book.shorts[s].stop

(* What hangs on a position is gone with it.                                *)
Untrailed ==
  \A s \in Symbols : ~IsOpen(book, s) => trail[s] = NoTrail /\ age[s] = 0

(* The exits of the day leave no position that is too old.                  *)
Young(s) == IsOpen(book, s) /\ bars[s] # NoBar => age[s] <= MaxAge

Aged ==
  /\ pc = "exits" => \A i \in 1..Len(Universe) : i < cursor => Young(Universe[i])
  /\ pc \in {"signals", "price", "place", "close"} => \A s \in Symbols : Young(s)

(* The marks of the day are its closes, as far as they have been taken.     *)
AtClose(s) ==
  bars[s] # NoBar =>
    /\ Open(book.longs[s]) => book.longs[s].last = bars[s].close
    /\ Open(book.shorts[s]) => book.shorts[s].last = bars[s].close

Settled ==
  /\ pc = "close" => \A i \in 1..Len(Universe) : i < cursor => AtClose(Universe[i])
  /\ pc = "day" /\ day > 0 /\ context.regime # "UNKNOWN" =>
       recorded = Equity(book) /\ \A s \in Symbols : AtClose(s)

BacktestInv ==
  /\ BacktestTypeOK
  /\ OrderIsSound
  /\ Untrailed
  /\ Aged
  /\ Settled

(* Without friction: a position that has not been added to cost a whole     *)
(* number of prices, its target is still ahead, and once it was moved to    *)
(* breakeven its stop pays its cost.                                        *)
LongKept(pos, t) ==
  /\ Exact(pos)
  /\ pos.target # NoTarget => pos.stop < pos.target /\ pos.last < pos.target
  /\ t.moved => pos.stop >= AvgPrice(pos)

ShortKept(pos, t) ==
  /\ Exact(pos)
  /\ pos.target # NoTarget => pos.stop > pos.target /\ pos.last > pos.target
  /\ t.moved => pos.stop <= AvgPrice(pos)

Breakeven ==
  \A s \in Symbols \ added :
    /\ Open(book.longs[s]) => LongKept(book.longs[s], trail[s])
    /\ Open(book.shorts[s]) => ShortKept(book.shorts[s], trail[s])
-----------------------------------------------------------------------------
(* The exits of a day                                                       *)

WithStop(pos, stop) ==
  [qty |-> pos.qty, cost |-> pos.cost, stop |-> stop, target |-> pos.target, last |-> pos.last]

(* A position with another stop is otherwise the same.                      *)
LEMMA WithStopIs ==
  ASSUME NEW pos \in Position, Open(pos), Priced(pos), NEW stop \in Nat \ {0}
  PROVE  LET p == WithStop(pos, stop)
         IN  /\ [pos EXCEPT !.stop = stop] = p
             /\ p \in Position /\ Open(p) /\ Priced(p) /\ AvgPrice(p) = AvgPrice(pos)
             /\ Exact(pos) => Exact(p)
             /\ p.qty = pos.qty /\ p.cost = pos.cost /\ p.stop = stop
             /\ p.target = pos.target /\ p.last = pos.last
<1> DEFINE p == WithStop(pos, stop)
<1>1. [pos EXCEPT !.stop = stop] = p /\ p \in Position
  BY DEF Position, WithStop
<1>2. /\ p.qty = pos.qty /\ p.cost = pos.cost /\ p.stop = stop
      /\ p.target = pos.target /\ p.last = pos.last
  BY DEF WithStop
<1> HIDE DEF p
<1>3. AvgPrice(p) = AvgPrice(pos)
  BY <1>2 DEF AvgPrice
<1> QED
  BY <1>1, <1>2, <1>3 DEF Open, Priced, Exact, p

(* An average price is a number.                                            *)
LEMMA AvgPriceType ==
  ASSUME NEW pos \in Position, Open(pos)
  PROVE  AvgPrice(pos) \in Int
<1>1. pos.cost \in Int /\ pos.qty \in Nat /\ pos.qty > 0
  BY DEF Position, Open
<1> QED
  BY <1>1 DEF AvgPrice

Trails == [risk: Int, moved: BOOLEAN]

(* The risk that is remembered of a position is one, and moves no stop.     *)
LEMMA RiskedType ==
  ASSUME NEW pos \in Position, Open(pos), NEW t \in Trails
  PROVE  Risked(pos, t) \in Trails /\ (Risked(pos, t).moved => t.moved)
<1>1. AvgPrice(pos) \in Int /\ pos.stop \in Int
  BY AvgPriceType DEF Position
<1>2. Larger(AvgPrice(pos) - pos.stop, pos.stop - AvgPrice(pos)) \in Int
  BY <1>1 DEF Larger
<1>3. CASE t.risk # NoTrail.risk
  BY <1>3 DEF Risked
<1>4. CASE ~(t.risk # NoTrail.risk)
  <2>1. Risked(pos, t) = [risk |-> Larger(AvgPrice(pos) - pos.stop, pos.stop - AvgPrice(pos)),
                          moved |-> FALSE]
    BY <1>4 DEF Risked
  <2> QED
    BY <1>2, <2>1 DEF Trails
<1> QED
  BY <1>3, <1>4

(* A long's stop only rises; and one that is moved pays the cost.           *)
LEMMA TrailedLong ==
  ASSUME NEW pos \in Position, Open(pos), Priced(pos), NEW t \in Trails
  PROVE  LET ts == TrailedStop(pos, t, FALSE)
         IN  /\ ts \in Nat \ {0} /\ ts >= pos.stop
             /\ AtBreakeven(pos, t, FALSE) /\ ~t.moved => ts >= AvgPrice(pos)
             /\ pos.target # NoTarget /\ pos.stop < pos.target /\ pos.last < pos.target
                  => ts < pos.target
<1> DEFINE ts == TrailedStop(pos, t, FALSE)
           avg == AvgPrice(pos)
           back == pos.last - (3 * t.risk) \div 2
<1>1. /\ avg \in Int /\ pos.stop \in Nat \ {0} /\ pos.last \in Int /\ pos.target \in Int
      /\ t.risk \in Int
  BY AvgPriceType DEF Position, Priced, Trails
<1>2. (3 * t.risk) \div 2 \in Int /\ (t.risk > 0 => (3 * t.risk) \div 2 >= 0)
  BY <1>1
<1>3. back \in Int /\ (t.risk > 0 => back <= pos.last)
  BY <1>1, <1>2
<1>4. AtBreakeven(pos, t, FALSE) => t.risk > 0 /\ (t.moved \/ pos.last >= avg + t.risk)
  BY DEF AtBreakeven
<1>5. ts = IF ~AtBreakeven(pos, t, FALSE) THEN pos.stop
           ELSE Larger(IF t.moved THEN pos.stop ELSE Larger(pos.stop, avg), back)
  BY DEF TrailedStop
<1> DEFINE moved == AtBreakeven(pos, t, FALSE)
           safe == IF t.moved THEN pos.stop ELSE Larger(pos.stop, avg)
           Wanted == /\ ts \in Nat \ {0} /\ ts >= pos.stop
                     /\ moved /\ ~t.moved => ts >= avg
                     /\ pos.target # NoTarget /\ pos.stop < pos.target /\ pos.last < pos.target
                          => ts < pos.target
<1>6. /\ safe \in Int /\ safe >= pos.stop /\ (~t.moved => safe >= avg)
      /\ t.moved \/ safe = avg \/ safe = pos.stop
      /\ t.moved => safe = pos.stop
  <2> HIDE DEF avg
  <2> QED
    BY <1>1 DEF Larger
<1> HIDE DEF ts, avg, back, moved, safe
<1>7. moved => (ts = safe /\ safe >= back) \/ (ts = back /\ back > safe)
  <2>1. moved => ts = Larger(safe, back)
    BY <1>5 DEF moved, safe
  <2> QED
    BY <1>3, <1>6, <2>1 DEF Larger
<1>8. ~moved => ts = pos.stop
  BY <1>5 DEF moved
<1>9. moved => t.risk > 0 /\ (t.moved \/ pos.last >= avg + t.risk)
  BY <1>4 DEF moved
<1>10. Wanted
  BY <1>1, <1>3, <1>6, <1>7, <1>8, <1>9
<1> QED
  BY <1>10 DEF ts, avg, moved

(* A trailed stop of a short only comes down: at breakeven to the average   *)
(* price, and not past the target.                                          *)
LEMMA TrailedShort ==
  ASSUME NEW pos \in Position, Open(pos), Priced(pos), AvgPrice(pos) > 0, NEW t \in Trails
  PROVE  LET ts == TrailedStop(pos, t, TRUE)
         IN  /\ ts \in Nat \ {0} /\ ts <= pos.stop
             /\ AtBreakeven(pos, t, TRUE) /\ ~t.moved => ts <= AvgPrice(pos)
             /\ pos.target # NoTarget /\ pos.stop > pos.target /\ pos.last > pos.target
                  => ts > pos.target
<1> DEFINE ts == TrailedStop(pos, t, TRUE)
           avg == AvgPrice(pos)
           back == pos.last + (3 * t.risk) \div 2
<1>1. /\ avg \in Int /\ avg > 0 /\ pos.stop \in Nat \ {0} /\ pos.last \in Int /\ pos.last > 0
      /\ pos.target \in Int /\ t.risk \in Int
  BY AvgPriceType DEF Position, Priced, Trails
<1>2. (3 * t.risk) \div 2 \in Int /\ (t.risk > 0 => (3 * t.risk) \div 2 >= 0)
  BY <1>1
<1>3. back \in Int /\ (t.risk > 0 => back >= pos.last)
  BY <1>1, <1>2
<1>4. AtBreakeven(pos, t, TRUE) => t.risk > 0 /\ (t.moved \/ pos.last <= avg - t.risk)
  BY DEF AtBreakeven
<1>5. ts = IF ~AtBreakeven(pos, t, TRUE) THEN pos.stop
           ELSE Smaller(IF t.moved THEN pos.stop ELSE Smaller(pos.stop, avg), back)
  BY DEF TrailedStop
<1> DEFINE moved == AtBreakeven(pos, t, TRUE)
           safe == IF t.moved THEN pos.stop ELSE Smaller(pos.stop, avg)
           Wanted == /\ ts \in Nat \ {0} /\ ts <= pos.stop
                     /\ moved /\ ~t.moved => ts <= avg
                     /\ pos.target # NoTarget /\ pos.stop > pos.target /\ pos.last > pos.target
                          => ts > pos.target
<1>6. /\ safe \in Int /\ safe > 0 /\ safe <= pos.stop /\ (~t.moved => safe <= avg)
      /\ t.moved \/ safe = avg \/ safe = pos.stop
      /\ t.moved => safe = pos.stop
  <2> HIDE DEF avg
  <2> QED
    BY <1>1 DEF Smaller
<1> HIDE DEF ts, avg, back, moved, safe
<1>7. moved => (ts = safe /\ safe <= back) \/ (ts = back /\ back < safe)
  <2>1. moved => ts = Smaller(safe, back)
    BY <1>5 DEF moved, safe
  <2> QED
    BY <1>3, <1>6, <2>1 DEF Smaller
<1>8. ~moved => ts = pos.stop
  BY <1>5 DEF moved
<1>9. moved => t.risk > 0 /\ (t.moved \/ pos.last <= avg - t.risk)
  BY <1>4 DEF moved
<1>10. Wanted
  BY <1>1, <1>3, <1>6, <1>7, <1>8, <1>9
<1> QED
  BY <1>10 DEF ts, avg, moved

(* The prices of a bar are in order.                                        *)
LEMMA BarPrices ==
  ASSUME NEW b \in Bars \cup {NoBar}, b # NoBar
  PROVE  /\ {b.open, b.high, b.low, b.close} \subseteq Nat \ {0}
         /\ b.low <= b.open /\ b.open <= b.high
         /\ b.low <= b.close /\ b.close <= b.high
<1>1. /\ b \in [open: Nat, high: Nat, low: Nat, close: Nat]
      /\ b.low > 0 /\ {b.open, b.close} \subseteq b.low..b.high
  BY BacktestAssumption
<1> QED
  BY <1>1

(* A day with an open long: it is closed, at its stop if the bar reached    *)
(* that and never below it, or it stays, with the stop that was not         *)
(* reached.                                                                 *)
LEMMA ExitsOfLong ==
  ASSUME BacktestTypeOK, NEW s \in Symbols, ExitsOf(s), Open(book.longs[s])
  PROVE  LET pos == book.longs[s]
             t   == Risked(pos, trail[s])
             ts  == TrailedStop(pos, t, FALSE)
         IN  /\ latestPrices' \in [Symbols -> Nat \ {0}]
             /\ \/ /\ \E p \in Nat : p >= ts /\ (bars[s].low <= ts => p = ts)
                                     /\ LongOut(book, book', s, p)
                \/ /\ Sound(book') /\ OnlyAt(book, book', s)
                   /\ book'.longs[s] = WithStop(pos, ts) /\ book'.shorts[s] = Flat
                   /\ book'.realized = book.realized
                   /\ bars[s].low > ts /\ age[s] <= MaxAge
<1> DEFINE pos == book.longs[s]
           t   == Risked(pos, trail[s])
           ts  == TrailedStop(pos, t, FALSE)
           bar == bars[s]
           p0  == WithStop(pos, ts)
           b   == WithLong(book, s, p0)
           price == ReachedPrice(p0, bar, FALSE)
           after == IF price # NoPrice THEN Marked(b, s, price)
                    ELSE IF ~Overstayed(s) THEN b
                    ELSE ExitLong(b, s, pos.qty, bar.close)
<1>1. Sound(book) /\ ~Open(book.shorts[s]) /\ book.shorts[s] = Flat /\ Priced(pos)
  BY DEF BacktestTypeOK, Sound
<1>2. pos \in Position /\ trail[s] \in Trails
  BY <1>1, BookFields DEF BacktestTypeOK, Trails
<1>3. t \in Trails
  BY <1>2, RiskedType
<1>4. ts \in Nat \ {0} /\ ts >= pos.stop
  <2> HIDE DEF t, pos
  <2> QED
    BY <1>1, <1>2, <1>3, TrailedLong DEF pos
<1>5. PositionOf(book, s) = pos
  BY <1>1 DEF PositionOf
<1>6. /\ [pos EXCEPT !.stop = ts] = p0
      /\ p0 \in Position /\ Open(p0) /\ Priced(p0)
      /\ p0.qty = pos.qty /\ p0.cost = pos.cost /\ p0.stop = ts
      /\ p0.target = pos.target /\ p0.last = pos.last
  <2> HIDE DEF t, ts, pos
  <2> QED
    BY <1>1, <1>2, <1>4, WithStopIs DEF pos
<1>7. /\ book' = after /\ bar # NoBar
      /\ latestPrices' = IF price # NoPrice THEN [latestPrices EXCEPT ![s] = price]
                         ELSE latestPrices
  <2>1. LET raised == [pos EXCEPT !.stop = TrailedStop(pos, t, Open(book.shorts[s]))]
            bb == IF Open(book.shorts[s]) THEN WithShort(book, s, raised)
                  ELSE WithLong(book, s, raised)
            pp == ReachedPrice(raised, bar, Open(book.shorts[s]))
        IN  /\ book' = IF pp # NoPrice THEN Marked(bb, s, pp)
                       ELSE IF ~Overstayed(s) THEN bb
                       ELSE IF Open(book.shorts[s]) THEN ExitShort(bb, s, pos.qty, bar.close)
                       ELSE ExitLong(bb, s, pos.qty, bar.close)
            /\ bar # NoBar
            /\ latestPrices' = IF pp # NoPrice THEN [latestPrices EXCEPT ![s] = pp]
                               ELSE latestPrices
    BY <1>5 DEF ExitsOf
  <2>2. Open(book.shorts[s]) = FALSE
    BY <1>1 DEF Open
  <2> QED
    BY <1>6, <2>1, <2>2
<1> HIDE DEF pos, t, ts, p0, price
<1>8. /\ Sound(b) /\ OnlyAt(book, b, s) /\ b.longs[s] = p0 /\ b.shorts[s] = Flat
      /\ b.realized = book.realized
  <2>1. book.cash \in Int /\ book.realized \in Int /\ book.trades \in Nat
    BY <1>1, BookFields
  <2>2. b = [cash |-> book.cash, realized |-> book.realized, trades |-> book.trades,
             longs |-> [book.longs EXCEPT ![s] = p0], shorts |-> book.shorts]
    BY <1>1, BookFields DEF WithLong
  <2> HIDE DEF b
  <2> QED
    BY <1>1, <1>6, <2>1, <2>2, LongReplaced
<1> HIDE DEF b
<1>9. /\ bar.low \in Nat \ {0} /\ bar.close \in Nat \ {0} /\ bar.high \in Nat
      /\ bar.low <= bar.close
  <2>1. bar \in Bars \cup {NoBar}
    BY DEF BacktestTypeOK
  <2> HIDE DEF bar
  <2> QED
    BY <1>7, <2>1, BarPrices
<1> HIDE DEF bar
<1>10. price = IF bar.low <= ts THEN ts
               ELSE IF pos.target # NoTarget /\ bar.high >= pos.target THEN pos.target ELSE NoPrice
  BY <1>6 DEF ReachedPrice, price
<1>11. pos.target \in Nat /\ NoPrice = 0 /\ NoTarget = 0
  BY <1>1, <1>2 DEF Position, Priced, NoPrice, NoTarget
<1>12. ASSUME NEW p \in Nat \ {0}, NEW c, LongOut(b, c, s, p)
       PROVE  LongOut(book, c, s, p)
  <2>1. b.longs[s].qty = pos.qty /\ b.longs[s].cost = pos.cost
    BY <1>6, <1>8
  <2> QED
    BY <1>8, <1>12, <2>1 DEF LongOut, OnlyAt, pos
<1>13. CASE bar.low <= ts
  <2>1. price = ts /\ price # NoPrice
    BY <1>4, <1>10, <1>11, <1>13
  <2>2. book' = Marked(b, s, ts) /\ latestPrices' = [latestPrices EXCEPT ![s] = ts]
    BY <1>7, <2>1
  <2>3. LongHit(b, book', s, ts)
    <3>1. Kept(b, book', s, ts) \/ LongHit(b, book', s, ts) \/ ShortHit(b, book', s, ts)
      BY <1>4, <1>8, <2>2, MarkedEffect
    <3>2. ~Kept(b, book', s, ts)
      BY <1>4, <1>6, <1>8 DEF Kept
    <3>3. ~ShortHit(b, book', s, ts)
      BY <1>8, FlatIsClosed DEF ShortHit
    <3> QED
      BY <3>1, <3>2, <3>3
  <2>4. LongOut(b, book', s, ts)
    BY <1>4, <1>6, <1>8, <2>3 DEF LongHit
  <2>5. latestPrices' \in [Symbols -> Nat \ {0}]
    BY <1>4, <2>2 DEF BacktestTypeOK
  <2>6. \E p \in Nat : p >= ts /\ (bar.low <= ts => p = ts) /\ LongOut(book, book', s, p)
    <3>1. ts \in Nat /\ ts >= ts
      BY <1>4
    <3>2. LongOut(book, book', s, ts)
      BY <1>4, <1>12, <2>4
    <3> QED
      BY <3>1, <3>2
  <2> QED
    BY <2>5, <2>6 DEF ts, t, pos, bar
<1>14. CASE ~(bar.low <= ts) /\ pos.target # NoTarget /\ bar.high >= pos.target
  <2>1. price = pos.target /\ price # NoPrice /\ pos.target \in Nat \ {0}
    BY <1>10, <1>11, <1>14
  <2>2. book' = Marked(b, s, pos.target) /\ latestPrices' = [latestPrices EXCEPT ![s] = pos.target]
    BY <1>7, <2>1
  <2>3. LongHit(b, book', s, pos.target)
    <3>1. \/ Kept(b, book', s, pos.target)
          \/ LongHit(b, book', s, pos.target) \/ ShortHit(b, book', s, pos.target)
      BY <1>8, <2>1, <2>2, MarkedEffect
    <3>2. ~Kept(b, book', s, pos.target)
      BY <1>6, <1>8, <2>1, <1>11 DEF Kept
    <3>3. ~ShortHit(b, book', s, pos.target)
      BY <1>8, FlatIsClosed DEF ShortHit
    <3> QED
      BY <3>1, <3>2, <3>3
  <2>4. LongOut(b, book', s, ts) \/ (pos.target >= ts /\ LongOut(b, book', s, pos.target))
    BY <1>4, <1>6, <1>8, <2>1, <2>3 DEF LongHit
  <2>5. latestPrices' \in [Symbols -> Nat \ {0}]
    BY <2>1, <2>2 DEF BacktestTypeOK
  <2>6. \E p \in Nat : p >= ts /\ (bar.low <= ts => p = ts) /\ LongOut(book, book', s, p)
    BY <1>4, <1>12, <1>14, <2>1, <2>4
  <2> QED
    BY <2>5, <2>6 DEF ts, t, pos, bar
<1>15. CASE ~(bar.low <= ts) /\ ~(pos.target # NoTarget /\ bar.high >= pos.target)
  <2>1. price = NoPrice
    BY <1>10, <1>15
  <2>2. latestPrices' \in [Symbols -> Nat \ {0}]
    BY <1>7, <2>1 DEF BacktestTypeOK
  <2>3. CASE Overstayed(s)
    <3>1. book' = ExitLong(b, s, b.longs[s].qty, bar.close)
      BY <1>6, <1>7, <1>8, <2>1, <2>3
    <3>2. LongOut(b, book', s, bar.close)
      BY <1>6, <1>8, <1>9, <3>1, LongGoesOut
    <3>3. bar.close >= ts
      BY <1>4, <1>9, <1>15
    <3> QED
      BY <1>9, <1>12, <1>15, <2>2, <3>2, <3>3 DEF ts, t, pos, bar
  <2>4. CASE ~Overstayed(s)
    <3>1. book' = b
      BY <1>7, <2>1, <2>4
    <3>2. age[s] <= MaxAge /\ bar.low > ts
      <4>1. age[s] \in Nat /\ MaxAge \in Nat
        BY BacktestAssumption DEF BacktestTypeOK
      <4> QED
        BY <1>4, <1>9, <1>15, <2>4, <4>1 DEF Overstayed
    <3> QED
      BY <1>8, <2>2, <3>1, <3>2 DEF ts, t, pos, bar, p0
  <2> QED
    BY <2>3, <2>4
<1> QED
  BY <1>13, <1>14, <1>15

(* A day with an open short, the other way round.                         *)
LEMMA ExitsOfShort ==
  ASSUME BacktestTypeOK, NEW s \in Symbols, ExitsOf(s), Open(book.shorts[s])
  PROVE  LET pos == book.shorts[s]
             t   == Risked(pos, trail[s])
             ts  == TrailedStop(pos, t, TRUE)
         IN  /\ latestPrices' \in [Symbols -> Nat \ {0}]
             /\ \/ /\ \E p \in Nat : p <= ts /\ (bars[s].high >= ts => p = ts)
                                     /\ ShortOut(book, book', s, p)
                \/ /\ Sound(book') /\ OnlyAt(book, book', s)
                   /\ book'.shorts[s] = WithStop(pos, ts) /\ book'.longs[s] = Flat
                   /\ book'.realized = book.realized
                   /\ bars[s].high < ts /\ age[s] <= MaxAge
<1> DEFINE pos == book.shorts[s]
           t   == Risked(pos, trail[s])
           ts  == TrailedStop(pos, t, TRUE)
           bar == bars[s]
           p0  == WithStop(pos, ts)
           b   == WithShort(book, s, p0)
           price == ReachedPrice(p0, bar, TRUE)
           after == IF price # NoPrice THEN Marked(b, s, price)
                    ELSE IF ~Overstayed(s) THEN b
                    ELSE ExitShort(b, s, pos.qty, bar.close)
<1>1. Sound(book) /\ ~Open(book.longs[s]) /\ book.longs[s] = Flat
      /\ Priced(pos) /\ Exact(pos)
  BY DEF BacktestTypeOK, Sound
<1>2. pos \in Position /\ trail[s] \in Trails
  BY <1>1, BookFields DEF BacktestTypeOK, Trails
<1>3. t \in Trails
  BY <1>2, RiskedType
<1>4. ts \in Nat \ {0} /\ ts <= pos.stop
  <2>1. AvgPrice(pos) > 0
    BY <1>1 DEF Exact
  <2> HIDE DEF t, pos
  <2> QED
    BY <1>1, <1>2, <1>3, <2>1, TrailedShort DEF pos
<1>5. PositionOf(book, s) = pos
  BY <1>1 DEF PositionOf
<1>6. /\ [pos EXCEPT !.stop = ts] = p0
      /\ p0 \in Position /\ Open(p0) /\ Priced(p0) /\ Exact(p0)
      /\ p0.qty = pos.qty /\ p0.cost = pos.cost /\ p0.stop = ts
      /\ p0.target = pos.target /\ p0.last = pos.last
  <2> HIDE DEF t, ts, pos
  <2> QED
    BY <1>1, <1>2, <1>4, WithStopIs DEF pos
<1>7. /\ book' = after /\ bar # NoBar
      /\ latestPrices' = IF price # NoPrice THEN [latestPrices EXCEPT ![s] = price]
                         ELSE latestPrices
  <2>1. LET raised == [pos EXCEPT !.stop = TrailedStop(pos, t, Open(pos))]
            bb == IF Open(pos) THEN WithShort(book, s, raised)
                  ELSE WithLong(book, s, raised)
            pp == ReachedPrice(raised, bar, Open(pos))
        IN  /\ book' = IF pp # NoPrice THEN Marked(bb, s, pp)
                       ELSE IF ~Overstayed(s) THEN bb
                       ELSE IF Open(pos) THEN ExitShort(bb, s, pos.qty, bar.close)
                       ELSE ExitLong(bb, s, pos.qty, bar.close)
            /\ bar # NoBar
            /\ latestPrices' = IF pp # NoPrice THEN [latestPrices EXCEPT ![s] = pp]
                               ELSE latestPrices
    BY <1>5 DEF ExitsOf
  <2>2. Open(pos) = TRUE
    BY DEF Open
  <2> QED
    BY <1>6, <2>1, <2>2
<1> HIDE DEF pos, t, ts, p0, price
<1>8. /\ Sound(b) /\ OnlyAt(book, b, s) /\ b.shorts[s] = p0 /\ b.longs[s] = Flat
      /\ b.realized = book.realized
  <2>1. book.cash \in Int /\ book.realized \in Int /\ book.trades \in Nat
    BY <1>1, BookFields
  <2>2. b = [cash |-> book.cash, realized |-> book.realized, trades |-> book.trades,
             longs |-> book.longs, shorts |-> [book.shorts EXCEPT ![s] = p0]]
    BY <1>1, BookFields DEF WithShort
  <2> HIDE DEF b
  <2> QED
    BY <1>1, <1>6, <2>1, <2>2, ShortReplaced
<1> HIDE DEF b
<1>9. /\ bar.low \in Nat \ {0} /\ bar.close \in Nat \ {0} /\ bar.high \in Nat
      /\ bar.close <= bar.high
  <2>1. bar \in Bars \cup {NoBar}
    BY DEF BacktestTypeOK
  <2> HIDE DEF bar
  <2> QED
    BY <1>7, <2>1, BarPrices
<1> HIDE DEF bar
<1>10. price = IF bar.high >= ts THEN ts
               ELSE IF pos.target # NoTarget /\ bar.low <= pos.target THEN pos.target ELSE NoPrice
  BY <1>6 DEF ReachedPrice, price
<1>11. pos.target \in Nat /\ NoPrice = 0 /\ NoTarget = 0
  BY <1>1, <1>2 DEF Position, Priced, NoPrice, NoTarget
<1>12. ASSUME NEW p \in Nat \ {0}, NEW c, ShortOut(b, c, s, p)
       PROVE  ShortOut(book, c, s, p)
  <2>1. b.shorts[s].qty = pos.qty /\ b.shorts[s].cost = pos.cost
    BY <1>6, <1>8
  <2> QED
    BY <1>8, <1>12, <2>1 DEF ShortOut, OnlyAt, pos
<1>13. CASE bar.high >= ts
  <2>1. price = ts /\ price # NoPrice
    BY <1>4, <1>10, <1>11, <1>13
  <2>2. book' = Marked(b, s, ts) /\ latestPrices' = [latestPrices EXCEPT ![s] = ts]
    BY <1>7, <2>1
  <2>3. ShortHit(b, book', s, ts)
    <3>1. Kept(b, book', s, ts) \/ ShortHit(b, book', s, ts) \/ LongHit(b, book', s, ts)
      BY <1>4, <1>8, <2>2, MarkedEffect
    <3>2. ~Kept(b, book', s, ts)
      BY <1>4, <1>6, <1>8 DEF Kept
    <3>3. ~LongHit(b, book', s, ts)
      BY <1>8, FlatIsClosed DEF LongHit
    <3> QED
      BY <3>1, <3>2, <3>3
  <2>4. ShortOut(b, book', s, ts)
    BY <1>4, <1>6, <1>8, <2>3 DEF ShortHit
  <2>5. latestPrices' \in [Symbols -> Nat \ {0}]
    BY <1>4, <2>2 DEF BacktestTypeOK
  <2>6. \E p \in Nat : p <= ts /\ (bar.high >= ts => p = ts) /\ ShortOut(book, book', s, p)
    <3>1. ts \in Nat /\ ts <= ts
      BY <1>4
    <3>2. ShortOut(book, book', s, ts)
      BY <1>4, <1>12, <2>4
    <3> QED
      BY <3>1, <3>2
  <2> QED
    BY <2>5, <2>6 DEF ts, t, pos, bar
<1>14. CASE ~(bar.high >= ts) /\ pos.target # NoTarget /\ bar.low <= pos.target
  <2>1. price = pos.target /\ price # NoPrice /\ pos.target \in Nat \ {0}
    BY <1>10, <1>11, <1>14
  <2>2. book' = Marked(b, s, pos.target) /\ latestPrices' = [latestPrices EXCEPT ![s] = pos.target]
    BY <1>7, <2>1
  <2>3. ShortHit(b, book', s, pos.target)
    <3>1. \/ Kept(b, book', s, pos.target)
          \/ ShortHit(b, book', s, pos.target) \/ LongHit(b, book', s, pos.target)
      BY <1>8, <2>1, <2>2, MarkedEffect
    <3>2. ~Kept(b, book', s, pos.target)
      BY <1>6, <1>8, <2>1, <1>11 DEF Kept
    <3>3. ~LongHit(b, book', s, pos.target)
      BY <1>8, FlatIsClosed DEF LongHit
    <3> QED
      BY <3>1, <3>2, <3>3
  <2>4. ShortOut(b, book', s, ts) \/ (pos.target <= ts /\ ShortOut(b, book', s, pos.target))
    BY <1>4, <1>6, <1>8, <2>1, <2>3 DEF ShortHit
  <2>5. latestPrices' \in [Symbols -> Nat \ {0}]
    BY <2>1, <2>2 DEF BacktestTypeOK
  <2>6. \E p \in Nat : p <= ts /\ (bar.high >= ts => p = ts) /\ ShortOut(book, book', s, p)
    BY <1>4, <1>12, <1>14, <2>1, <2>4
  <2> QED
    BY <2>5, <2>6 DEF ts, t, pos, bar
<1>15. CASE ~(bar.high >= ts) /\ ~(pos.target # NoTarget /\ bar.low <= pos.target)
  <2>1. price = NoPrice
    BY <1>10, <1>15
  <2>2. latestPrices' \in [Symbols -> Nat \ {0}]
    BY <1>7, <2>1 DEF BacktestTypeOK
  <2>3. CASE Overstayed(s)
    <3>1. book' = ExitShort(b, s, b.shorts[s].qty, bar.close)
      BY <1>6, <1>7, <1>8, <2>1, <2>3
    <3>2. ShortOut(b, book', s, bar.close)
      BY <1>6, <1>8, <1>9, <3>1, ShortGoesOut
    <3>3. bar.close <= ts
      BY <1>4, <1>9, <1>15
    <3> QED
      BY <1>9, <1>12, <1>15, <2>2, <3>2, <3>3 DEF ts, t, pos, bar
  <2>4. CASE ~Overstayed(s)
    <3>1. book' = b
      BY <1>7, <2>1, <2>4
    <3>2. age[s] <= MaxAge /\ bar.high < ts
      <4>1. age[s] \in Nat /\ MaxAge \in Nat
        BY BacktestAssumption DEF BacktestTypeOK
      <4> QED
        BY <1>4, <1>9, <1>15, <2>4, <4>1 DEF Overstayed
    <3> QED
      BY <1>8, <2>2, <3>1, <3>2 DEF ts, t, pos, bar, p0
  <2> QED
    BY <2>3, <2>4
<1> QED
  BY <1>13, <1>14, <1>15
-----------------------------------------------------------------------------
(* One step of the invariant after the other                                *)

(* What hangs on the positions, when none is opened.                        *)
LEMMA Forgotten ==
  ASSUME BacktestTypeOK, NEW tr \in [Symbols -> Trails],
         \A u \in Symbols : IsOpen(book', u) => IsOpen(book, u),
         trail' = Forget(book', tr), age' = ForgetAge(book', age), bars' = bars
  PROVE  /\ trail' \in [Symbols -> [risk: Int, moved: BOOLEAN]] /\ age' \in [Symbols -> Nat]
         /\ Untrailed'
         /\ \A u \in Symbols : Young(u) => Young(u)'
         /\ \A u \in Symbols : IsOpen(book', u) => trail'[u] = tr[u]
<1>1. \A u \in Symbols : /\ trail'[u] = IF IsOpen(book', u) THEN tr[u] ELSE NoTrail
                         /\ age'[u] = IF IsOpen(book', u) THEN age[u] ELSE 0
  BY DEF Forget, ForgetAge
<1>2. NoTrail \in [risk: Int, moved: BOOLEAN]
  BY DEF NoTrail
<1>3. trail' \in [Symbols -> [risk: Int, moved: BOOLEAN]]
  BY <1>2 DEF Forget, Trails
<1>4. age' \in [Symbols -> Nat]
  BY DEF ForgetAge, BacktestTypeOK
<1>5. Untrailed'
  BY <1>1 DEF Untrailed
<1>6. \A u \in Symbols : Young(u) => Young(u)'
  BY <1>1 DEF Young
<1> QED
  BY <1>1, <1>3, <1>4, <1>5, <1>6

(* A position that no exit closed is open, at the price it was looked at.   *)
LEMMA KeptOpen ==
  ASSUME NEW b, Sound(b), NEW c, NEW s \in Symbols, NEW px \in Nat \ {0}, Kept(b, c, s, px)
  PROVE  /\ Open(c.longs[s]) <=> Open(b.longs[s])
         /\ Open(c.shorts[s]) <=> Open(b.shorts[s])
         /\ Open(b.longs[s]) => c.longs[s].last = px /\ c.longs[s].stop = b.longs[s].stop
         /\ Open(b.shorts[s]) => c.shorts[s].last = px /\ c.shorts[s].stop = b.shorts[s].stop
<1>1. b.longs[s] \in Position /\ b.shorts[s] \in Position
  BY BookFields
<1> QED
  BY <1>1, AtPriceIs DEF Kept

(* A price for the account: nothing is opened, and what stays open is       *)
(* marked at a price that is not beyond its stop.                           *)
LEMMA PriceEffect ==
  ASSUME Sound(book), NEW s \in Symbols, NEW px \in Nat \ {0}, book' = Marked(book, s, px)
  PROVE  /\ Sound(book') /\ OnlyAt(book, book', s)
         /\ \A u \in Symbols : IsOpen(book', u) => IsOpen(book, u)
         /\ Open(book'.longs[s]) =>
              /\ Open(book.longs[s])
              /\ book'.longs[s].last = px /\ px > book'.longs[s].stop
              /\ book'.longs[s].stop = book.longs[s].stop
         /\ Open(book'.shorts[s]) =>
              /\ Open(book.shorts[s])
              /\ book'.shorts[s].last = px /\ px < book'.shorts[s].stop
              /\ book'.shorts[s].stop = book.shorts[s].stop
<1>1. Kept(book, book', s, px) \/ LongHit(book, book', s, px) \/ ShortHit(book, book', s, px)
  BY MarkedEffect
<1>2. CASE Kept(book, book', s, px)
  <2>1. Sound(book') /\ OnlyAt(book, book', s)
    BY <1>2 DEF Kept
  <2>2. /\ Open(book'.longs[s]) <=> Open(book.longs[s])
        /\ Open(book'.shorts[s]) <=> Open(book.shorts[s])
        /\ Open(book.longs[s]) => /\ book'.longs[s].last = px
                                  /\ book'.longs[s].stop = book.longs[s].stop
        /\ Open(book.shorts[s]) => /\ book'.shorts[s].last = px
                                   /\ book'.shorts[s].stop = book.shorts[s].stop
    BY <1>2, KeptOpen
  <2>3. /\ Open(book.longs[s]) => px > book.longs[s].stop
        /\ Open(book.shorts[s]) => px < book.shorts[s].stop
    BY <1>2 DEF Kept
  <2> QED
    BY <2>1, <2>2, <2>3 DEF OnlyAt, IsOpen
<1>3. CASE LongHit(book, book', s, px) \/ ShortHit(book, book', s, px)
  <2>1. /\ Sound(book') /\ OnlyAt(book, book', s)
        /\ book'.longs[s] = Flat /\ book'.shorts[s] = Flat
    BY <1>3 DEF LongHit, ShortHit, LongOut, ShortOut
  <2> QED
    BY <2>1, FlatIsClosed DEF OnlyAt, IsOpen
<1> QED
  BY <1>1, <1>2, <1>3

(* The day's exits of one position.                                         *)
LEMMA ExitsBooks ==
  ASSUME NEW s, ExitsOf(s), NEW isShort, isShort = Open(book.shorts[s])
  PROVE  LET pos == PositionOf(book, s)
             t   == Risked(pos, trail[s])
         IN  /\ IsOpen(book, s) /\ bars[s] # NoBar
             /\ trail' = Forget(book', [trail EXCEPT ![s] =
                           [risk |-> t.risk, moved |-> AtBreakeven(pos, t, isShort)]])
             /\ age' = ForgetAge(book', age)
  BY DEF ExitsOf

(* Its position is closed, or stays as it was but for its stop.             *)
LEMMA ExitsEffect ==
  ASSUME BacktestTypeOK, NEW s \in Symbols, ExitsOf(s), bars' = bars
  PROVE  /\ Sound(book') /\ OnlyAt(book, book', s)
         /\ latestPrices' \in [Symbols -> Nat \ {0}]
         /\ \A u \in Symbols : IsOpen(book', u) => IsOpen(book, u)
         /\ trail' \in [Symbols -> [risk: Int, moved: BOOLEAN]] /\ age' \in [Symbols -> Nat]
         /\ Untrailed'
         /\ \A u \in Symbols : Young(u) => Young(u)'
         /\ Young(s)'
<1> DEFINE pos == PositionOf(book, s)
           isShort == Open(book.shorts[s])
           t == Risked(pos, trail[s])
           hung == [risk |-> t.risk, moved |-> AtBreakeven(pos, t, isShort)]
           tr == [trail EXCEPT ![s] = hung]
<1>1. /\ IsOpen(book, s) /\ bars[s] # NoBar
      /\ trail' = Forget(book', tr) /\ age' = ForgetAge(book', age)
  BY ExitsBooks
<1>2. Sound(book)
  BY DEF BacktestTypeOK
<1>3. /\ Sound(book') /\ OnlyAt(book, book', s)
      /\ latestPrices' \in [Symbols -> Nat \ {0}]
      /\ IsOpen(book', s) => age[s] <= MaxAge
  <2>1. CASE Open(book.longs[s])
    <3> DEFINE lt == Risked(book.longs[s], trail[s])
               ts == TrailedStop(book.longs[s], lt, FALSE)
    <3>1. /\ latestPrices' \in [Symbols -> Nat \ {0}]
          /\ \/ \E p \in Nat : /\ p >= ts /\ (bars[s].low <= ts => p = ts)
                               /\ LongOut(book, book', s, p)
             \/ /\ Sound(book') /\ OnlyAt(book, book', s)
                /\ book'.longs[s] = WithStop(book.longs[s], ts) /\ book'.shorts[s] = Flat
                /\ book'.realized = book.realized
                /\ bars[s].low > ts /\ age[s] <= MaxAge
      BY <2>1, ExitsOfLong
    <3> HIDE DEF ts
    <3> QED
      BY <3>1, FlatIsClosed DEF LongOut, IsOpen
  <2>2. CASE Open(book.shorts[s])
    <3> DEFINE st == Risked(book.shorts[s], trail[s])
               ts == TrailedStop(book.shorts[s], st, TRUE)
    <3>1. /\ latestPrices' \in [Symbols -> Nat \ {0}]
          /\ \/ \E p \in Nat : /\ p <= ts /\ (bars[s].high >= ts => p = ts)
                               /\ ShortOut(book, book', s, p)
             \/ /\ Sound(book') /\ OnlyAt(book, book', s)
                /\ book'.shorts[s] = WithStop(book.shorts[s], ts) /\ book'.longs[s] = Flat
                /\ book'.realized = book.realized
                /\ bars[s].high < ts /\ age[s] <= MaxAge
      BY <2>2, ExitsOfShort
    <3> HIDE DEF ts
    <3> QED
      BY <3>1, FlatIsClosed DEF ShortOut, IsOpen
  <2> QED
    BY <1>1, <2>1, <2>2 DEF IsOpen
<1>4. \A u \in Symbols : IsOpen(book', u) => IsOpen(book, u)
  BY <1>1, <1>3 DEF OnlyAt, IsOpen
<1>5. pos \in Position /\ Open(pos) /\ trail \in [Symbols -> Trails]
  BY <1>1, <1>2, BookFields DEF PositionOf, IsOpen, BacktestTypeOK, Trails
<1>6. t.risk \in Int /\ t.moved \in BOOLEAN
  <2> HIDE DEF pos
  <2> QED
    BY <1>5, RiskedType DEF Trails
<1>7. AtBreakeven(pos, t, isShort) \in BOOLEAN
  BY DEF AtBreakeven
<1> HIDE DEF pos, t, isShort
<1>8. hung \in Trails
  BY <1>6, <1>7 DEF Trails
<1> HIDE DEF hung
<1>9. tr \in [Symbols -> Trails]
  BY <1>5, <1>8
<1> HIDE DEF tr
<1>10. /\ trail' \in [Symbols -> [risk: Int, moved: BOOLEAN]] /\ age' \in [Symbols -> Nat]
       /\ Untrailed'
       /\ \A u \in Symbols : Young(u) => Young(u)'
  BY <1>1, <1>4, <1>9, Forgotten
<1>11. Young(s)'
  <2>1. IsOpen(book', s) => age'[s] = age[s]
    BY <1>1 DEF ForgetAge
  <2> QED
    BY <1>3, <2>1 DEF Young
<1> QED
  BY <1>3, <1>4, <1>10, <1>11

(* The steps without an order.                                              *)
LEMMA StartDayKeeps ==
  ASSUME BacktestInv, StartDay
  PROVE  BacktestInv'
<1> USE DEF BacktestInv
<1>1. /\ pc' = "exits" /\ cursor' = 1 /\ book' = book /\ latestPrices' = latestPrices
      /\ trail' = trail /\ bars' \in [Symbols -> Bars]
  BY DEF StartDay, ledger
<1>2. \A s \in Symbols :
         age'[s] = IF IsOpen(book, s) /\ bars'[s] # NoBar THEN age[s] + 1 ELSE age[s]
  BY DEF StartDay
<1>3. age' \in [Symbols -> Nat]
  BY DEF StartDay, BacktestTypeOK
<1>4. Sound(book')
  BY <1>1 DEF BacktestTypeOK
<1>5. BacktestTypeOK'
  BY <1>1, <1>3, <1>4 DEF BacktestTypeOK, Steps
<1>6. OrderIsSound'
  BY <1>1 DEF OrderIsSound
<1>7. Untrailed'
  BY <1>1, <1>2 DEF Untrailed
<1>8. Aged' /\ Settled'
  BY <1>1 DEF Aged, Settled
<1> QED
  BY <1>5, <1>6, <1>7, <1>8

(* The universe lists all symbols.                                          *)
LEMMA UniverseIs ==
  /\ Len(Universe) \in Nat /\ DOMAIN Universe = 1..Len(Universe)
  /\ \A i \in 1..Len(Universe) : Universe[i] \in Symbols
  /\ \A s \in Symbols : \E i \in 1..Len(Universe) : s = Universe[i]
BY BacktestAssumption

(* The exits of the day keep the invariant.                                 *)
LEMMA IntradayExitsKeeps ==
  ASSUME BacktestInv, IntradayExits
  PROVE  BacktestInv'
<1> USE DEF BacktestInv
<1>1. /\ pc = "exits" /\ pc' = "exits" /\ cursor \in 1..Len(Universe) /\ cursor' = cursor + 1
      /\ bars' = bars /\ pending' = pending /\ day' = day /\ context' = context
      /\ recorded' = recorded
  BY UniverseIs DEF IntradayExits, today, BacktestTypeOK
<1>2. PICK s \in Symbols : s = Universe[cursor]
  BY <1>1, UniverseIs
<1>3. /\ Sound(book') /\ latestPrices' \in [Symbols -> Nat \ {0}]
      /\ trail' \in [Symbols -> [risk: Int, moved: BOOLEAN]] /\ age' \in [Symbols -> Nat]
      /\ Untrailed' /\ Young(s)'
      /\ \A u \in Symbols : Young(u) => Young(u)'
  <2>1. CASE ExitsOf(s)
    BY <1>1, <2>1, ExitsEffect
  <2>2. CASE /\ ~IsOpen(book, s) \/ bars[s] = NoBar
             /\ UNCHANGED <<ledger, trail, age>>
    <3>1. book' = book /\ latestPrices' = latestPrices /\ trail' = trail /\ age' = age
      BY <2>2 DEF ledger
    <3>2. Untrailed' /\ Young(s)' /\ \A u \in Symbols : Young(u) => Young(u)'
      BY <1>1, <2>2, <3>1 DEF Untrailed, Young
    <3>3. Sound(book')
      BY <3>1 DEF BacktestTypeOK
    <3> QED
      BY <3>1, <3>2, <3>3 DEF BacktestTypeOK
  <2> QED
    BY <1>2, <2>1, <2>2 DEF IntradayExits
<1>4. BacktestTypeOK'
  BY <1>1, <1>3 DEF BacktestTypeOK
<1>5. OrderIsSound'
  BY <1>1 DEF OrderIsSound
<1>6. Aged'
  <2>1. ASSUME NEW i \in 1..Len(Universe), i < cursor + 1
        PROVE  Young(Universe[i])'
    <3>1. CASE i < cursor
      BY <1>1, <1>3, <3>1, UniverseIs DEF Aged
    <3>2. CASE ~(i < cursor)
      <4>1. i = cursor
        BY <1>1, <2>1, <3>2
      <4> QED
        BY <1>2, <1>3, <4>1
    <3> QED
      BY <3>1, <3>2
  <2> QED
    BY <1>1, <2>1 DEF Aged
<1>7. Settled'
  BY <1>1 DEF Settled
<1> QED
  BY <1>3, <1>4, <1>5, <1>6, <1>7

(* So does classifying the regime.                                          *)
LEMMA ClassifyKeeps ==
  ASSUME BacktestInv, Classify
  PROVE  BacktestInv'
<1> USE DEF BacktestInv
<1>1. /\ pc = "exits" /\ cursor > Len(Universe) /\ cursor' = 1
      /\ book' = book /\ latestPrices' = latestPrices /\ trail' = trail /\ age' = age
      /\ bars' = bars /\ context' = context
      /\ \/ context.regime = "UNKNOWN" /\ pc' = "day"
         \/ context.regime # "UNKNOWN" /\ pc' = "signals"
  BY DEF Classify, ledger, today
<1>2. Sound(book')
  BY <1>1 DEF BacktestTypeOK
<1>3. BacktestTypeOK'
  BY <1>1, <1>2 DEF BacktestTypeOK, Steps
<1>4. OrderIsSound' /\ Settled'
  BY <1>1 DEF OrderIsSound, Settled
<1>5. Untrailed'
  BY <1>1 DEF Untrailed
<1>6. \A s \in Symbols : Young(s)
  <2> TAKE s \in Symbols
  <2>1. PICK i \in 1..Len(Universe) : s = Universe[i]
    BY UniverseIs
  <2>2. i < cursor
    BY <1>1, UniverseIs DEF BacktestTypeOK
  <2> QED
    BY <1>1, <2>1, <2>2 DEF Aged
<1>7. Aged'
  BY <1>1, <1>6 DEF Aged, Young
<1> QED
  BY <1>3, <1>4, <1>5, <1>7

(* So does the end of the signals.                                          *)
LEMMA NoMoreSignalsKeeps ==
  ASSUME BacktestInv, NoMoreSignals
  PROVE  BacktestInv'
<1> USE DEF BacktestInv
<1>1. /\ pc = "signals" /\ pc' = "close" /\ cursor' = 1
      /\ book' = book /\ latestPrices' = latestPrices /\ trail' = trail /\ age' = age
      /\ bars' = bars
  BY DEF NoMoreSignals, ledger, today
<1>2. Sound(book')
  BY <1>1 DEF BacktestTypeOK
<1>3. BacktestTypeOK'
  BY <1>1, <1>2 DEF BacktestTypeOK, Steps
<1>4. OrderIsSound' /\ Untrailed' /\ Settled'
  BY <1>1 DEF OrderIsSound, Untrailed, Settled
<1>5. Aged'
  BY <1>1 DEF Aged, Young
<1> QED
  BY <1>3, <1>4, <1>5

(* So does the end of the day.                                              *)
LEMMA EndDayKeeps ==
  ASSUME BacktestInv, EndDay
  PROVE  BacktestInv'
<1> USE DEF BacktestInv
<1>1. /\ pc = "close" /\ pc' = "day" /\ cursor > Len(Universe) /\ cursor' = 1
      /\ recorded' = Equity(book)
      /\ book' = book /\ latestPrices' = latestPrices /\ trail' = trail /\ age' = age
      /\ bars' = bars
  BY DEF EndDay, ledger, today
<1>2. Sound(book')
  BY <1>1 DEF BacktestTypeOK
<1>3. BacktestTypeOK'
  BY <1>1, <1>2 DEF BacktestTypeOK, Steps
<1>4. OrderIsSound' /\ Untrailed' /\ Aged'
  BY <1>1 DEF OrderIsSound, Untrailed, Aged
<1>5. \A s \in Symbols : AtClose(s)
  <2> TAKE s \in Symbols
  <2>1. PICK i \in 1..Len(Universe) : s = Universe[i]
    BY UniverseIs
  <2>2. i < cursor
    BY <1>1, UniverseIs DEF BacktestTypeOK
  <2> QED
    BY <1>1, <2>1, <2>2 DEF Settled
<1>6. Settled'
  <2>1. Equity(book)' = Equity(book)
    BY <1>1 DEF Equity
  <2>2. \A s \in Symbols : AtClose(s)'
    BY <1>1, <1>5 DEF AtClose
  <2> QED
    BY <1>1, <2>1, <2>2 DEF Settled
<1> QED
  BY <1>3, <1>4, <1>6

(* So does the mark at the close.                                           *)
LEMMA MarkCloseKeeps ==
  ASSUME BacktestInv, MarkClose
  PROVE  BacktestInv'
<1> USE DEF BacktestInv
<1>1. PICK s \in Symbols : s = Universe[cursor]
  BY UniverseIs DEF MarkClose, BacktestTypeOK
<1>2. /\ pc = "close" /\ pc' = "close" /\ cursor \in 1..Len(Universe) /\ cursor' = cursor + 1
      /\ bars' = bars /\ book' = IF bars[s] = NoBar THEN book ELSE Marked(book, s, bars[s].close)
      /\ latestPrices' = IF bars[s] = NoBar THEN latestPrices
                         ELSE [latestPrices EXCEPT ![s] = bars[s].close]
      /\ trail' = Forget(book', trail) /\ age' = ForgetAge(book', age)
  BY <1>1, UniverseIs DEF MarkClose, today, BacktestTypeOK
<1>3. bars[s] # NoBar => bars[s].close \in Nat \ {0}
  BY BarPrices DEF BacktestTypeOK
<1>4. /\ Sound(book') /\ OnlyAt(book, book', s)
      /\ \A u \in Symbols : IsOpen(book', u) => IsOpen(book, u)
      /\ bars[s] # NoBar =>
           /\ Open(book'.longs[s]) => book'.longs[s].last = bars[s].close
           /\ Open(book'.shorts[s]) => book'.shorts[s].last = bars[s].close
      /\ latestPrices' \in [Symbols -> Nat \ {0}]
  <2>1. CASE bars[s] = NoBar
    BY <1>2, <2>1 DEF BacktestTypeOK, OnlyAt
  <2>2. CASE bars[s] # NoBar
    <3>1. Sound(book) /\ book' = Marked(book, s, bars[s].close)
      BY <1>2, <2>2 DEF BacktestTypeOK
    <3>2. /\ Sound(book') /\ OnlyAt(book, book', s)
          /\ \A u \in Symbols : IsOpen(book', u) => IsOpen(book, u)
          /\ Open(book'.longs[s]) => book'.longs[s].last = bars[s].close
          /\ Open(book'.shorts[s]) => book'.shorts[s].last = bars[s].close
      BY <1>3, <2>2, <3>1, PriceEffect
    <3>3. latestPrices' \in [Symbols -> Nat \ {0}]
      BY <1>2, <1>3, <2>2 DEF BacktestTypeOK
    <3> QED
      BY <3>2, <3>3
  <2> QED
    BY <2>1, <2>2
<1>5. /\ trail' \in [Symbols -> [risk: Int, moved: BOOLEAN]] /\ age' \in [Symbols -> Nat]
      /\ Untrailed'
      /\ \A u \in Symbols : Young(u) => Young(u)'
  <2>1. trail \in [Symbols -> Trails]
    BY DEF BacktestTypeOK, Trails
  <2> QED
    BY <1>2, <1>4, <2>1, Forgotten
<1>6. BacktestTypeOK'
  BY <1>2, <1>4, <1>5 DEF BacktestTypeOK
<1>7. OrderIsSound'
  BY <1>2 DEF OrderIsSound
<1>8. Aged'
  BY <1>2, <1>5 DEF Aged
<1>9. Settled'
  <2>1. AtClose(s)'
    BY <1>2, <1>4 DEF AtClose
  <2>2. \A u \in Symbols \ {s} : AtClose(u) => AtClose(u)'
    BY <1>2, <1>4 DEF AtClose, OnlyAt
  <2>3. ASSUME NEW i \in 1..Len(Universe), i < cursor + 1
        PROVE  AtClose(Universe[i])'
    <3>1. CASE i < cursor
      <4>1. AtClose(Universe[i]) /\ Universe[i] \in Symbols
        BY <1>2, <3>1, UniverseIs DEF Settled
      <4> QED
        BY <2>1, <2>2, <4>1
    <3>2. CASE ~(i < cursor)
      <4>1. i = cursor
        BY <1>2, <2>3, <3>2
      <4> QED
        BY <1>1, <2>1, <4>1
    <3> QED
      BY <3>1, <3>2
  <2> QED
    BY <1>2, <2>3 DEF Settled
<1> QED
  BY <1>5, <1>6, <1>7, <1>8, <1>9

(* The broker hears today's open before the order.                          *)
LEMMA PriceOrderKeeps ==
  ASSUME BacktestInv, PriceOrder
  PROVE  BacktestInv'
<1> USE DEF BacktestInv
<1> DEFINE s == pending.symbol
           open == bars[s].open
<1>1. /\ pc = "price" /\ pc' = "place" /\ bars' = bars /\ pending' = pending /\ cursor' = cursor
      /\ book' = Marked(book, s, open)
      /\ latestPrices' = [latestPrices EXCEPT ![s] = open]
      /\ trail' = Forget(book', trail) /\ age' = ForgetAge(book', age)
  BY DEF PriceOrder, today
<1>2. s \in Symbols /\ bars[s] # NoBar
  BY <1>1 DEF OrderIsSound
<1>3. open \in Nat \ {0}
  BY <1>2, BarPrices DEF BacktestTypeOK
<1>4. /\ Sound(book')
      /\ \A u \in Symbols : IsOpen(book', u) => IsOpen(book, u)
      /\ Open(book'.longs[s]) => open > book'.longs[s].stop
      /\ Open(book'.shorts[s]) => open < book'.shorts[s].stop
  <2>1. Sound(book)
    BY DEF BacktestTypeOK
  <2> HIDE DEF s, open
  <2> QED
    BY <1>1, <1>2, <1>3, <2>1, PriceEffect
<1>5. /\ trail' \in [Symbols -> [risk: Int, moved: BOOLEAN]] /\ age' \in [Symbols -> Nat]
      /\ Untrailed'
      /\ \A u \in Symbols : Young(u) => Young(u)'
  <2>1. trail \in [Symbols -> Trails]
    BY DEF BacktestTypeOK, Trails
  <2> QED
    BY <1>1, <1>4, <2>1, Forgotten
<1>6. latestPrices' \in [Symbols -> Nat \ {0}] /\ latestPrices'[s] = open
  BY <1>1, <1>2, <1>3 DEF BacktestTypeOK
<1>7. BacktestTypeOK'
  BY <1>1, <1>4, <1>5, <1>6 DEF BacktestTypeOK, Steps
<1>8. OrderIsSound'
  BY <1>1, <1>4, <1>6 DEF OrderIsSound
<1>9. Aged' /\ Settled'
  BY <1>1, <1>5 DEF Aged, Settled
<1> QED
  BY <1>5, <1>7, <1>8, <1>9
-----------------------------------------------------------------------------
(* Sums and sizes                                                           *)

(* The equity is the cash and two sums over the symbols.                    *)
LEMMA EquityIs ==
  ASSUME NEW b, Sound(b)
  PROVE  LET f == [s \in Symbols |-> b.longs[s].qty * b.longs[s].last]
             g == [s \in Symbols |-> b.shorts[s].cost - b.shorts[s].qty * b.shorts[s].last]
         IN  /\ Equity(b) \in Int /\ b.cash \in Int
             /\ Equity(b) = b.cash + SumFunctionOnSet(f, Symbols) + SumFunctionOnSet(g, Symbols)
             /\ \A s \in Symbols : f[s] \in Int /\ g[s] \in Int
             /\ SumFunctionOnSet(f, Symbols) \in Int /\ SumFunctionOnSet(g, Symbols) \in Int
<1> DEFINE f == [s \in Symbols |-> b.longs[s].qty * b.longs[s].last]
           g == [s \in Symbols |-> b.shorts[s].cost - b.shorts[s].qty * b.shorts[s].last]
<1>1. \A s \in Symbols : b.longs[s] \in Position /\ b.shorts[s] \in Position
  BY BookFields
<1>2. \A p \in Position : p.qty \in Int /\ p.last \in Int /\ p.cost \in Int
  BY DEF Position
<1>3. \A x, y \in Int : x * y \in Int
  OBVIOUS
<1>4. \A s \in Symbols : f[s] \in Int /\ g[s] \in Int
  BY <1>1, <1>2, <1>3
<1>5. DOMAIN f = Symbols /\ DOMAIN g = Symbols /\ IsFiniteSet(Symbols) /\ b.cash \in Int
  BY BacktestAssumption, BookFields
<1>6. Equity(b) = b.cash + SumFunctionOnSet(f, Symbols) + SumFunctionOnSet(g, Symbols)
  BY <1>5 DEF Equity, SumFunction
<1> HIDE DEF f, g
<1>7. SumFunctionOnSet(f, Symbols) \in Int /\ SumFunctionOnSet(g, Symbols) \in Int
  BY <1>4, <1>5, SumOfElements
<1> QED
  BY <1>4, <1>5, <1>6, <1>7 DEF f, g

(* What is ordered is at most what fits in both budgets; and one share more *)
(* does not fit in one of them.                                             *)
Fits(n, equity, signal) ==
  /\ n * (100 * RiskPerShare(signal)) <= equity * Risk.per_trade_risk_pct
  /\ n * (100 * signal.entry) <= equity * Risk.max_position_pct

(* A quotient rounded down is the last that fits.                           *)
LEMMA FloorOf ==
  ASSUME NEW budget \in Int, NEW unit \in Int, unit > 0
  PROVE  /\ budget \div unit \in Int
         /\ (budget \div unit) * unit <= budget
         /\ (budget \div unit + 1) * unit > budget
  BY Z3

(* One share more than was sized does not fit.                              *)
LEMMA SizeFills ==
  ASSUME NEW equity \in Int, NEW signal, signal.entry \in Nat \ {0}, signal.stop \in Int
  PROVE  LET q == PositionSize(equity, signal)
         IN  /\ q \in Nat
             /\ q > 0 => RiskPerShare(signal) \in Nat \ {0} /\ ~Fits(q + 1, equity, signal)
<1> DEFINE risk == RiskPerShare(signal)
           budget == equity * Risk.per_trade_risk_pct
           cap == equity * Risk.max_position_pct
           byRisk == budget \div (100 * risk)
           bySize == cap \div (100 * signal.entry)
           q == PositionSize(equity, signal)
<1>1. risk \in Nat
  BY DEF RiskPerShare
<1>2. budget \in Int /\ cap \in Int
  <2>1. Risk.per_trade_risk_pct \in Nat /\ Risk.max_position_pct \in Nat
    BY BacktestAssumption
  <2>2. \A x, y \in Int : x * y \in Int
    OBVIOUS
  <2> QED
    BY <2>1, <2>2
<1>3. q = IF risk <= 0 THEN 0 ELSE AtLeastZero(IF byRisk < bySize THEN byRisk ELSE bySize)
  BY DEF PositionSize
<1>4. CASE risk <= 0
  BY <1>3, <1>4
<1>5. CASE ~(risk <= 0)
  <2>1. risk \in Nat \ {0}
    BY <1>1, <1>5
  <2> HIDE DEF risk, budget, cap
  <2>2. 100 * risk \in Int /\ 100 * risk > 0 /\ 100 * signal.entry \in Int /\ 100 * signal.entry > 0
    BY <2>1
  <2>3. byRisk \in Int /\ (byRisk + 1) * (100 * risk) > budget
    BY <1>2, <2>2, FloorOf
  <2>4. bySize \in Int /\ (bySize + 1) * (100 * signal.entry) > cap
    BY <1>2, <2>2, FloorOf
  <2> HIDE DEF byRisk, bySize, q
  <2>5. q \in Nat /\ (q > 0 => q = byRisk \/ q = bySize)
    BY <1>3, <1>5, <2>3, <2>4 DEF AtLeastZero
  <2>6. q > 0 => ~((q + 1) * (100 * risk) <= budget /\ (q + 1) * (100 * signal.entry) <= cap)
    <3>1. CASE q = byRisk
      <4>1. (q + 1) * (100 * risk) > budget
        BY <2>3, <3>1
      <4>2. (q + 1) * (100 * risk) \in Int
        BY <2>1, <2>5
      <4> QED
        BY <1>2, <4>1, <4>2
    <3>2. CASE q = bySize
      <4>1. (q + 1) * (100 * signal.entry) > cap
        BY <2>4, <3>2
      <4>2. (q + 1) * (100 * signal.entry) \in Int
        BY <2>5
      <4> QED
        BY <1>2, <4>1, <4>2
    <3> QED
      BY <2>5, <3>1, <3>2
  <2> QED
    BY <2>1, <2>5, <2>6 DEF Fits, risk, budget, cap, q
<1> QED
  BY <1>4, <1>5

(* Half as much again of what fills a budget to the last share exceeds it,  *)
(* unless it is a matter of rounding.                                       *)
LEMMA BoostIsTooMuch ==
  ASSUME NEW budget \in Int, NEW unit \in Nat \ {0}, NEW q \in Nat,
         (q + 1) * (100 * unit) > budget, ((3 * q) \div 2) * unit * 100000 <= budget * 1001
  PROVE  (3 * q) \div 2 < 6
<1> DEFINE boosted == (3 * q) \div 2
<1>1. boosted \in Nat /\ 2 * boosted >= 3 * q - 1 /\ 2 * boosted <= 3 * q
  OBVIOUS
<1> HIDE DEF boosted
<1>2. boosted * unit * 100000 < (q + 1) * (100 * unit) * 1001
  <2> DEFINE x == boosted * unit * 100000
             y == (q + 1) * (100 * unit)
  <2>1. x \in Int /\ y \in Int
    BY <1>1
  <2>2. x <= budget * 1001 /\ y > budget
    BY DEF boosted
  <2> HIDE DEF x, y
  <2>3. x < y * 1001
    BY <2>1, <2>2
  <2> QED
    BY <2>3 DEF x, y
<1>3. (boosted * 1000) * unit < ((q + 1) * 1001) * unit
  BY <1>1, <1>2, Z3
<1>4. boosted * 1000 < (q + 1) * 1001
  <2>1. ASSUME NEW a \in Int, NEW b \in Int, a * unit < b * unit
        PROVE  a < b
    BY <2>1, Z3
  <2>2. boosted * 1000 \in Int /\ (q + 1) * 1001 \in Int
    BY <1>1
  <2> QED
    BY <1>3, <2>1, <2>2
<1>5. boosted < 6
  BY <1>1, <1>4
<1> QED
  BY <1>5 DEF boosted

(* The signals go through the symbols of the universe.                      *)
LEMMA SymbolAtIs ==
  ASSUME NEW i \in Nat \ {0}, i <= Len(Universe) * NStrategies
  PROVE  SymbolAt(i) \in Symbols
<1>1. Len(Universe) \in Nat /\ NStrategies \in Nat
  BY BacktestAssumption
<1>2. ASSUME NEW n \in Nat, NEW k \in Nat, i <= n * k
      PROVE  (i - 1) \div k \in 0..(n - 1)
  <2>1. k > 0
    BY <1>2, Z3
  <2>2. (i - 1) \div k \in Nat
    BY <2>1, Z3
  <2>3. (i - 1) \div k < n
    BY <1>2, <2>1, Z3
  <2> QED
    BY <2>2, <2>3
<1>3. (i - 1) \div NStrategies \in 0..(Len(Universe) - 1)
  BY <1>1, <1>2
<1>4. (i - 1) \div NStrategies + 1 \in 1..Len(Universe)
  BY <1>1, <1>3
<1> QED
  BY <1>4, UniverseIs DEF SymbolAt

(* What the guardrails let through.                                         *)
LEMMA AllowedIs ==
  ASSUME NEW signal, NEW qty, CheckGuardrails(signal, qty)
  PROVE  /\ ~(qty <= 0) /\ ~(signal.stop <= 0)
         /\ ~(signal.side = "BUY" /\ signal.stop >= signal.entry)
         /\ ~(signal.side = "SELL" /\ signal.stop <= signal.entry)
         /\ ~(qty * RiskPerShare(signal) * 100000
                > Equity(book) * Risk.per_trade_risk_pct * 1001)
         /\ ~(qty * signal.entry * 100000 > Equity(book) * Risk.max_position_pct * 1001)
<1> DEFINE portfolio == EnginePortfolio
           market == EngineMarket(signal.symbol)
<1>1. portfolio.equity = Equity(book)
  BY DEF EnginePortfolio
<1>2. Allowed(signal, qty, portfolio, market)
  BY DEF CheckGuardrails
<1> HIDE DEF portfolio, market
<1>3. /\ ~QtyNotPositive(qty) /\ ~NoStopLoss(signal)
      /\ ~TooMuchRisk(signal, qty, portfolio) /\ ~TooLarge(signal, qty, portfolio)
  BY <1>2 DEF Allowed
<1> QED
  BY <1>1, <1>3 DEF QtyNotPositive, NoStopLoss, TooMuchRisk, TooLarge

(* A boosted size that passes the guardrails is below six.                  *)
LEMMA OrderSize ==
  ASSUME Sound(book), NEW signal, signal.entry \in Nat \ {0}, signal.stop \in Int
  PROVE  /\ SizedQty(signal) \in Nat
         /\ CheckGuardrails(signal, SizedQty(signal)) /\ Boosted => SizedQty(signal) < 6
<1> DEFINE equity == Equity(book)
           q == PositionSize(equity, signal)
           risk == RiskPerShare(signal)
           budget == equity * Risk.per_trade_risk_pct
           cap == equity * Risk.max_position_pct
<1>1. equity \in Int
  BY EquityIs
<1>2. q \in Nat /\ (q > 0 => risk \in Nat \ {0} /\ ~Fits(q + 1, equity, signal))
  <2> HIDE DEF equity
  <2> QED
    BY <1>1, SizeFills
<1>3. SizedQty(signal) = IF Boosted THEN (3 * q) \div 2 ELSE q
  BY DEF SizedQty
<1>4. budget \in Int /\ cap \in Int
  <2>1. Risk.per_trade_risk_pct \in Nat /\ Risk.max_position_pct \in Nat
    BY BacktestAssumption
  <2>2. \A x, y \in Int : x * y \in Int
    OBVIOUS
  <2> HIDE DEF equity
  <2> QED
    BY <1>1, <2>1, <2>2
<1> HIDE DEF q
<1>5. (3 * q) \div 2 \in Nat
  BY <1>2
<1>6. ASSUME CheckGuardrails(signal, SizedQty(signal)), Boosted
      PROVE  SizedQty(signal) < 6
  <2> DEFINE boosted == (3 * q) \div 2
  <2>1. SizedQty(signal) = boosted
    BY <1>3, <1>6
  <2>2. /\ ~(boosted <= 0)
        /\ ~(boosted * risk * 100000 > budget * 1001)
        /\ ~(boosted * signal.entry * 100000 > cap * 1001)
    BY <1>6, <2>1, AllowedIs
  <2>3. q > 0
    BY <1>2, <2>2
  <2>4. risk \in Nat \ {0}
    BY <1>2, <2>3
  <2>5. ~((q + 1) * (100 * risk) <= budget) \/ ~((q + 1) * (100 * signal.entry) <= cap)
    BY <1>2, <2>3 DEF Fits
  <2> HIDE DEF risk, budget, cap
  <2>6. CASE ~((q + 1) * (100 * risk) <= budget)
    <3>1. (q + 1) * (100 * risk) > budget
      <4>1. (q + 1) * (100 * risk) \in Int
        BY <1>2, <2>4
      <4> QED
        BY <1>4, <2>6, <4>1
    <3>2. boosted * risk * 100000 <= budget * 1001
      <4>1. boosted * risk * 100000 \in Int
        BY <1>5, <2>4
      <4> QED
        BY <1>4, <2>2, <4>1
    <3> QED
      BY <1>2, <1>4, <2>1, <2>4, <3>1, <3>2, BoostIsTooMuch
  <2>7. CASE ~((q + 1) * (100 * signal.entry) <= cap)
    <3>1. (q + 1) * (100 * signal.entry) > cap
      <4>1. (q + 1) * (100 * signal.entry) \in Int
        BY <1>2
      <4> QED
        BY <1>4, <2>7, <4>1
    <3>2. boosted * signal.entry * 100000 <= cap * 1001
      <4>1. boosted * signal.entry * 100000 \in Int
        BY <1>5
      <4> QED
        BY <1>4, <2>2, <4>1
    <3> QED
      BY <1>2, <1>4, <2>1, <3>1, <3>2, BoostIsTooMuch
  <2> QED
    BY <2>5, <2>6, <2>7
<1> QED
  BY <1>2, <1>3, <1>5, <1>6

(* A signal that is taken on is an order that can be filled soundly.        *)
LEMMA EvaluateKeeps ==
  ASSUME BacktestInv, Evaluate
  PROVE  BacktestInv' /\ BoostNeverTrades'
<1> USE DEF BacktestInv
<1>1. /\ pc = "signals" /\ book' = book /\ latestPrices' = latestPrices /\ trail' = trail
      /\ age' = age /\ bars' = bars /\ context' = context
  BY DEF Evaluate, today
<1>2. Sound(book) /\ Sound(book')
  BY <1>1 DEF BacktestTypeOK
<1>3. PICK i \in cursor..(Len(Universe) * NStrategies), x \in Signals :
        LET s      == SymbolAt(i)
            signal == [symbol |-> s, side |-> x.side, stop |-> x.stop, target |-> x.target,
                       breakout |-> x.breakout, entry |-> bars[s].open]
            qty    == SizedQty(signal)
            taken  == /\ ~MarketBlocks(signal) /\ ~AdxBlocks(signal)
                      /\ ~GapBlocks(signal) /\ ~PoorReward(signal)
                      /\ qty # 0
                      /\ CheckGuardrails(signal, qty)
        IN  /\ bars[s] # NoBar
            /\ cursor' = i + 1
            /\ \/ /\ taken
                  /\ pending' = [symbol |-> s, side |-> x.side, qty |-> qty,
                                 stop |-> x.stop, target |-> x.target]
                  /\ pc' = "price"
                  /\ UNCHANGED orders
               \/ /\ ~taken
                  /\ orders' = orders + 1
                  /\ UNCHANGED <<pending, pc>>
  BY Zenon DEF Evaluate
<1> DEFINE s == SymbolAt(i)
           signal == [symbol |-> s, side |-> x.side, stop |-> x.stop, target |-> x.target,
                      breakout |-> x.breakout, entry |-> bars[s].open]
           qty == SizedQty(signal)
<1>4. i \in Nat \ {0} /\ i <= Len(Universe) * NStrategies
  <2>1. Len(Universe) * NStrategies \in Int /\ cursor \in Nat \ {0}
    BY BacktestAssumption DEF BacktestTypeOK
  <2> QED
    BY <2>1
<1>5. s \in Symbols /\ bars[s] # NoBar /\ cursor' = i + 1
  BY <1>3, <1>4, SymbolAtIs
<1>6. /\ x.side \in {"BUY", "SELL"} /\ x.stop \in Int /\ x.target \in Nat
  BY BacktestAssumption
<1>7. /\ signal.side = x.side /\ signal.stop = x.stop /\ signal.target = x.target
      /\ signal.entry = bars[s].open
  OBVIOUS
<1>8. signal.entry \in Nat \ {0}
  BY <1>5, <1>7, BarPrices DEF BacktestTypeOK
<1>9. \/ /\ ~PoorReward(signal) /\ CheckGuardrails(signal, qty) /\ pc' = "price"
         /\ pending' = [symbol |-> s, side |-> x.side, qty |-> qty,
                        stop |-> x.stop, target |-> x.target]
      \/ pc' = pc /\ pending' = pending
  BY <1>3
<1> HIDE DEF s, signal
<1>10. qty \in Nat /\ (CheckGuardrails(signal, qty) /\ Boosted => qty < 6)
  BY <1>2, <1>6, <1>7, <1>8, OrderSize
<1>11. BacktestTypeOK'
  <2>1. cursor' \in Nat \ {0} /\ pc' \in Steps
    BY <1>1, <1>4, <1>5, <1>9 DEF Steps
  <2> QED
    BY <1>1, <1>2, <2>1 DEF BacktestTypeOK
<1>12. Untrailed'
  BY <1>1 DEF Untrailed
<1>13. Aged' /\ Settled'
  BY <1>1, <1>9 DEF Aged, Settled, Young
<1>14. Boosted' = Boosted
  BY <1>1 DEF Boosted, AllowTrend
<1> HIDE DEF qty
<1>15. CASE pc' = pc /\ pending' = pending
  <2>1. OrderIsSound' /\ BoostNeverTrades'
    BY <1>1, <1>15 DEF OrderIsSound, BoostNeverTrades
  <2> QED
    BY <1>11, <1>12, <1>13, <2>1
<1>16. CASE /\ ~PoorReward(signal) /\ CheckGuardrails(signal, qty) /\ pc' = "price"
            /\ pending' = [symbol |-> s, side |-> x.side, qty |-> qty,
                           stop |-> x.stop, target |-> x.target]
  <2>1. /\ pending'.symbol = s /\ pending'.side = x.side /\ pending'.qty = qty
        /\ pending'.stop = x.stop /\ pending'.target = x.target
    BY <1>16
  <2>2. /\ ~(qty <= 0) /\ ~(signal.stop <= 0)
        /\ ~(signal.side = "BUY" /\ signal.stop >= signal.entry)
        /\ ~(signal.side = "SELL" /\ signal.stop <= signal.entry)
    BY <1>16, AllowedIs
  <2>3. /\ qty \in Nat \ {0} /\ x.stop \in Nat \ {0}
        /\ x.side = "BUY" => x.stop < signal.entry
        /\ x.side = "SELL" => x.stop > signal.entry
    BY <1>6, <1>7, <1>8, <1>10, <2>2
  <2>4. /\ x.side = "BUY" /\ x.target # NoTarget => x.target > signal.entry
        /\ x.side = "SELL" /\ x.target # NoTarget => x.target < signal.entry
    <3>1. CASE x.side = "BUY" /\ x.target # NoTarget
      <4>1. ~(5 * (1 * (x.target - signal.entry)) < 6 * (1 * (signal.entry - x.stop)))
        BY <1>6, <1>7, <1>8, <1>16, <2>3, <3>1 DEF PoorReward
      <4> QED
        BY <1>6, <1>8, <2>3, <3>1, <4>1
    <3>2. CASE x.side = "SELL" /\ x.target # NoTarget
      <4>1. ~(5 * (-1 * (x.target - signal.entry)) < 6 * (-1 * (signal.entry - x.stop)))
        BY <1>6, <1>7, <1>8, <1>16, <2>3, <3>2 DEF PoorReward
      <4> QED
        BY <1>6, <1>8, <2>3, <3>2, <4>1
    <3> QED
      BY <3>1, <3>2
  <2>5. OrderIsSound'
    BY <1>1, <1>5, <1>6, <1>7, <1>16, <2>1, <2>3, <2>4 DEF OrderIsSound
  <2>6. BoostNeverTrades'
    BY <1>10, <1>14, <1>16, <2>1 DEF BoostNeverTrades
  <2> QED
    BY <1>11, <1>12, <1>13, <2>5, <2>6
<1> QED
  BY <1>9, <1>15, <1>16

(* An order is filled in one of four ways, or rejected.                     *)
Bought(s, o) ==
  /\ BuyLong(s, o.qty, o.stop, o.target) /\ o.side = "BUY"

Covered(s, o) == BuyToCover(s, o.qty) /\ o.side = "BUY"
SoldShort(s, o) == SellShort(s, o.qty, o.stop, o.target) /\ o.side = "SELL"
SoldLong(s, o) == SellLong(s, o.qty) /\ o.side = "SELL"

(* What an order may do: buy, cover, open or replace a short, sell, or      *)
(* nothing.                                                                 *)
LEMMA PlaceOrderIs ==
  ASSUME BacktestInv, PlaceOrder
  PROVE  LET s == pending.symbol
             o == pending
             replaced == o.side = "SELL" /\ Open(book'.shorts[s]) /\ book' # book
         IN  /\ pc = "place" /\ pc' = "signals" /\ bars' = bars /\ cursor' = cursor
             /\ s \in Symbols /\ latestPrices[s] \in Nat \ {0} /\ latestPrices[s] = bars[s].open
             /\ o.qty \in Nat \ {0} /\ o.stop \in Nat \ {0} /\ o.target \in Nat
             /\ \/ Bought(s, o) \/ Covered(s, o) \/ SoldShort(s, o) \/ SoldLong(s, o)
                \/ book' = book /\ latestPrices' = latestPrices
             /\ trail' = [Forget(book', trail) EXCEPT ![s] = IF replaced THEN NoTrail ELSE @]
             /\ age' = [ForgetAge(book', age) EXCEPT ![s] = IF replaced THEN 0 ELSE @]
             /\ added' = {x \in added : IsOpen(book', x) /\ ~(x = s /\ replaced)}
                           \cup {x \in {s} : /\ book'.longs[x].qty > book.longs[x].qty
                                             /\ Open(book.longs[x])}
<1> USE DEF BacktestInv
<1>1. /\ pc = "place" /\ pc' = "signals" /\ bars' = bars /\ cursor' = cursor
  BY DEF PlaceOrder, today
<1>2. /\ pending.symbol \in Symbols
      /\ latestPrices[pending.symbol] = bars[pending.symbol].open
      /\ pending.qty \in Nat \ {0} /\ pending.stop \in Nat \ {0} /\ pending.target \in Nat
  BY <1>1 DEF OrderIsSound
<1>3. latestPrices[pending.symbol] \in Nat \ {0}
  BY <1>2 DEF BacktestTypeOK
<1>4. \/ Bought(pending.symbol, pending) \/ Covered(pending.symbol, pending)
      \/ SoldShort(pending.symbol, pending) \/ SoldLong(pending.symbol, pending)
      \/ book' = book /\ latestPrices' = latestPrices
  BY DEF PlaceOrder, BrokerFills, Bought, Covered, SoldShort, SoldLong
<1>5. LET s == pending.symbol
          replaced == pending.side = "SELL" /\ Open(book'.shorts[s]) /\ book' # book
      IN  /\ trail' = [Forget(book', trail) EXCEPT ![s] = IF replaced THEN NoTrail ELSE @]
          /\ age' = [ForgetAge(book', age) EXCEPT ![s] = IF replaced THEN 0 ELSE @]
          /\ added' = {x \in added : IsOpen(book', x) /\ ~(x = s /\ replaced)}
                        \cup {x \in {s} : /\ book'.longs[x].qty > book.longs[x].qty
                                          /\ Open(book.longs[x])}
  BY DEF PlaceOrder
<1> QED
  BY <1>1, <1>2, <1>3, <1>4, <1>5

(* What an order does to the account, and to what hangs on the positions.   *)
LEMMA PlaceOrderEffect ==
  ASSUME BacktestInv, PlaceOrder
  PROVE  LET s == pending.symbol
         IN  /\ Sound(book') /\ OnlyAt(book, book', s) /\ latestPrices' = latestPrices
             /\ trail' \in [Symbols -> [risk: Int, moved: BOOLEAN]] /\ age' \in [Symbols -> Nat]
             /\ \A u \in Symbols : ~IsOpen(book', u) => trail'[u] = NoTrail /\ age'[u] = 0
             /\ \A u \in Symbols : IsOpen(book', u) =>
                  \/ trail'[u] = NoTrail /\ age'[u] = 0
                  \/ IsOpen(book, u) /\ trail'[u] = trail[u] /\ age'[u] = age[u]
<1> USE DEF BacktestInv
<1> DEFINE s == pending.symbol
           o == pending
           replaced == o.side = "SELL" /\ Open(book'.shorts[s]) /\ book' # book
<1>1. /\ s \in Symbols /\ latestPrices[s] \in Nat \ {0}
      /\ o.qty \in Nat \ {0} /\ o.stop \in Nat \ {0} /\ o.target \in Nat
      /\ \/ Bought(s, o) \/ Covered(s, o) \/ SoldShort(s, o) \/ SoldLong(s, o)
         \/ book' = book /\ latestPrices' = latestPrices
      /\ trail' = [Forget(book', trail) EXCEPT ![s] = IF replaced THEN NoTrail ELSE @]
      /\ age' = [ForgetAge(book', age) EXCEPT ![s] = IF replaced THEN 0 ELSE @]
  BY PlaceOrderIs
<1>2. Sound(book)
  BY DEF BacktestTypeOK
<1>3. /\ Sound(book') /\ OnlyAt(book, book', s) /\ latestPrices' = latestPrices
  <2>1. CASE Bought(s, o)
    <3> HIDE DEF s, o
    <3> QED
      BY <1>1, <1>2, <2>1, BuyEffect DEF Bought
  <2>2. CASE Covered(s, o)
    <3> HIDE DEF s, o
    <3> QED
      BY <1>1, <1>2, <2>2, CoverEffect DEF Covered
  <2>3. CASE SoldShort(s, o)
    <3> HIDE DEF s, o
    <3> QED
      BY <1>1, <1>2, <2>3, SellShortEffect DEF SoldShort
  <2>4. CASE SoldLong(s, o)
    <3> HIDE DEF s, o
    <3> QED
      BY <1>1, <1>2, <2>4, SellLongEffect DEF SoldLong
  <2>5. CASE book' = book /\ latestPrices' = latestPrices
    BY <1>2, <2>5 DEF OnlyAt
  <2> QED
    BY <1>1, <2>1, <2>2, <2>3, <2>4, <2>5
<1>4. /\ \A u \in Symbols :
           /\ Forget(book', trail)[u] = IF IsOpen(book', u) THEN trail[u] ELSE NoTrail
           /\ ForgetAge(book', age)[u] = IF IsOpen(book', u) THEN age[u] ELSE 0
      /\ Forget(book', trail) \in [Symbols -> Trails] /\ ForgetAge(book', age) \in [Symbols -> Nat]
  BY DEF Forget, ForgetAge, BacktestTypeOK, Trails, NoTrail
<1>5. NoTrail \in Trails
  BY DEF NoTrail, Trails
<1>6. /\ trail' \in [Symbols -> Trails] /\ age' \in [Symbols -> Nat]
  <2> HIDE DEF replaced
  <2> QED
    BY <1>1, <1>4, <1>5
<1>7. \A u \in Symbols :
        /\ trail'[u] = IF u = s /\ replaced THEN NoTrail ELSE Forget(book', trail)[u]
        /\ age'[u] = IF u = s /\ replaced THEN 0 ELSE ForgetAge(book', age)[u]
  <2> HIDE DEF replaced
  <2> QED
    BY <1>1, <1>4
<1> HIDE DEF replaced
<1>8. \A u \in Symbols : ~IsOpen(book', u) => trail'[u] = NoTrail /\ age'[u] = 0
  BY <1>4, <1>7
<1>9. \A u \in Symbols : IsOpen(book', u) =>
        \/ trail'[u] = NoTrail /\ age'[u] = 0
        \/ IsOpen(book, u) /\ trail'[u] = trail[u] /\ age'[u] = age[u]
  BY <1>4, <1>7 DEF Untrailed
<1> QED
  BY <1>3, <1>6, <1>8, <1>9 DEF Trails

(* An order keeps the invariant.                                            *)
LEMMA PlaceOrderKeeps ==
  ASSUME BacktestInv, PlaceOrder
  PROVE  BacktestInv'
<1> USE DEF BacktestInv
<1>1. pc = "place" /\ pc' = "signals" /\ bars' = bars /\ cursor' = cursor
  BY PlaceOrderIs
<1>2. /\ Sound(book') /\ latestPrices' = latestPrices
      /\ trail' \in [Symbols -> [risk: Int, moved: BOOLEAN]] /\ age' \in [Symbols -> Nat]
      /\ \A u \in Symbols : ~IsOpen(book', u) => trail'[u] = NoTrail /\ age'[u] = 0
      /\ \A u \in Symbols : IsOpen(book', u) =>
           \/ trail'[u] = NoTrail /\ age'[u] = 0
           \/ IsOpen(book, u) /\ trail'[u] = trail[u] /\ age'[u] = age[u]
  BY PlaceOrderEffect
<1>3. BacktestTypeOK'
  BY <1>1, <1>2 DEF BacktestTypeOK, Steps
<1>4. OrderIsSound' /\ Settled'
  BY <1>1 DEF OrderIsSound, Settled
<1>5. Untrailed'
  BY <1>2 DEF Untrailed
<1>6. Aged'
  <2>1. MaxAge >= 0
    BY BacktestAssumption
  <2>2. \A u \in Symbols : Young(u)'
    BY <1>1, <1>2, <2>1 DEF Aged, Young
  <2> QED
    BY <1>1, <2>2 DEF Aged
<1> QED
  BY <1>3, <1>4, <1>5, <1>6

(* The invariant holds at first and is kept by every step.                  *)
LEMMA BacktestInvHolds ==
  /\ BacktestInit => BacktestInv
  /\ BacktestInv /\ [BacktestNext]_engineVars => BacktestInv'
<1>1. ASSUME BacktestInit
      PROVE  BacktestInv
  <2>1. /\ book.longs = [s \in Symbols |-> Flat] /\ book.shorts = [s \in Symbols |-> Flat]
        /\ book = [cash |-> InitialCash, realized |-> 0, trades |-> 0,
                   longs |-> [s \in Symbols |-> Flat], shorts |-> [s \in Symbols |-> Flat]]
    BY <1>1 DEF BacktestInit
  <2>2. book \in Book
    BY <2>1, FlatIsClosed, BacktestAssumption DEF Book
  <2>3. \A s \in Symbols : book.longs[s] = Flat /\ book.shorts[s] = Flat
    BY <2>1
  <2>4. Sound(book)
    BY <2>2, <2>3, FlatIsClosed DEF Sound
  <2>5. latestPrices \in [Symbols -> Nat \ {0}]
    <3>1. PICK b \in Bars \ {NoBar} : latestPrices = [s \in Symbols |-> b.close]
      BY <1>1 DEF BacktestInit
    <3>2. b.close \in Nat \ {0}
      BY BarPrices
    <3> QED
      BY <3>1, <3>2
  <2>6. /\ trail = [s \in Symbols |-> NoTrail] /\ age = [s \in Symbols |-> 0]
        /\ pc = "day" /\ day = 0 /\ bars = [s \in Symbols |-> NoBar] /\ cursor = 1
    BY <1>1 DEF BacktestInit
  <2>7. NoTrail \in [risk: Int, moved: BOOLEAN]
    BY DEF NoTrail
  <2>8. BacktestTypeOK
    BY <2>4, <2>5, <2>6, <2>7 DEF BacktestTypeOK, Steps
  <2>9. OrderIsSound /\ Untrailed /\ Aged /\ Settled
    BY <2>6 DEF OrderIsSound, Untrailed, Aged, Settled
  <2> QED
    BY <2>8, <2>9 DEF BacktestInv
<1>2. ASSUME BacktestInv, UNCHANGED engineVars
      PROVE  BacktestInv'
  <2>1. /\ UNCHANGED <<book, latestPrices, trail, age, pc, day, bars, context, cursor, pending,
                       recorded>>
    BY <1>2 DEF engineVars, engine, ledger, today
  <2>2. Sound(book')
    BY <1>2, <2>1 DEF BacktestInv, BacktestTypeOK
  <2>3. BacktestTypeOK'
    BY <1>2, <2>1, <2>2 DEF BacktestInv, BacktestTypeOK
  <2>4. OrderIsSound'
    BY <1>2, <2>1 DEF BacktestInv, OrderIsSound
  <2>5. Untrailed' /\ Aged'
    BY <1>2, <2>1 DEF BacktestInv, Untrailed, Aged, Young
  <2>6. Settled'
    <3>1. Equity(book)' = Equity(book)
      BY <2>1 DEF Equity
    <3> QED
      BY <1>2, <2>1, <3>1 DEF BacktestInv, Settled, AtClose
  <2> QED
    BY <2>3, <2>4, <2>5, <2>6 DEF BacktestInv
<1>3. ASSUME BacktestInv, BacktestNext
      PROVE  BacktestInv'
  BY <1>3, StartDayKeeps, IntradayExitsKeeps, ClassifyKeeps, EvaluateKeeps, PriceOrderKeeps,
     PlaceOrderKeeps, NoMoreSignalsKeeps, MarkCloseKeeps, EndDayKeeps DEF BacktestNext
<1> QED
  BY <1>1, <1>2, <1>3

(* BacktestInv: types, what a position may be, the order on its way, the    *)
(* ages after the exits and the marks after the close.                      *)
THEOREM BacktestInvariant == BacktestSpec => []BacktestInv
  BY BacktestInvHolds, PTL DEF BacktestSpec

-----------------------------------------------------------------------------
(* The properties of a backtest                                             *)

(* However the market stands, what is boosted and still let through is a    *)
(* matter of rounding.                                                      *)
THEOREM BoostsRefused == BacktestSpec => []BoostNeverTrades
<1>1. BacktestInit => BoostNeverTrades
  BY DEF BacktestInit, BoostNeverTrades
<1>2. ASSUME BacktestInv, BoostNeverTrades, [BacktestNext]_engineVars
      PROVE  BoostNeverTrades'
  <2>1. CASE Evaluate
    BY <1>2, <2>1, EvaluateKeeps
  <2>2. CASE StartDay \/ IntradayExits \/ Classify \/ PriceOrder \/ PlaceOrder \/ NoMoreSignals
               \/ MarkClose \/ EndDay
    <3>1. pc' # "price"
      BY <2>2 DEF StartDay, IntradayExits, Classify, PriceOrder, PlaceOrder, NoMoreSignals,
                  MarkClose, EndDay
    <3> QED
      BY <3>1 DEF BoostNeverTrades
  <2>3. CASE UNCHANGED engineVars
    <3>1. UNCHANGED <<pc, context, pending>>
      BY <2>3 DEF engineVars, engine, today
    <3>2. Boosted' = Boosted
      BY <3>1 DEF Boosted, AllowTrend
    <3> QED
      BY <1>2, <3>1, <3>2 DEF BoostNeverTrades
  <2> QED
    BY <1>2, <2>1, <2>2, <2>3 DEF BacktestNext
<1> QED
  BY <1>1, <1>2, BacktestInvariant, PTL DEF BacktestSpec

(* The marks of a settled day are its closes, so its equity is the worth of *)
(* the account at its closes.                                               *)
LEMMA SettledEquity ==
  ASSUME BacktestTypeOK, \A s \in Symbols : AtClose(s)
  PROVE  LET price(s, pos) == IF bars[s] = NoBar THEN pos.last ELSE bars[s].close
             worth(s) == book.longs[s].qty * price(s, book.longs[s])
                         + book.shorts[s].cost
                         - book.shorts[s].qty * price(s, book.shorts[s])
         IN  Equity(book) = book.cash + SumFunction([s \in Symbols |-> worth(s)])
<1> DEFINE f == [s \in Symbols |-> book.longs[s].qty * book.longs[s].last]
           g == [s \in Symbols |-> book.shorts[s].cost
                                     - book.shorts[s].qty * book.shorts[s].last]
           price(s, pos) == IF bars[s] = NoBar THEN pos.last ELSE bars[s].close
           worth(s) == book.longs[s].qty * price(s, book.longs[s])
                       + book.shorts[s].cost
                       - book.shorts[s].qty * price(s, book.shorts[s])
           h == [s \in Symbols |-> worth(s)]
<1>1. /\ Equity(book) = book.cash + SumFunctionOnSet(f, Symbols) + SumFunctionOnSet(g, Symbols)
      /\ \A s \in Symbols : f[s] \in Int /\ g[s] \in Int
      /\ SumFunctionOnSet(f, Symbols) \in Int /\ SumFunctionOnSet(g, Symbols) \in Int
      /\ book.cash \in Int
  BY EquityIs DEF BacktestTypeOK
<1>2. \A s \in Symbols : h[s] = f[s] + g[s]
  <2> SUFFICES ASSUME NEW s \in Symbols
               PROVE  h[s] = f[s] + g[s]
    OBVIOUS
  <2> DEFINE long == book.longs[s]
             short == book.shorts[s]
             lp == price(s, long)
             sp == price(s, short)
  <2>1. /\ long.qty \in Nat /\ long.last \in Int
        /\ short.qty \in Nat /\ short.last \in Int /\ short.cost \in Int
    <3>1. long \in Position /\ short \in Position
      BY BookFields DEF BacktestTypeOK
    <3> QED
      BY <3>1 DEF Position
  <2>2. /\ lp = long.last \/ (long.qty = 0 /\ lp \in Int)
        /\ sp = short.last \/ (short.qty = 0 /\ sp \in Int)
    <3>1. CASE bars[s] = NoBar
      BY <3>1
    <3>2. CASE bars[s] # NoBar
      <4>1. lp = bars[s].close /\ sp = bars[s].close
        BY <3>2
      <4>2. bars[s].close \in Int
        BY <3>2, BarPrices DEF BacktestTypeOK
      <4>3. /\ long.qty > 0 => long.last = bars[s].close
            /\ short.qty > 0 => short.last = bars[s].close
        BY <3>2 DEF AtClose, Open
      <4> HIDE DEF lp, sp, long, short
      <4> QED
        BY <2>1, <4>1, <4>2, <4>3
    <3> QED
      BY <3>1, <3>2
  <2>3. /\ h[s] = long.qty * lp + short.cost - short.qty * sp
        /\ f[s] = long.qty * long.last /\ g[s] = short.cost - short.qty * short.last
    OBVIOUS
  <2> HIDE DEF f, g, h, lp, sp, long, short
  <2>4. long.qty * lp = long.qty * long.last /\ short.qty * sp = short.qty * short.last
    BY <2>1, <2>2
  <2>5. long.qty * long.last \in Int /\ short.qty * short.last \in Int
    BY <2>1
  <2> QED
    BY <2>1, <2>3, <2>4, <2>5
<1>3. SumFunction(h) = SumFunctionOnSet(h, Symbols)
  BY DEF SumFunction
<1> HIDE DEF f, g
<1>4. SumFunctionOnSet(h, Symbols) = SumFunctionOnSet(f, Symbols) + SumFunctionOnSet(g, Symbols)
  <2>1. IsFiniteSet(Symbols)
    BY BacktestAssumption
  <2>2. \A s \in Symbols : f[s] \in Int /\ g[s] \in Int /\ h[s] = f[s] + g[s]
    BY <1>1, <1>2
  <2> HIDE DEF h
  <2> QED
    BY <2>1, <2>2, SumsAdd
<1>5. Equity(book) = book.cash + SumFunction(h)
  BY <1>1, <1>3, <1>4
<1> QED
  BY <1>5

(* No position outstays its time on a day it is traded, and the equity that *)
(* is recorded is the account's at the closes.                              *)
THEOREM DaysSettled == BacktestSpec => []DayIsSettled
<1>1. ASSUME BacktestInv
      PROVE  DayIsSettled
  <2>1. pc \in {"signals", "price", "place", "close"} =>
          \A s \in Symbols : IsOpen(book, s) /\ bars[s] # NoBar => age[s] <= MaxAge
    BY <1>1 DEF BacktestInv, Aged, Young
  <2>2. ASSUME pc = "day", day > 0, context.regime # "UNKNOWN"
        PROVE  recorded = Equity(book) /\ \A s \in Symbols : AtClose(s)
    BY <1>1, <2>2 DEF BacktestInv, Settled
  <2> QED
    BY <1>1, <2>1, <2>2, SettledEquity DEF DayIsSettled, BacktestInv
<1> QED
  BY <1>1, BacktestInvariant, PTL

(* What the trailed stop of an open position is.                            *)
LEMMA LongTrail ==
  ASSUME BacktestTypeOK, NEW s \in Symbols, Open(book.longs[s])
  PROVE  LET pos == book.longs[s]
             t   == Risked(pos, trail[s])
             ts  == TrailedStop(pos, t, FALSE)
         IN  /\ pos \in Position /\ Priced(pos) /\ ~Open(book.shorts[s])
             /\ t.moved => trail[s].moved
             /\ ts \in Nat \ {0} /\ ts >= pos.stop
             /\ AtBreakeven(pos, t, FALSE) /\ ~t.moved => ts >= AvgPrice(pos)
             /\ pos.target # NoTarget /\ pos.stop < pos.target /\ pos.last < pos.target
                  => ts < pos.target
<1>1. /\ book.longs[s] \in Position /\ Priced(book.longs[s]) /\ ~Open(book.shorts[s])
      /\ trail[s] \in Trails
  BY BookFields DEF BacktestTypeOK, Sound, Trails
<1>2. /\ Risked(book.longs[s], trail[s]) \in Trails
      /\ Risked(book.longs[s], trail[s]).moved => trail[s].moved
  BY <1>1, RiskedType
<1> DEFINE pos == book.longs[s]
           t   == Risked(pos, trail[s])
<1>3. pos \in Position /\ Open(pos) /\ Priced(pos) /\ t \in Trails
  BY <1>1, <1>2
<1> HIDE DEF pos, t
<1>4. LET ts == TrailedStop(pos, t, FALSE)
      IN  /\ ts \in Nat \ {0} /\ ts >= pos.stop
          /\ AtBreakeven(pos, t, FALSE) /\ ~t.moved => ts >= AvgPrice(pos)
          /\ pos.target # NoTarget /\ pos.stop < pos.target /\ pos.last < pos.target
               => ts < pos.target
  BY <1>3, TrailedLong
<1> QED
  BY <1>1, <1>2, <1>4 DEF pos, t

(* The trailed stop of a short that is held.                                *)
LEMMA ShortTrail ==
  ASSUME BacktestTypeOK, NEW s \in Symbols, Open(book.shorts[s])
  PROVE  LET pos == book.shorts[s]
             t   == Risked(pos, trail[s])
             ts  == TrailedStop(pos, t, TRUE)
         IN  /\ pos \in Position /\ Priced(pos) /\ Exact(pos) /\ ~Open(book.longs[s])
             /\ t.moved => trail[s].moved
             /\ ts \in Nat \ {0} /\ ts <= pos.stop
             /\ AtBreakeven(pos, t, TRUE) /\ ~t.moved => ts <= AvgPrice(pos)
             /\ pos.target # NoTarget /\ pos.stop > pos.target /\ pos.last > pos.target
                  => ts > pos.target
<1>1. /\ book.shorts[s] \in Position /\ Priced(book.shorts[s]) /\ Exact(book.shorts[s])
      /\ ~Open(book.longs[s]) /\ trail[s] \in Trails
  BY BookFields DEF BacktestTypeOK, Sound, Trails
<1>2. /\ Risked(book.shorts[s], trail[s]) \in Trails
      /\ Risked(book.shorts[s], trail[s]).moved => trail[s].moved
  BY <1>1, RiskedType
<1> DEFINE pos == book.shorts[s]
           t   == Risked(pos, trail[s])
<1>3. pos \in Position /\ Open(pos) /\ Priced(pos) /\ t \in Trails /\ AvgPrice(pos) > 0
  BY <1>1, <1>2 DEF Exact
<1> HIDE DEF pos, t
<1>4. LET ts == TrailedStop(pos, t, TRUE)
      IN  /\ ts \in Nat \ {0} /\ ts <= pos.stop
          /\ AtBreakeven(pos, t, TRUE) /\ ~t.moved => ts <= AvgPrice(pos)
          /\ pos.target # NoTarget /\ pos.stop > pos.target /\ pos.last > pos.target
               => ts > pos.target
  BY <1>3, TrailedShort
<1> QED
  BY <1>1, <1>2, <1>4 DEF pos, t

(* A step leaves the account alone, exits positions of one symbol, marks    *)
(* one symbol, or places an order.                                          *)
Quiet ==
  /\ book' = book
  /\ \A u \in Symbols : IsOpen(book, u) => trail'[u] = trail[u] /\ (u \in added => u \in added')

Exits(s) ==
  /\ IntradayExits /\ pc = "exits" /\ s = Universe[cursor]
  /\ ExitsOf(s) /\ bars' = bars
  /\ added' = {u \in added : IsOpen(book', u)}

Marks(s, px) ==
  /\ pc # "exits"
  /\ book' = Marked(book, s, px) /\ trail' = Forget(book', trail)
  /\ added' = {u \in added : IsOpen(book', u)}

(* A step changes no position, exits one, marks one or is an order.         *)
LEMMA StepsAre ==
  ASSUME BacktestInv, [BacktestNext]_engineVars
  PROVE  \/ Quiet
         \/ \E s \in Symbols : Exits(s)
         \/ \E s \in Symbols, px \in Nat \ {0} : Marks(s, px)
         \/ PlaceOrder
<1> USE DEF BacktestInv
<1>1. CASE StartDay \/ Classify \/ Evaluate \/ NoMoreSignals \/ EndDay \/ UNCHANGED engineVars
  BY <1>1 DEF StartDay, Classify, Evaluate, NoMoreSignals, EndDay, engineVars, engine, ledger,
              history, Quiet
<1>2. CASE IntradayExits
  <2>1. PICK s \in Symbols : s = Universe[cursor]
    BY <1>2, UniverseIs DEF IntradayExits, BacktestTypeOK
  <2>2. /\ pc = "exits" /\ bars' = bars /\ added' = {u \in added : IsOpen(book', u)}
        /\ ExitsOf(s) \/ (book' = book /\ trail' = trail)
    BY <1>2, <2>1 DEF IntradayExits, today, ledger
  <2>3. CASE ExitsOf(s)
    BY <1>2, <2>1, <2>2, <2>3 DEF Exits
  <2>4. CASE book' = book /\ trail' = trail
    BY <2>2, <2>4 DEF Quiet
  <2> QED
    BY <2>2, <2>3, <2>4
<1>3. CASE PriceOrder
  <2> DEFINE s == pending.symbol
             px == bars[s].open
  <2>1. /\ pc = "price" /\ book' = Marked(book, s, px) /\ trail' = Forget(book', trail)
        /\ added' = {u \in added : IsOpen(book', u)}
    BY <1>3 DEF PriceOrder
  <2>2. s \in Symbols /\ bars[s] # NoBar
    BY <2>1 DEF OrderIsSound
  <2>3. px \in Nat \ {0}
    BY <2>2, BarPrices DEF BacktestTypeOK
  <2>4. Marks(s, px)
    BY <2>1 DEF Marks
  <2> QED
    BY <2>2, <2>3, <2>4
<1>4. CASE MarkClose
  <2>1. PICK s \in Symbols : s = Universe[cursor]
    BY <1>4, UniverseIs DEF MarkClose, BacktestTypeOK
  <2>2. /\ pc = "close" /\ trail' = Forget(book', trail)
        /\ added' = {u \in added : IsOpen(book', u)}
        /\ book' = IF bars[s] = NoBar THEN book ELSE Marked(book, s, bars[s].close)
    BY <1>4, <2>1 DEF MarkClose
  <2>3. CASE bars[s] = NoBar
    BY <2>2, <2>3 DEF Quiet, Forget
  <2>4. CASE bars[s] # NoBar
    <3>1. bars[s].close \in Nat \ {0}
      BY <2>4, BarPrices DEF BacktestTypeOK
    <3>2. Marks(s, bars[s].close)
      BY <2>2, <2>4 DEF Marks
    <3> QED
      BY <3>1, <3>2
  <2> QED
    BY <2>3, <2>4
<1> QED
  BY <1>1, <1>2, <1>3, <1>4 DEF BacktestNext

(* The stop of a position that no order is for moves towards the price.     *)
Tightens(s) ==
  /\ Open(book.longs[s]) /\ Open(book'.longs[s]) => book'.longs[s].stop >= book.longs[s].stop
  /\ Open(book.shorts[s]) /\ Open(book'.shorts[s]) => book'.shorts[s].stop <= book.shorts[s].stop

(* Stops tighten unless an order touches the position.                      *)
LEMMA StopsTighten ==
  ASSUME BacktestInv, [BacktestNext]_engineVars, NEW s \in Symbols,
         pc # "place" \/ pending.symbol # s
  PROVE  Tightens(s)
<1> USE DEF BacktestInv
<1>1. Sound(book) /\ book.longs[s].stop \in Int /\ book.shorts[s].stop \in Int
  <2>1. Sound(book)
    BY DEF BacktestTypeOK
  <2>2. book.longs[s] \in Position /\ book.shorts[s] \in Position
    BY <2>1, BookFields
  <2> QED
    BY <2>1, <2>2 DEF Position
<1>2. ASSUME NEW u, OnlyAt(book, book', u), u # s
      PROVE  Tightens(s)
  BY <1>1, <1>2 DEF OnlyAt, Tightens
<1>3. CASE Quiet
  BY <1>1, <1>3 DEF Quiet, Tightens
<1>4. ASSUME NEW u \in Symbols, Exits(u)
      PROVE  Tightens(s)
  <2>1. OnlyAt(book, book', u)
    BY <1>4, ExitsEffect DEF Exits
  <2>2. ASSUME u = s, Open(book.longs[s])
        PROVE  Tightens(s)
    <3> DEFINE pos == book.longs[s]
               t   == Risked(pos, trail[s])
               ts  == TrailedStop(pos, t, FALSE)
    <3>1. ts >= pos.stop /\ ~Open(book.shorts[s])
      BY <2>2, LongTrail
    <3>2. \/ \E p \in Nat : LongOut(book, book', s, p)
          \/ book'.longs[s] = WithStop(pos, ts)
      BY <1>4, <2>2, ExitsOfLong DEF Exits
    <3> HIDE DEF ts
    <3> QED
      BY <3>1, <3>2, FlatIsClosed DEF LongOut, WithStop, Tightens
  <2>3. ASSUME u = s, Open(book.shorts[s])
        PROVE  Tightens(s)
    <3> DEFINE pos == book.shorts[s]
               t   == Risked(pos, trail[s])
               ts  == TrailedStop(pos, t, TRUE)
    <3>1. ts <= pos.stop /\ ~Open(book.longs[s])
      BY <2>3, ShortTrail
    <3>2. \/ \E p \in Nat : ShortOut(book, book', s, p)
          \/ book'.shorts[s] = WithStop(pos, ts)
      BY <1>4, <2>3, ExitsOfShort DEF Exits
    <3> HIDE DEF ts
    <3> QED
      BY <3>1, <3>2, FlatIsClosed DEF ShortOut, WithStop, Tightens
  <2> QED
    BY <1>2, <2>1, <2>2, <2>3 DEF Tightens
<1>5. ASSUME NEW u \in Symbols, NEW px \in Nat \ {0}, Marks(u, px)
      PROVE  Tightens(s)
  <2>1. book' = Marked(book, u, px)
    BY <1>5 DEF Marks
  <2>2. /\ OnlyAt(book, book', u)
        /\ Open(book'.longs[u]) => book'.longs[u].stop = book.longs[u].stop
        /\ Open(book'.shorts[u]) => book'.shorts[u].stop = book.shorts[u].stop
    BY <1>1, <2>1, PriceEffect
  <2> QED
    BY <1>1, <1>2, <2>2 DEF Tightens
<1>6. CASE PlaceOrder
  <2>1. OnlyAt(book, book', pending.symbol) /\ pc = "place"
    BY <1>6, PlaceOrderEffect, PlaceOrderIs
  <2> QED
    BY <1>2, <2>1
<1> QED
  BY <1>3, <1>4, <1>5, <1>6, StepsAre

(* A bar that reaches the stop in force pays the stop.                      *)
PaysTheStop(s) ==
  LET pos == PositionOf(book, s)
      t == Risked(pos, trail[s])
      stop == TrailedStop(pos, t, Open(book.shorts[s]))
  IN  pc = "exits" /\ IsOpen(book, s) /\ bars[s] # NoBar /\ cursor' > cursor
      /\ Universe[cursor] = s
      /\ (IF Open(book.shorts[s]) THEN bars[s].high >= stop ELSE bars[s].low <= stop)
      => /\ ~IsOpen(book', s)
         /\ book'.realized - book.realized
              <= (IF Open(book.shorts[s]) THEN pos.cost - pos.qty * stop
                  ELSE pos.qty * stop - pos.cost)

(* A bar that reaches a stop pays it.                                       *)
LEMMA BarsPayTheStop ==
  ASSUME BacktestInv, [BacktestNext]_engineVars, NEW s \in Symbols
  PROVE  PaysTheStop(s)
<1> USE DEF BacktestInv
<1> SUFFICES ASSUME pc = "exits", IsOpen(book, s), bars[s] # NoBar, cursor' > cursor,
                    Universe[cursor] = s
             PROVE  PaysTheStop(s)
  BY DEF PaysTheStop
<1>1. IntradayExits
  <2>1. cursor \in Nat \ {0} /\ Len(Universe) \in Nat
    BY UniverseIs DEF BacktestTypeOK
  <2>2. ~Classify /\ cursor' # cursor
    BY <2>1 DEF Classify
  <2>3. ~UNCHANGED engineVars
    BY <2>2 DEF engineVars, engine
  <2> QED
    BY <2>2, <2>3 DEF BacktestNext, StartDay, Evaluate, PriceOrder, PlaceOrder, NoMoreSignals,
                      MarkClose, EndDay
<1>2. ExitsOf(s)
  BY <1>1 DEF IntradayExits
<1>3. CASE Open(book.longs[s])
  <2> DEFINE pos == book.longs[s]
             t   == Risked(pos, trail[s])
             ts  == TrailedStop(pos, t, FALSE)
  <2>1. ts \in Nat /\ ~Open(book.shorts[s])
    BY <1>3, LongTrail
  <2>2. PositionOf(book, s) = pos
    BY <2>1 DEF PositionOf
  <2>3. \/ \E p \in Nat : /\ p >= ts /\ (bars[s].low <= ts => p = ts)
                          /\ LongOut(book, book', s, p)
        \/ bars[s].low > ts
    BY <1>2, <1>3, ExitsOfLong
  <2>4. bars[s].low \in Nat
    BY BarPrices DEF BacktestTypeOK
  <2>5. Open(book.shorts[s]) = FALSE
    BY <2>1 DEF Open
  <2>6. ASSUME bars[s].low <= ts
        PROVE  ~IsOpen(book', s) /\ book'.realized - book.realized <= pos.qty * ts - pos.cost
    <3> HIDE DEF ts
    <3>1. ~(bars[s].low > ts)
      BY <2>1, <2>4, <2>6
    <3>2. PICK p \in Nat : p = ts /\ LongOut(book, book', s, p)
      BY <2>3, <2>6, <3>1
    <3>3. LongOut(book, book', s, ts)
      BY <3>2
    <3> QED
      BY <3>3, FlatIsClosed DEF LongOut, IsOpen
  <2> QED
    BY <2>2, <2>5, <2>6 DEF PaysTheStop
<1>4. CASE Open(book.shorts[s])
  <2> DEFINE pos == book.shorts[s]
             t   == Risked(pos, trail[s])
             ts  == TrailedStop(pos, t, TRUE)
  <2>1. ts \in Nat
    BY <1>4, ShortTrail
  <2>2. PositionOf(book, s) = pos
    BY <1>4 DEF PositionOf
  <2>3. \/ \E p \in Nat : /\ p <= ts /\ (bars[s].high >= ts => p = ts)
                          /\ ShortOut(book, book', s, p)
        \/ bars[s].high < ts
    BY <1>2, <1>4, ExitsOfShort
  <2>4. bars[s].high \in Nat
    BY BarPrices DEF BacktestTypeOK
  <2>5. Open(book.shorts[s]) = TRUE
    BY <1>4 DEF Open
  <2>6. ASSUME bars[s].high >= ts
        PROVE  ~IsOpen(book', s) /\ book'.realized - book.realized <= pos.cost - pos.qty * ts
    <3> HIDE DEF ts
    <3>1. ~(bars[s].high < ts)
      BY <2>1, <2>4, <2>6
    <3>2. PICK p \in Nat : p = ts /\ ShortOut(book, book', s, p)
      BY <2>3, <2>6, <3>1
    <3>3. ShortOut(book, book', s, ts)
      BY <3>2
    <3> QED
      BY <3>3, FlatIsClosed DEF ShortOut, IsOpen
  <2> QED
    BY <2>2, <2>5, <2>6 DEF PaysTheStop
<1> QED
  BY <1>3, <1>4 DEF IsOpen

(* Stops only tighten, and a bar that reaches one pays it.                  *)
THEOREM StopsKept == BacktestSpec => StopsAreKept
<1>1. ASSUME BacktestInv, [BacktestNext]_engineVars
      PROVE  \A s \in Symbols :
               pc # "place" \/ pending.symbol # s =>
                 /\ Open(book.longs[s]) /\ Open(book'.longs[s])
                      => book'.longs[s].stop >= book.longs[s].stop
                 /\ Open(book.shorts[s]) /\ Open(book'.shorts[s])
                      => book'.shorts[s].stop <= book.shorts[s].stop
  BY <1>1, StopsTighten DEF Tightens
<1>2. BacktestSpec => StopsOnlyTighten
  BY <1>1, BacktestInvariant, PTL DEF BacktestSpec, StopsOnlyTighten
<1>3. ASSUME BacktestInv, [BacktestNext]_engineVars
      PROVE  \A s \in Symbols : PaysTheStop(s)
  BY <1>3, BarsPayTheStop
<1>4. BacktestSpec => [][\A s \in Symbols : PaysTheStop(s)]_engineVars
  BY <1>3, BacktestInvariant, PTL DEF BacktestSpec
<1>5. BacktestSpec => PessimisticBars
  BY <1>4 DEF PessimisticBars, PaysTheStop
<1> QED
  BY <1>2, <1>5, PTL DEF StopsAreKept
-----------------------------------------------------------------------------
(* Breakeven                                                                *)

(* What is left of an exact position.                                       *)
LEMMA Reduced ==
  ASSUME NEW pos \in Position, Open(pos), Exact(pos), NEW qty \in Nat \ {0},
         Open(Reduce(pos, qty))
  PROVE  LET p == Reduce(pos, qty)
         IN  /\ Exact(p) /\ AvgPrice(p) = AvgPrice(pos)
             /\ p.stop = pos.stop /\ p.target = pos.target /\ p.last = pos.last
<1>1. pos.qty \in Nat
  BY DEF Position
<1>2. qty < pos.qty
  <2>1. ~(qty >= pos.qty)
    BY FlatIsClosed DEF Reduce
  <2> QED
    BY <1>1, <2>1
<1>3. Exact(Reduce(pos, qty)) /\ AvgPrice(Reduce(pos, qty)) = AvgPrice(pos)
  BY <1>2, ExactParts
<1>4. Reduce(pos, qty) = [qty |-> pos.qty - qty, cost |-> pos.cost - Basis(pos, qty),
                          stop |-> pos.stop, target |-> pos.target, last |-> pos.last]
  BY <1>1, <1>2 DEF Reduce
<1> QED
  BY <1>3, <1>4

(* A price at or above the cost of each share pays for all of them.         *)
LEMMA Repaid ==
  ASSUME NEW pos \in Position, Exact(pos), NEW qty \in Nat, NEW price \in Nat
  PROVE  /\ price >= AvgPrice(pos) => qty * price - qty * AvgPrice(pos) >= 0
         /\ price <= AvgPrice(pos) => qty * AvgPrice(pos) - qty * price >= 0
<1>1. AvgPrice(pos) \in Nat
  BY DEF Exact
<1>2. ASSUME NEW a \in Nat, NEW b \in Nat, a >= b
      PROVE  qty * a - qty * b >= 0
  BY <1>2, Z3
<1> QED
  BY <1>1, <1>2

(* A long that goes out at its average or above loses nothing.              *)
LEMMA LongOutPays ==
  ASSUME Frictionless, Sound(book), NEW s \in Symbols, NEW price \in Nat,
         LongOut(book, book', s, price),
         Exact(book.longs[s]), price >= AvgPrice(book.longs[s])
  PROVE  book'.realized >= book.realized
<1> DEFINE pos == book.longs[s]
           paid == pos.qty * price - pos.cost
<1>1. pos \in Position /\ pos.qty \in Nat /\ book.realized \in Int
  BY BookFields DEF Position
<1>2. book'.realized \in Int /\ book'.realized - book.realized = paid
  BY BookFields DEF LongOut
<1>3. pos.cost = pos.qty * AvgPrice(pos)
  BY DEF Exact
<1>4. pos.qty * price - pos.qty * AvgPrice(pos) >= 0
  BY <1>1, Repaid
<1>5. paid >= 0
  BY <1>3, <1>4
<1> HIDE DEF paid
<1> QED
  BY <1>1, <1>2, <1>5

(* A short that goes out at its average or below loses nothing.             *)
LEMMA ShortOutPays ==
  ASSUME Frictionless, Sound(book), NEW s \in Symbols, NEW price \in Nat,
         ShortOut(book, book', s, price),
         Exact(book.shorts[s]), price <= AvgPrice(book.shorts[s])
  PROVE  book'.realized >= book.realized
<1> DEFINE pos == book.shorts[s]
           paid == pos.cost - pos.qty * price
<1>1. pos \in Position /\ pos.qty \in Nat /\ book.realized \in Int
  BY BookFields DEF Position
<1>2. book'.realized \in Int /\ book'.realized - book.realized = paid
  BY BookFields DEF ShortOut
<1>3. pos.cost = pos.qty * AvgPrice(pos)
  BY DEF Exact
<1>4. pos.qty * AvgPrice(pos) - pos.qty * price >= 0
  BY <1>1, Repaid
<1>5. paid >= 0
  BY <1>3, <1>4
<1> HIDE DEF paid
<1> QED
  BY <1>1, <1>2, <1>5

(* A step that touches one symbol: what has to be shown of it.              *)
LEMMA BreakevenElsewhere ==
  ASSUME Breakeven, NEW s \in Symbols, OnlyAt(book, book', s),
         \A u \in Symbols \ {s} : IsOpen(book', u) =>
           trail'[u] = trail[u] /\ (u \in added => u \in added'),
         s \notin added' /\ Open(book'.longs[s]) => LongKept(book'.longs[s], trail'[s]),
         s \notin added' /\ Open(book'.shorts[s]) => ShortKept(book'.shorts[s], trail'[s])
  PROVE  Breakeven'
<1> SUFFICES ASSUME NEW u \in Symbols, u \notin added'
             PROVE  /\ Open(book'.longs[u]) => LongKept(book'.longs[u], trail'[u])
                    /\ Open(book'.shorts[u]) => ShortKept(book'.shorts[u], trail'[u])
  BY DEF Breakeven, LongKept, ShortKept, Open, Exact, AvgPrice
<1>1. CASE u = s
  BY <1>1
<1>2. CASE u # s
  BY <1>2 DEF Breakeven, OnlyAt, IsOpen
<1> QED
  BY <1>1, <1>2

(* A day's exits of a long: what stays is kept, what goes has paid.         *)
LEMMA ExitLongBreakeven ==
  ASSUME Frictionless, BacktestTypeOK, NEW s \in Symbols, ExitsOf(s), Open(book.longs[s]),
         LongKept(book.longs[s], trail[s])
  PROVE  /\ Open(book'.longs[s]) => LongKept(book'.longs[s], trail'[s])
         /\ ~Open(book'.shorts[s])
         /\ trail[s].moved /\ ~IsOpen(book', s) => book'.realized >= book.realized
<1> DEFINE pos == book.longs[s]
           t   == Risked(pos, trail[s])
           ts  == TrailedStop(pos, t, FALSE)
           atBreakeven == AtBreakeven(pos, t, FALSE)
<1>1. /\ pos \in Position /\ Priced(pos) /\ ~Open(book.shorts[s])
      /\ t.moved => trail[s].moved
      /\ ts \in Nat \ {0} /\ ts >= pos.stop
      /\ atBreakeven /\ ~t.moved => ts >= AvgPrice(pos)
      /\ pos.target # NoTarget /\ pos.stop < pos.target /\ pos.last < pos.target
           => ts < pos.target
  BY LongTrail
<1>2. \/ /\ \E p \in Nat : p >= ts /\ LongOut(book, book', s, p)
      \/ /\ book'.longs[s] = WithStop(pos, ts) /\ book'.shorts[s] = Flat
  BY ExitsOfLong
<1>3. trail' = Forget(book', [trail EXCEPT ![s] = [risk |-> t.risk, moved |-> atBreakeven]])
  <2>1. Open(book.shorts[s]) = FALSE
    BY <1>1 DEF Open
  <2>2. PositionOf(book, s) = pos
    BY <1>1 DEF PositionOf
  <2> QED
    BY <2>1, <2>2, ExitsBooks
<1>4. trail \in [Symbols -> Trails]
  BY DEF BacktestTypeOK, Trails
<1>5. Exact(pos) /\ (trail[s].moved => pos.stop >= AvgPrice(pos))
      /\ (pos.target # NoTarget => pos.stop < pos.target /\ pos.last < pos.target)
  BY DEF LongKept
<1>6. AvgPrice(pos) \in Int /\ pos.stop \in Int
  BY <1>1, <1>5 DEF Exact, Position
<1> HIDE DEF pos, t, ts, atBreakeven
<1>7. CASE \E p \in Nat : p >= ts /\ LongOut(book, book', s, p)
  <2>1. PICK p \in Nat : p >= ts /\ LongOut(book, book', s, p)
    BY <1>7
  <2>2. ~Open(book'.longs[s]) /\ ~Open(book'.shorts[s])
    BY <2>1, FlatIsClosed DEF LongOut
  <2>3. ASSUME trail[s].moved
        PROVE  book'.realized >= book.realized
    <3>1. p >= AvgPrice(pos)
      BY <1>1, <1>5, <1>6, <2>1, <2>3
    <3>2. Sound(book)
      BY DEF BacktestTypeOK
    <3> QED
      BY <1>5, <2>1, <3>1, <3>2, LongOutPays DEF pos
  <2> QED
    BY <2>2, <2>3
<1>8. CASE book'.longs[s] = WithStop(pos, ts) /\ book'.shorts[s] = Flat
  <2> DEFINE p == WithStop(pos, ts)
  <2>1. /\ Open(p) /\ AvgPrice(p) = AvgPrice(pos) /\ Exact(p)
        /\ p.stop = ts /\ p.target = pos.target /\ p.last = pos.last
    BY <1>1, <1>5, WithStopIs DEF pos
  <2>2. book'.longs[s] = p /\ IsOpen(book', s)
    BY <1>8, <2>1 DEF IsOpen
  <2>3. trail'[s].moved = atBreakeven
    BY <1>3, <1>4, <2>2 DEF Forget
  <2> HIDE DEF p
  <2>4. atBreakeven => ts >= AvgPrice(pos)
    <3>1. CASE t.moved
      BY <1>1, <1>5, <1>6, <3>1
    <3>2. CASE ~t.moved
      BY <1>1, <3>2
    <3> QED
      BY <3>1, <3>2
  <2>5. LongKept(p, trail'[s])
    BY <1>1, <1>5, <2>1, <2>3, <2>4 DEF LongKept
  <2> QED
    BY <1>8, <2>2, <2>5, FlatIsClosed
<1> QED
  BY <1>2, <1>7, <1>8

(* And of a short.                                                          *)
LEMMA ExitShortBreakeven ==
  ASSUME Frictionless, BacktestTypeOK, NEW s \in Symbols, ExitsOf(s), Open(book.shorts[s]),
         ShortKept(book.shorts[s], trail[s])
  PROVE  /\ Open(book'.shorts[s]) => ShortKept(book'.shorts[s], trail'[s])
         /\ ~Open(book'.longs[s])
         /\ trail[s].moved /\ ~IsOpen(book', s) => book'.realized >= book.realized
<1> DEFINE pos == book.shorts[s]
           t   == Risked(pos, trail[s])
           ts  == TrailedStop(pos, t, TRUE)
           atBreakeven == AtBreakeven(pos, t, TRUE)
<1>1. /\ pos \in Position /\ Priced(pos) /\ ~Open(book.longs[s])
      /\ t.moved => trail[s].moved
      /\ ts \in Nat \ {0} /\ ts <= pos.stop
      /\ atBreakeven /\ ~t.moved => ts <= AvgPrice(pos)
      /\ pos.target # NoTarget /\ pos.stop > pos.target /\ pos.last > pos.target
           => ts > pos.target
  BY ShortTrail
<1>2. \/ /\ \E p \in Nat : p <= ts /\ ShortOut(book, book', s, p)
      \/ /\ book'.shorts[s] = WithStop(pos, ts) /\ book'.longs[s] = Flat
  BY ExitsOfShort
<1>3. trail' = Forget(book', [trail EXCEPT ![s] = [risk |-> t.risk, moved |-> atBreakeven]])
  <2>1. Open(book.shorts[s]) = TRUE
    BY DEF Open
  <2>2. PositionOf(book, s) = pos
    BY DEF PositionOf
  <2> QED
    BY <2>1, <2>2, ExitsBooks
<1>4. trail \in [Symbols -> Trails]
  BY DEF BacktestTypeOK, Trails
<1>5. Exact(pos) /\ (trail[s].moved => pos.stop <= AvgPrice(pos))
      /\ (pos.target # NoTarget => pos.stop > pos.target /\ pos.last > pos.target)
  BY DEF ShortKept
<1>6. AvgPrice(pos) \in Int /\ pos.stop \in Int
  BY <1>1, <1>5 DEF Exact, Position
<1> HIDE DEF pos, t, ts, atBreakeven
<1>7. CASE \E p \in Nat : p <= ts /\ ShortOut(book, book', s, p)
  <2>1. PICK p \in Nat : p <= ts /\ ShortOut(book, book', s, p)
    BY <1>7
  <2>2. ~Open(book'.shorts[s]) /\ ~Open(book'.longs[s])
    BY <2>1, FlatIsClosed DEF ShortOut
  <2>3. ASSUME trail[s].moved
        PROVE  book'.realized >= book.realized
    <3>1. p <= AvgPrice(pos)
      BY <1>1, <1>5, <1>6, <2>1, <2>3
    <3>2. Sound(book)
      BY DEF BacktestTypeOK
    <3> QED
      BY <1>5, <2>1, <3>1, <3>2, ShortOutPays DEF pos
  <2> QED
    BY <2>2, <2>3
<1>8. CASE book'.shorts[s] = WithStop(pos, ts) /\ book'.longs[s] = Flat
  <2> DEFINE p == WithStop(pos, ts)
  <2>1. /\ Open(p) /\ AvgPrice(p) = AvgPrice(pos) /\ Exact(p)
        /\ p.stop = ts /\ p.target = pos.target /\ p.last = pos.last
    BY <1>1, <1>5, WithStopIs DEF pos
  <2>2. book'.shorts[s] = p /\ IsOpen(book', s)
    BY <1>8, <2>1 DEF IsOpen
  <2>3. trail'[s].moved = atBreakeven
    BY <1>3, <1>4, <2>2 DEF Forget
  <2> HIDE DEF p
  <2>4. atBreakeven => ts <= AvgPrice(pos)
    <3>1. CASE t.moved
      BY <1>1, <1>5, <1>6, <3>1
    <3>2. CASE ~t.moved
      BY <1>1, <3>2
    <3> QED
      BY <3>1, <3>2
  <2>5. ShortKept(p, trail'[s])
    BY <1>1, <1>5, <2>1, <2>3, <2>4 DEF ShortKept
  <2> QED
    BY <1>8, <2>2, <2>5, FlatIsClosed
<1> QED
  BY <1>2, <1>7, <1>8

(* A price that is heard of.                                                *)
LEMMA StillKept ==
  ASSUME NEW pos \in Position, Open(pos), NEW px \in Nat \ {0}, NEW t
  PROVE  /\ LongKept(pos, t) /\ (pos.target # NoTarget => px < pos.target)
              => LongKept(AtPrice(pos, px), t)
         /\ ShortKept(pos, t) /\ (pos.target # NoTarget => px > pos.target)
              => ShortKept(AtPrice(pos, px), t)
<1> DEFINE p == AtPrice(pos, px)
<1>1. /\ Exact(pos) => Exact(p)
      /\ p.last = px /\ p.stop = pos.stop /\ p.target = pos.target
      /\ p.qty = pos.qty /\ p.cost = pos.cost
  BY AtPriceIs
<1> HIDE DEF p
<1>2. AvgPrice(p) = AvgPrice(pos)
  BY <1>1 DEF AvgPrice
<1> QED
  BY <1>1, <1>2 DEF LongKept, ShortKept, p

(* A mark that closes a position at breakeven loses nothing.                *)
LEMMA MarkBreakeven ==
  ASSUME Frictionless, BacktestTypeOK, Breakeven, NEW s \in Symbols, NEW px \in Nat \ {0},
         Marks(s, px)
  PROVE  /\ Breakeven'
         /\ OnlyAt(book, book', s)
         /\ trail[s].moved /\ s \notin added /\ IsOpen(book, s) /\ ~IsOpen(book', s)
              => book'.realized >= book.realized
<1> DEFINE long == book.longs[s]
           short == book.shorts[s]
<1>1. /\ book' = Marked(book, s, px) /\ trail' = Forget(book', trail)
      /\ added' = {u \in added : IsOpen(book', u)}
  BY DEF Marks
<1>2. Sound(book) /\ long \in Position /\ short \in Position
  BY BookFields DEF BacktestTypeOK
<1>3. Kept(book, book', s, px) \/ LongHit(book, book', s, px) \/ ShortHit(book, book', s, px)
  BY <1>1, <1>2, MarkedEffect
<1>4. OnlyAt(book, book', s)
  BY <1>3 DEF Kept, LongHit, ShortHit, LongOut, ShortOut
<1>5. \A u \in Symbols : IsOpen(book', u) => trail'[u] = trail[u] /\ (u \in added => u \in added')
  BY <1>1 DEF Forget
<1>6. CASE Kept(book, book', s, px)
  <2>1. /\ Open(book'.longs[s]) <=> Open(long)
        /\ Open(book'.shorts[s]) <=> Open(short)
    BY <1>2, <1>6, KeptOpen
  <2>2. /\ book'.longs[s] = AtPrice(long, px) /\ book'.shorts[s] = AtPrice(short, px)
        /\ Open(long) => (long.target # NoTarget => px < long.target)
        /\ Open(short) => (short.target # NoTarget => px > short.target)
    BY <1>6 DEF Kept
  <2>3. ASSUME s \notin added', Open(book'.longs[s])
        PROVE  LongKept(book'.longs[s], trail'[s])
    <3>1. LongKept(long, trail[s]) /\ trail'[s] = trail[s] /\ Open(long)
      BY <1>5, <2>1, <2>3 DEF Breakeven, IsOpen
    <3> HIDE DEF long
    <3> QED
      BY <1>2, <2>2, <3>1, StillKept
  <2>4. ASSUME s \notin added', Open(book'.shorts[s])
        PROVE  ShortKept(book'.shorts[s], trail'[s])
    <3>1. ShortKept(short, trail[s]) /\ trail'[s] = trail[s] /\ Open(short)
      BY <1>5, <2>1, <2>4 DEF Breakeven, IsOpen
    <3> HIDE DEF short
    <3> QED
      BY <1>2, <2>2, <3>1, StillKept
  <2>5. Breakeven'
    BY <1>4, <1>5, <2>3, <2>4, BreakevenElsewhere
  <2> QED
    BY <1>4, <2>1, <2>5 DEF IsOpen
<1>7. ASSUME LongHit(book, book', s, px) \/ ShortHit(book, book', s, px)
      PROVE  ~Open(book'.longs[s]) /\ ~Open(book'.shorts[s]) /\ Breakeven'
  <2>1. ~Open(book'.longs[s]) /\ ~Open(book'.shorts[s])
    BY <1>7, FlatIsClosed DEF LongHit, ShortHit, LongOut, ShortOut
  <2> QED
    BY <1>4, <1>5, <2>1, BreakevenElsewhere
<1>8. ASSUME LongHit(book, book', s, px), trail[s].moved, s \notin added
      PROVE  book'.realized >= book.realized
  <2>1. /\ Open(long)
        /\ \/ px <= long.stop /\ LongOut(book, book', s, long.stop)
           \/ /\ px > long.stop /\ long.target # NoTarget /\ px >= long.target
              /\ LongOut(book, book', s, long.target)
    BY <1>8 DEF LongHit
  <2>2. /\ Exact(long) /\ long.stop >= AvgPrice(long)
        /\ long.target # NoTarget => long.stop < long.target
    BY <1>8, <2>1 DEF Breakeven, LongKept
  <2>3. AvgPrice(long) \in Int /\ long.stop \in Int /\ long.target \in Int
        /\ long.stop > 0 /\ long.target >= 0
    BY <1>2, <2>1, <2>2 DEF Exact, Position, Sound, Priced
  <2>4. \/ LongOut(book, book', s, long.stop)
        \/ long.target >= AvgPrice(long) /\ LongOut(book, book', s, long.target)
    BY <2>1, <2>2, <2>3
  <2>5. long.stop \in Nat /\ long.target \in Nat
    BY <2>3
  <2> QED
    BY <1>2, <2>2, <2>4, <2>5, LongOutPays
<1>9. ASSUME ShortHit(book, book', s, px), trail[s].moved, s \notin added
      PROVE  book'.realized >= book.realized
  <2>1. /\ Open(short)
        /\ \/ px >= short.stop /\ ShortOut(book, book', s, short.stop)
           \/ /\ px < short.stop /\ short.target # NoTarget /\ px <= short.target
              /\ ShortOut(book, book', s, short.target)
    BY <1>9 DEF ShortHit
  <2>2. /\ Exact(short) /\ short.stop <= AvgPrice(short)
        /\ short.target # NoTarget => short.stop > short.target
    BY <1>9, <2>1 DEF Breakeven, ShortKept
  <2>3. AvgPrice(short) \in Int /\ short.stop \in Int /\ short.target \in Int
        /\ short.stop > 0 /\ short.target >= 0
    BY <1>2, <2>1, <2>2 DEF Exact, Position, Sound, Priced
  <2>4. \/ ShortOut(book, book', s, short.stop)
        \/ short.target <= AvgPrice(short) /\ ShortOut(book, book', s, short.target)
    BY <2>1, <2>2, <2>3
  <2>5. short.stop \in Nat /\ short.target \in Nat
    BY <2>3
  <2> QED
    BY <1>2, <2>2, <2>4, <2>5, ShortOutPays
<1> QED
  BY <1>3, <1>4, <1>6, <1>7, <1>8, <1>9

(* An order: what it opens is kept, what it leaves too, and what it closes  *)
(* has paid.                                                                *)
LEMMA OrderBreakeven ==
  ASSUME Frictionless, BacktestInv, Breakeven, PlaceOrder
  PROVE  /\ Breakeven'
         /\ LET s == pending.symbol
            IN  /\ OnlyAt(book, book', s)
                /\ trail[s].moved /\ s \notin added /\ IsOpen(book, s) /\ ~IsOpen(book', s)
                     => book'.realized >= book.realized
<1> USE DEF BacktestInv
<1>1. PICK s, o, open : s = pending.symbol /\ o = pending /\ open = bars[s].open
  OBVIOUS
<1> DEFINE replaced == o.side = "SELL" /\ Open(book'.shorts[s]) /\ book' # book
           long == book.longs[s]
           short == book.shorts[s]
<1>2. /\ pc = "place" /\ s \in Symbols /\ latestPrices[s] = open
      /\ open \in Nat \ {0} /\ latestPrices[s] \in Nat \ {0}
      /\ o.qty \in Nat \ {0} /\ o.stop \in Nat \ {0} /\ o.target \in Nat
      /\ \/ Bought(s, o) \/ Covered(s, o) \/ SoldShort(s, o) \/ SoldLong(s, o)
         \/ book' = book
      /\ trail' = [Forget(book', trail) EXCEPT ![s] = IF replaced THEN NoTrail ELSE @]
      /\ added' = {x \in added : IsOpen(book', x) /\ ~(x = s /\ replaced)}
                    \cup {x \in {s} : /\ book'.longs[x].qty > book.longs[x].qty
                                      /\ Open(book.longs[x])}
  BY <1>1, PlaceOrderIs
<1>3. /\ o.side = "BUY" => o.stop < open /\ (o.target # NoTarget => o.target > open)
      /\ o.side = "SELL" => o.stop > open /\ (o.target # NoTarget => o.target < open)
      /\ Open(long) => open > long.stop
      /\ Open(short) => open < short.stop
  BY <1>1, <1>2 DEF OrderIsSound
<1>4. /\ OnlyAt(book, book', s) /\ Sound(book')
      /\ trail' \in [Symbols -> [risk: Int, moved: BOOLEAN]]
      /\ \A u \in Symbols : IsOpen(book', u) =>
           \/ trail'[u] = NoTrail
           \/ IsOpen(book, u) /\ trail'[u] = trail[u]
  BY <1>1, PlaceOrderEffect
<1>5. Sound(book) /\ long \in Position /\ short \in Position
  BY <1>2, BookFields DEF BacktestTypeOK
<1>6. \A u \in Symbols \ {s} : IsOpen(book', u) =>
        trail'[u] = trail[u] /\ (u \in added => u \in added')
  <2>1. \A u \in Symbols : Forget(book', trail)[u] = IF IsOpen(book', u) THEN trail[u] ELSE NoTrail
    BY DEF Forget
  <2>2. DOMAIN Forget(book', trail) = Symbols
    BY DEF Forget
  <2> HIDE DEF replaced
  <2> QED
    BY <1>2, <2>1, <2>2
<1>7. /\ ~replaced /\ s \in added /\ IsOpen(book', s) => s \in added'
      /\ Open(long) /\ book'.longs[s].qty > long.qty => s \in added'
  BY <1>2
<1>8. /\ Open(long) /\ s \notin added => LongKept(long, trail[s])
      /\ Open(short) /\ s \notin added => ShortKept(short, trail[s])
  BY <1>2 DEF Breakeven
<1>9. ~NoTrail.moved
  BY DEF NoTrail
<1>10. ApplySlippage(open, "BUY") = open /\ ApplySlippage(open, "SELL") = open
  BY <1>2, FillBounds
<1> DEFINE HasPaid == trail[s].moved /\ s \notin added /\ IsOpen(book, s) /\ ~IsOpen(book', s)
                      => book'.realized >= book.realized
           KeptLong == s \notin added' /\ Open(book'.longs[s])
                         => LongKept(book'.longs[s], trail'[s])
           KeptShort == s \notin added' /\ Open(book'.shorts[s])
                          => ShortKept(book'.shorts[s], trail'[s])
<1>11. CASE Bought(s, o)
  <2>1. /\ ~Open(short) /\ book'.shorts[s] = Flat /\ Open(book'.longs[s])
        /\ Open(long) => book'.longs[s].qty > long.qty
        /\ ~Open(long) => book'.longs[s] = NewPosition(o.qty, open, o.stop, o.target)
    BY <1>2, <1>5, <1>10, <1>11, BuyEffect DEF Bought
  <2>2. KeptLong
    <3> SUFFICES ASSUME s \notin added'
                 PROVE  LongKept(book'.longs[s], trail'[s])
      OBVIOUS
    <3> DEFINE p == NewPosition(o.qty, open, o.stop, o.target)
    <3>1. ~Open(long) /\ book'.longs[s] = p
      BY <1>7, <2>1
    <3>2. Exact(p) /\ p.stop = o.stop /\ p.target = o.target /\ p.last = open
      <4>1. PICK qty, stop, target : qty = o.qty /\ stop = o.stop /\ target = o.target
        OBVIOUS
      <4>2. /\ open \in Nat \ {0}
            /\ qty \in Nat \ {0} /\ stop \in Nat \ {0} /\ target \in Nat
        BY <1>2, <4>1
      <4> DEFINE new == NewPosition(qty, open, stop, target)
      <4>3. /\ new \in Position /\ Open(new) /\ Priced(new) /\ Exact(new) /\ AvgPrice(new) = open
            /\ new.qty = qty /\ new.stop = stop /\ new.target = target /\ new.last = open
        BY <4>2, NewIsExact
      <4> QED
        BY <4>1, <4>3
    <3>3. trail'[s] = NoTrail
      BY <1>2, <1>4, <2>1, <3>1 DEF IsOpen
    <3>4. o.stop < open /\ (o.target # NoTarget => o.target > open)
      BY <1>3, <1>11 DEF Bought
    <3> HIDE DEF p
    <3>5. p.target # NoTarget => p.stop < p.target /\ p.last < p.target
      BY <1>2, <3>2, <3>4
    <3> QED
      BY <1>9, <3>1, <3>2, <3>3, <3>5 DEF LongKept
  <2>3. KeptShort /\ HasPaid
    BY <2>1, FlatIsClosed DEF IsOpen
  <2> QED
    BY <1>2, <1>4, <1>6, <2>2, <2>3, <1>1, BreakevenElsewhere
<1>12. CASE Covered(s, o)
  <2>1. /\ Open(short) /\ book'.shorts[s] = Reduce(short, o.qty) /\ book'.longs[s] = Flat
        /\ book'.realized - book.realized = Basis(short, o.qty) - o.qty * open
    BY <1>2, <1>5, <1>12, CoverEffect DEF Covered
  <2>2. Exact(short) /\ ~replaced
    BY <1>2, <1>5, <1>12, <2>1 DEF Sound, Covered
  <2>3. KeptShort
    <3> SUFFICES ASSUME s \notin added', Open(book'.shorts[s])
                 PROVE  ShortKept(book'.shorts[s], trail'[s])
      OBVIOUS
    <3> DEFINE p == Reduce(short, o.qty)
    <3>1. /\ Exact(p) /\ AvgPrice(p) = AvgPrice(short)
          /\ p.stop = short.stop /\ p.target = short.target /\ p.last = short.last
      BY <1>2, <1>5, <2>1, <2>2, Reduced
    <3>2. IsOpen(book', s)
      BY DEF IsOpen
    <3>3. ShortKept(short, trail[s])
      BY <1>7, <1>8, <2>1, <2>2, <3>2
    <3>4. trail'[s].moved => trail[s].moved
      BY <1>2, <1>4, <1>9, <3>2
    <3>5. book'.shorts[s] = p
      BY <2>1
    <3> HIDE DEF p, short
    <3> QED
      BY <3>1, <3>3, <3>4, <3>5 DEF ShortKept
  <2>4. KeptLong
    BY <2>1, FlatIsClosed
  <2>5. HasPaid
    <3> SUFFICES ASSUME trail[s].moved, s \notin added
                 PROVE  book'.realized >= book.realized
      OBVIOUS
    <3>1. short.stop <= AvgPrice(short)
      BY <1>8, <2>1 DEF ShortKept
    <3>2. AvgPrice(short) \in Nat /\ short.stop \in Int
      BY <1>5, <2>2 DEF Exact, Position
    <3>3. open <= AvgPrice(short)
      BY <1>2, <1>3, <2>1, <3>1, <3>2
    <3>4. o.qty * AvgPrice(short) - o.qty * open >= 0
      BY <1>2, <1>5, <2>2, <3>3, Repaid
    <3>5. Basis(short, o.qty) = o.qty * AvgPrice(short)
      BY <1>2, <1>5, <2>1, <2>2, ExactParts
    <3>6. book'.realized - book.realized >= 0
      BY <2>1, <3>4, <3>5
    <3>7. book'.realized \in Int /\ book.realized \in Int
      BY <1>4, <1>5, BookFields
    <3> QED
      BY <3>6, <3>7
  <2> QED
    BY <1>2, <1>4, <1>6, <2>3, <2>4, <2>5, <1>1, BreakevenElsewhere
<1>13. CASE SoldShort(s, o)
  <2> DEFINE p == NewPosition(o.qty, open, o.stop, o.target)
  <2>1. /\ book'.longs[s] = Flat /\ book'.shorts[s] = p /\ book' # book
    BY <1>2, <1>5, <1>10, <1>13, SellShortEffect DEF SoldShort
  <2>2. Open(p) /\ Exact(p) /\ p.stop = o.stop /\ p.target = o.target /\ p.last = open
    <3>1. PICK qty, stop, target : qty = o.qty /\ stop = o.stop /\ target = o.target
      OBVIOUS
    <3>2. /\ open \in Nat \ {0}
          /\ qty \in Nat \ {0} /\ stop \in Nat \ {0} /\ target \in Nat
      BY <1>2, <3>1
    <3> DEFINE new == NewPosition(qty, open, stop, target)
    <3>3. /\ new \in Position /\ Open(new) /\ Priced(new) /\ Exact(new) /\ AvgPrice(new) = open
          /\ new.qty = qty /\ new.stop = stop /\ new.target = target /\ new.last = open
      BY <3>2, NewIsExact
    <3> QED
      BY <3>1, <3>3
  <2> HIDE DEF p
  <2>3. replaced /\ IsOpen(book', s)
    BY <1>13, <2>1, <2>2 DEF SoldShort, IsOpen
  <2>4. trail'[s] = NoTrail
    <3>1. s \in DOMAIN Forget(book', trail)
      BY <1>2 DEF Forget
    <3> HIDE DEF replaced
    <3> QED
      BY <1>2, <2>3, <3>1
  <2>5. o.stop > open /\ (o.target # NoTarget => o.target < open)
    BY <1>3, <1>13 DEF SoldShort
  <2>6. p.target # NoTarget => p.stop > p.target /\ p.last > p.target
    BY <1>2, <2>2, <2>5
  <2>7. KeptShort
    BY <1>9, <2>1, <2>2, <2>4, <2>6 DEF ShortKept
  <2>8. KeptLong /\ HasPaid
    BY <2>1, <2>3, FlatIsClosed
  <2> QED
    BY <1>2, <1>4, <1>6, <2>7, <2>8, <1>1, BreakevenElsewhere
<1>14. CASE SoldLong(s, o)
  <2>1. /\ Open(long) /\ o.qty <= long.qty
        /\ book'.longs[s] = Reduce(long, o.qty) /\ book'.shorts[s] = Flat
        /\ book'.realized - book.realized = o.qty * open - Basis(long, o.qty)
    BY <1>2, <1>5, <1>14, SellLongEffect DEF SoldLong
  <2>2. ~replaced
    BY <2>1, FlatIsClosed
  <2>3. KeptLong
    <3> SUFFICES ASSUME s \notin added', Open(book'.longs[s])
                 PROVE  LongKept(book'.longs[s], trail'[s])
      OBVIOUS
    <3> DEFINE p == Reduce(long, o.qty)
    <3>1. IsOpen(book', s)
      BY DEF IsOpen
    <3>2. LongKept(long, trail[s])
      BY <1>7, <1>8, <2>1, <2>2, <3>1
    <3>3. Exact(long)
      BY <3>2 DEF LongKept
    <3>4. /\ Exact(p) /\ AvgPrice(p) = AvgPrice(long)
          /\ p.stop = long.stop /\ p.target = long.target /\ p.last = long.last
      BY <1>2, <1>5, <2>1, <3>3, Reduced
    <3>5. trail'[s].moved => trail[s].moved
      BY <1>2, <1>4, <1>9, <3>1
    <3>6. book'.longs[s] = p
      BY <2>1
    <3> HIDE DEF p, long
    <3> QED
      BY <3>2, <3>4, <3>5, <3>6 DEF LongKept
  <2>4. KeptShort
    BY <2>1, FlatIsClosed
  <2>5. HasPaid
    <3> SUFFICES ASSUME trail[s].moved, s \notin added
                 PROVE  book'.realized >= book.realized
      OBVIOUS
    <3>1. Exact(long) /\ long.stop >= AvgPrice(long)
      BY <1>8, <2>1 DEF LongKept
    <3>2. AvgPrice(long) \in Nat /\ long.stop \in Int
      BY <1>5, <3>1 DEF Exact, Position
    <3>3. open >= AvgPrice(long)
      BY <1>2, <1>3, <2>1, <3>1, <3>2
    <3>4. o.qty * open - o.qty * AvgPrice(long) >= 0
      BY <1>2, <1>5, <3>1, <3>3, Repaid
    <3>5. Basis(long, o.qty) = o.qty * AvgPrice(long)
      BY <1>2, <1>5, <2>1, <3>1, ExactParts
    <3>6. book'.realized - book.realized >= 0
      BY <2>1, <3>4, <3>5
    <3>7. book'.realized \in Int /\ book.realized \in Int
      BY <1>4, <1>5, BookFields
    <3> QED
      BY <3>6, <3>7
  <2> QED
    BY <1>2, <1>4, <1>6, <2>3, <2>4, <2>5, <1>1, BreakevenElsewhere
<1>15. CASE book' = book
  <2>1. ~replaced
    BY <1>15
  <2>2. IsOpen(book', s) => (s \in added => s \in added') /\ (trail'[s].moved => trail[s].moved)
    BY <1>2, <1>4, <1>7, <1>9, <2>1
  <2>3. KeptLong
    <3> SUFFICES ASSUME s \notin added', Open(long)
                 PROVE  LongKept(long, trail'[s])
      BY <1>15
    <3> QED
      BY <1>8, <1>15, <2>2 DEF IsOpen, LongKept
  <2>4. KeptShort
    <3> SUFFICES ASSUME s \notin added', Open(short)
                 PROVE  ShortKept(short, trail'[s])
      BY <1>15
    <3> QED
      BY <1>8, <1>15, <2>2 DEF IsOpen, ShortKept
  <2>5. HasPaid
    BY <1>15
  <2> QED
    BY <1>2, <1>4, <1>6, <2>3, <2>4, <2>5, <1>1, BreakevenElsewhere
<1> QED
  BY <1>2, <1>11, <1>12, <1>13, <1>14, <1>15

(* Each step keeps what breakeven rests on, and loses nothing by it.        *)
LEMMA BreakevenStep ==
  ASSUME Frictionless, BacktestInv, Breakeven, [BacktestNext]_engineVars
  PROVE  /\ Breakeven'
         /\ \A s \in Symbols :
              trail[s].moved /\ s \notin added /\ IsOpen(book, s) /\ ~IsOpen(book', s)
                => book'.realized >= book.realized
<1> USE DEF BacktestInv
<1> DEFINE Loses(u) == /\ trail[u].moved /\ u \notin added /\ IsOpen(book, u) /\ ~IsOpen(book', u)
                       /\ ~(book'.realized >= book.realized)
<1>1. ASSUME NEW s \in Symbols, OnlyAt(book, book', s), ~Loses(s)
      PROVE  \A u \in Symbols : ~Loses(u)
  BY <1>1 DEF OnlyAt, IsOpen
<1>2. CASE Quiet
  <2>1. Breakeven'
    BY <1>2 DEF Breakeven, Quiet, IsOpen
  <2> QED
    BY <1>2, <2>1 DEF Quiet
<1>3. ASSUME NEW s \in Symbols, Exits(s)
      PROVE  Breakeven' /\ \A u \in Symbols : ~Loses(u)
  <2>1. ExitsOf(s) /\ bars' = bars /\ added' = {u \in added : IsOpen(book', u)}
    BY <1>3 DEF Exits
  <2>2. OnlyAt(book, book', s) /\ IsOpen(book, s) /\ Sound(book)
    BY <2>1, ExitsEffect, ExitsBooks DEF BacktestTypeOK
  <2>3. \A u \in Symbols \ {s} : IsOpen(book', u) =>
          trail'[u] = trail[u] /\ (u \in added => u \in added')
    <3>1. PICK hung : trail' = Forget(book', [trail EXCEPT ![s] = hung])
      BY <2>1, ExitsBooks
    <3>2. trail \in [Symbols -> Trails]
      BY DEF BacktestTypeOK, Trails
    <3> QED
      BY <2>1, <3>1, <3>2 DEF Forget
  <2>4. s \in added /\ IsOpen(book', s) => s \in added'
    BY <2>1
  <2>5. /\ s \notin added' /\ Open(book'.longs[s]) => LongKept(book'.longs[s], trail'[s])
        /\ s \notin added' /\ Open(book'.shorts[s]) => ShortKept(book'.shorts[s], trail'[s])
        /\ ~Loses(s)
    <3>1. CASE s \in added
      BY <2>4, <3>1 DEF IsOpen
    <3>2. CASE s \notin added /\ Open(book.longs[s])
      <4>1. LongKept(book.longs[s], trail[s])
        BY <3>2 DEF Breakeven
      <4> QED
        BY <2>1, <3>2, <4>1, ExitLongBreakeven
    <3>3. CASE s \notin added /\ Open(book.shorts[s])
      <4>1. ShortKept(book.shorts[s], trail[s])
        BY <3>3 DEF Breakeven
      <4> QED
        BY <2>1, <3>3, <4>1, ExitShortBreakeven
    <3> QED
      BY <2>2, <3>1, <3>2, <3>3 DEF IsOpen
  <2> HIDE DEF Loses
  <2>6. Breakeven'
    BY <2>2, <2>3, <2>5, BreakevenElsewhere
  <2> QED
    BY <1>1, <2>2, <2>5, <2>6
<1>4. ASSUME NEW s \in Symbols, NEW px \in Nat \ {0}, Marks(s, px)
      PROVE  Breakeven' /\ \A u \in Symbols : ~Loses(u)
  <2>1. Breakeven' /\ OnlyAt(book, book', s) /\ ~Loses(s)
    BY <1>4, MarkBreakeven
  <2> HIDE DEF Loses
  <2> QED
    BY <1>1, <2>1
<1>5. CASE PlaceOrder
  <2>1. pending.symbol \in Symbols
    BY <1>5, PlaceOrderIs
  <2>2. Breakeven' /\ OnlyAt(book, book', pending.symbol) /\ ~Loses(pending.symbol)
    BY <1>5, OrderBreakeven
  <2>3. \A u \in Symbols : ~Loses(u)
    <3> HIDE DEF Loses
    <3> QED
      BY <1>1, <2>1, <2>2
  <2> QED
    BY <2>2, <2>3
<1> QED
  BY <1>2, <1>3, <1>4, <1>5, StepsAre

(* Without charges and slippage, a trade that was moved to breakeven never  *)
(* loses, however it ends.                                                  *)
THEOREM BreakevenHolds ==
  ASSUME Frictionless
  PROVE  BacktestSpec => NoLossAfterBreakeven
<1>1. BacktestInit => Breakeven
  BY FlatIsClosed DEF BacktestInit, Breakeven
<1>2. BacktestInv /\ Breakeven /\ [BacktestNext]_engineVars => Breakeven'
  BY BreakevenStep
<1>3. BacktestSpec => []Breakeven
  BY <1>1, <1>2, BacktestInvariant, PTL DEF BacktestSpec
<1>4. BacktestInv /\ Breakeven /\ [BacktestNext]_engineVars =>
        \A s \in Symbols :
          trail[s].moved /\ s \notin added /\ IsOpen(book, s) /\ ~IsOpen(book', s)
            => book'.realized >= book.realized
  BY BreakevenStep
<1> QED
  BY <1>3, <1>4, BacktestInvariant, PTL DEF BacktestSpec, NoLossAfterBreakeven
=============================================================================
