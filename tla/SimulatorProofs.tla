---------------------------- MODULE SimulatorProofs ----------------------------
(***************************************************************************)
(* Proofs about the simulator, for every universe, price and signal, any    *)
(* number of fills and every charge model: the log, the counters and the    *)
(* summary agree with the broker, whenever the simulator is started and     *)
(* stopped.                                                                 *)
(***************************************************************************)
EXTENDS Simulator, SumTheorems, TLAPS

-----------------------------------------------------------------------------
(* The account.  The simulator only buys, and closes what it bought as a    *)
(* whole, so there is a book of longs, and their costs are known.           *)

LongBook(b) ==
  /\ b \in [cash: Int, realized: Int, trades: Nat,
            longs: [Symbols -> Position], shorts: [Symbols -> {Flat}]]
  /\ \A s \in Symbols : ~Open(b.longs[s]) => b.longs[s] = Flat

Costs(b) == SumFunction([s \in Symbols |-> b.longs[s].cost])

(* Cash and positions, less what was realized.                              *)
Worth(b) == b.cash + Costs(b) - b.realized

(* Only the last price of a position is another.                            *)
SameDeal(p, q) ==
  p.qty = q.qty /\ p.cost = q.cost /\ p.stop = q.stop /\ p.target = q.target

(* A call of the broker that fills nothing ...                              *)
Untouched(b, c) ==
  /\ LongBook(c)
  /\ c.cash = b.cash /\ c.realized = b.realized /\ c.trades = b.trades
  /\ \A s \in Symbols : SameDeal(b.longs[s], c.longs[s])

(* ... and one that closes a position.                                      *)
ClosedOut(b, c, s) ==
  /\ LongBook(c)
  /\ Open(b.longs[s])
  /\ c.longs[s] = Flat
  /\ \A u \in Symbols \ {s} : SameDeal(b.longs[u], c.longs[u])
  /\ c.trades = b.trades + 1
  /\ c.cash - c.realized = b.cash - b.realized + b.longs[s].cost

(* What a sale of a whole position around a price makes.                    *)
Result(pos, price) ==
  LET fill == ApplySlippage(price, "SELL")
  IN  pos.qty * fill - pos.cost - ComputeCharges("SELL", pos.qty, fill, FALSE)

SoldAt(b, c, s, price) == c.realized = b.realized + Result(b.longs[s], price)

(* An automatic exit sells at the stop or at the target, wherever the price *)
(* is by then.                                                              *)
AutoExit(b, c, s, px) ==
  LET pos == b.longs[s]
  IN  \/ px <= pos.stop /\ SoldAt(b, c, s, pos.stop)
      \/ px >= pos.target /\ SoldAt(b, c, s, pos.target)

(* A position that is flat is closed and free.                              *)
LEMMA FlatIsPosition == Flat \in Position /\ ~Open(Flat) /\ Flat.cost = 0 /\ Flat.qty = 0
  BY DEF Flat, Position, Open, NoTarget

(* A fill is whole.                                                         *)
LEMMA FillType ==
  ASSUME NEW price \in Int, NEW side
  PROVE  ApplySlippage(price, side) \in Int
<1>1. Exec.slippage_bps \in Nat
  BY SimulatorAssumption
<1>2. (price * Exec.slippage_bps) \div 10000 \in Int
  BY <1>1
<1> QED
  BY <1>2 DEF ApplySlippage

(* So are charges.                                                          *)
LEMMA ChargesType ==
  ASSUME NEW side, NEW qty \in Int, NEW price \in Int, NEW cover
  PROVE  ComputeCharges(side, qty, price, cover) \in Int
<1>1. /\ Exec.brokerage \in Int /\ Exec.min_brokerage \in Int
      /\ Exec.stt_bps \in Int /\ Exec.levy_bps \in Int /\ Exec.stamp_bps \in Int
  BY SimulatorAssumption
<1>2. qty * price \in Int
  OBVIOUS
<1>3. /\ (qty * price) \div 1000 \in Int
      /\ ((qty * price) * Exec.stt_bps) \div 10000 \in Int
      /\ ((qty * price) * Exec.levy_bps) \div 10000 \in Int
      /\ ((qty * price) * Exec.stamp_bps) \div 10000 \in Int
  BY <1>1, <1>2
<1> QED
  BY <1>1, <1>3 DEF ComputeCharges

(* What closing a long does to a book, written out.                         *)
LEMMA CloseLongIs ==
  ASSUME NEW b, NEW s, NEW qty, NEW fill, NEW fee
  PROVE  CloseLong(b, s, qty, fill, fee) =
           [cash |-> b.cash + (qty * fill - fee),
            realized |-> b.realized + (qty * fill - Basis(b.longs[s], qty) - fee),
            trades |-> b.trades + 1,
            longs |-> [b.longs EXCEPT ![s] = Reduce(b.longs[s], qty)],
            shorts |-> b.shorts]
  BY DEF CloseLong, WithLong, Realize

(* Closing a whole position gives its cost back, with what it earned.       *)
LEMMA ExitClosesOut ==
  ASSUME NEW b, LongBook(b), NEW s \in Symbols, Open(b.longs[s]), NEW price \in Int
  PROVE  /\ ClosedOut(b, ExitLong(b, s, b.longs[s].qty, price), s)
         /\ SoldAt(b, ExitLong(b, s, b.longs[s].qty, price), s, price)
<1> DEFINE pos == b.longs[s]
           fill == ApplySlippage(price, "SELL")
           fee == ComputeCharges("SELL", pos.qty, fill, FALSE)
           c == ExitLong(b, s, pos.qty, price)
<1>1. pos \in Position /\ pos.qty \in Nat /\ pos.cost \in Int
  BY DEF LongBook, Position
<1>2. fill \in Int /\ fee \in Int /\ pos.qty * fill \in Int
  <2>1. fill \in Int
    BY FillType
  <2>2. pos.qty \in Int
    BY <1>1
  <2> HIDE DEF fill, pos
  <2>3. fee \in Int
    BY <2>1, <2>2, ChargesType
  <2> HIDE DEF fee
  <2> QED
    BY <2>1, <2>2, <2>3
<1>3. Reduce(pos, pos.qty) = Flat /\ Basis(pos, pos.qty) = pos.cost
  BY <1>1 DEF Reduce, Basis
<1>4. c = [cash |-> b.cash + (pos.qty * fill - fee),
           realized |-> b.realized + (pos.qty * fill - pos.cost - fee),
           trades |-> b.trades + 1,
           longs |-> [b.longs EXCEPT ![s] = Flat], shorts |-> b.shorts]
  <2>1. c = [cash |-> b.cash + (pos.qty * fill - fee),
             realized |-> b.realized + (pos.qty * fill - Basis(pos, pos.qty) - fee),
             trades |-> b.trades + 1,
             longs |-> [b.longs EXCEPT ![s] = Reduce(pos, pos.qty)], shorts |-> b.shorts]
    <3>1. c = CloseLong(b, s, pos.qty, fill, fee)
      BY DEF ExitLong
    <3> HIDE DEF c, fill, fee
    <3> QED
      BY <3>1, CloseLongIs
  <2> HIDE DEF c, fill, fee
  <2> QED
    BY <1>3, <2>1
<1>9. Result(pos, price) = pos.qty * fill - pos.cost - fee
  BY DEF Result
<1> HIDE DEF fill, fee, c
<1>5. LongBook(c)
  BY <1>1, <1>2, <1>4, FlatIsPosition DEF LongBook
<1>6. c.cash - c.realized = b.cash - b.realized + pos.cost
  BY <1>1, <1>2, <1>4 DEF LongBook
<1>7. c.longs[s] = Flat /\ \A u \in Symbols \ {s} : c.longs[u] = b.longs[u]
  BY <1>4 DEF LongBook
<1>8. c.trades = b.trades + 1 /\ c.realized = b.realized + (pos.qty * fill - pos.cost - fee)
  BY <1>4
<1>10. ClosedOut(b, c, s)
  BY <1>5, <1>6, <1>7, <1>8 DEF ClosedOut, SameDeal
<1>11. SoldAt(b, c, s, price)
  BY <1>8, <1>9 DEF SoldAt
<1> QED
  BY <1>10, <1>11 DEF c

(* A tick fills nothing or closes the position of its symbol.               *)
LEMMA MarkedEffect ==
  ASSUME NEW b, LongBook(b), NEW s \in Symbols, NEW px \in Int
  PROVE  \/ Untouched(b, Marked(b, s, px))
         \/ ClosedOut(b, Marked(b, s, px), s) /\ AutoExit(b, Marked(b, s, px), s, px)
<1> DEFINE m == MarkToMarket(b, s, px)
           c == MaybeExitLong(m, s)
           pos == b.longs[s]
<1>1. ~Open(b.shorts[s])
  BY FlatIsPosition DEF LongBook
<1>2. m = [b EXCEPT !.longs = [b.longs EXCEPT ![s] = IF Open(pos) THEN [pos EXCEPT !.last = px] ELSE pos],
                    !.shorts = [b.shorts EXCEPT ![s] = b.shorts[s]]]
  BY <1>1 DEF MarkToMarket, WithLong, WithShort, LongBook
<1>3. pos \in Position
  BY DEF LongBook
<1>4. /\ m.cash = b.cash /\ m.realized = b.realized /\ m.trades = b.trades /\ m.shorts = b.shorts
      /\ m.longs \in [Symbols -> Position]
      /\ \A u \in Symbols \ {s} : m.longs[u] = b.longs[u]
      /\ SameDeal(pos, m.longs[s])
      /\ Open(pos) => m.longs[s].last = px
      /\ ~Open(pos) => m.longs[s] = pos
      /\ DOMAIN m = {"cash", "realized", "trades", "longs", "shorts"}
  <2>1. [pos EXCEPT !.last = px] \in Position
    BY <1>3 DEF Position
  <2>2. SameDeal(pos, [pos EXCEPT !.last = px]) /\ [pos EXCEPT !.last = px].last = px
    BY <1>3 DEF Position, SameDeal
  <2> DEFINE new == IF Open(pos) THEN [pos EXCEPT !.last = px] ELSE pos
  <2>3. /\ new \in Position /\ SameDeal(pos, new)
        /\ Open(pos) => new.last = px
        /\ ~Open(pos) => new = pos
    BY <1>3, <2>1, <2>2 DEF SameDeal
  <2> HIDE DEF new
  <2>4. m.longs = [b.longs EXCEPT ![s] = new]
    BY <1>2 DEF LongBook, new
  <2>5. m.shorts = b.shorts
    BY <1>2 DEF LongBook
  <2>6. /\ m.cash = b.cash /\ m.realized = b.realized /\ m.trades = b.trades
        /\ DOMAIN m = {"cash", "realized", "trades", "longs", "shorts"}
    BY <1>2 DEF LongBook
  <2> HIDE DEF m
  <2> QED
    BY <2>3, <2>4, <2>5, <2>6 DEF LongBook
<1>5. LongBook(m)
  <2>1. m = [cash |-> m.cash, realized |-> m.realized, trades |-> m.trades,
             longs |-> m.longs, shorts |-> m.shorts]
    BY <1>2 DEF LongBook
  <2> HIDE DEF m
  <2> QED
    BY <1>4, <2>1 DEF LongBook, Open, SameDeal
<1>6. Untouched(b, m)
  BY <1>4, <1>5 DEF Untouched, SameDeal
<1>7. Marked(b, s, px) = MaybeExitShort(c, s)
  BY DEF Marked
<1>8. CASE c = m
  <2>1. MaybeExitShort(m, s) = m
    BY <1>1, <1>4 DEF MaybeExitShort
  <2> QED
    BY <1>6, <1>7, <1>8, <2>1
<1>9. CASE c # m
  <2>1. PICK price \in Int :
          /\ Open(m.longs[s]) /\ c = ExitLong(m, s, m.longs[s].qty, price)
          /\ \/ m.longs[s].last <= m.longs[s].stop /\ price = m.longs[s].stop
             \/ m.longs[s].last >= m.longs[s].target /\ price = m.longs[s].target
    <3>1. m.longs[s].stop \in Int /\ m.longs[s].target \in Int
      BY <1>4 DEF Position
    <3> HIDE DEF m
    <3> QED
      BY <1>9, <3>1 DEF MaybeExitLong
  <2>2. ClosedOut(m, c, s) /\ SoldAt(m, c, s, price)
    BY <1>5, <2>1, ExitClosesOut
  <2>3. ~Open(c.shorts[s])
    BY <2>2, FlatIsPosition DEF ClosedOut, LongBook
  <2>4. MaybeExitShort(c, s) = c
    BY <2>3 DEF MaybeExitShort
  <2>5. ClosedOut(b, c, s)
    <3> HIDE DEF m, c
    <3> QED
      BY <1>4, <2>2 DEF ClosedOut, Open, SameDeal
  <2>6. Open(pos) /\ m.longs[s].last = px /\ m.longs[s].stop = pos.stop /\ m.longs[s].target = pos.target
    BY <1>4, <2>1 DEF Open, SameDeal
  <2>7. Result(m.longs[s], price) = Result(pos, price)
    BY <1>4 DEF Result, SameDeal
  <2>8. SoldAt(b, c, s, price)
    BY <1>4, <2>2, <2>7 DEF SoldAt
  <2>9. AutoExit(b, c, s, px)
    <3> HIDE DEF m, c
    <3> QED
      BY <2>1, <2>6, <2>8 DEF AutoExit
  <2> QED
    BY <1>7, <2>4, <2>5, <2>9
<1> QED
  BY <1>8, <1>9

(* There are finitely many symbols.                                         *)
LEMMA SymbolsFinite == IsFiniteSet(Symbols)
  BY SimulatorAssumption

(* What is held cost a whole number.                                        *)
LEMMA CostsType == \A b : LongBook(b) => Costs(b) \in Int
<1> SUFFICES ASSUME NEW b, LongBook(b) PROVE Costs(b) \in Int
  OBVIOUS
<1> DEFINE f == [s \in Symbols |-> b.longs[s].cost]
<1>1. DOMAIN f = Symbols /\ \A s \in Symbols : f[s] \in Int
  BY DEF LongBook, Position
<1>2. Costs(b) = SumFunctionOnSet(f, Symbols)
  BY DEF Costs, SumFunction
<1>3. SumFunctionOnSet(f, Symbols) \in Int
  <2> HIDE DEF f
  <2> QED
    BY <1>1, SumOfElements, SymbolsFinite
<1> QED
  BY <1>2, <1>3

(* Books that differ in one position differ by its cost.                    *)
LEMMA CostsDiffer ==
  ASSUME NEW b, LongBook(b), NEW c, LongBook(c), NEW s \in Symbols,
         \A u \in Symbols \ {s} : c.longs[u].cost = b.longs[u].cost
  PROVE  Costs(c) - Costs(b) = c.longs[s].cost - b.longs[s].cost
<1> DEFINE f == [u \in Symbols |-> b.longs[u].cost]
           g == [u \in Symbols |-> c.longs[u].cost]
<1>1. \A u \in Symbols : g[u] \in Int /\ f[u] \in Int
  BY DEF LongBook, Position
<1>2. \A u \in Symbols \ {s} : g[u] = f[u]
  OBVIOUS
<1>3. f[s] = b.longs[s].cost /\ g[s] = c.longs[s].cost
  OBVIOUS
<1>4. Costs(b) = SumFunctionOnSet(f, Symbols) /\ Costs(c) = SumFunctionOnSet(g, Symbols)
  BY DEF Costs, SumFunction
<1>5. SumFunctionOnSet(g, Symbols) - SumFunctionOnSet(f, Symbols) = g[s] - f[s]
  <2> HIDE DEF f, g
  <2> QED
    BY <1>1, <1>2, SumsDiffer, SymbolsFinite
<1> QED
  BY <1>3, <1>4, <1>5

(* Without shorts, what is held are longs.                                  *)
LEMMA HeldLongs == \A b : LongBook(b) => Held(b) = {s \in Symbols : Open(b.longs[s])}
  BY FlatIsPosition DEF LongBook, Held

(* Neither moves any money but what is realized.                            *)
LEMMA UntouchedKeeps ==
  ASSUME NEW b, LongBook(b), NEW c, Untouched(b, c)
  PROVE  Worth(c) = Worth(b) /\ Held(c) = Held(b)
<1>1. [s \in Symbols |-> c.longs[s].cost] = [s \in Symbols |-> b.longs[s].cost]
  BY DEF Untouched, SameDeal
<1>2. Costs(c) = Costs(b)
  BY <1>1 DEF Costs
<1>3. Held(c) = Held(b)
  <2>1. \A s \in Symbols : Open(c.longs[s]) <=> Open(b.longs[s])
    BY DEF Untouched, Open, SameDeal
  <2>2. LongBook(c)
    BY DEF Untouched
  <2> QED
    BY <2>1, <2>2, HeldLongs
<1> QED
  BY <1>2, <1>3 DEF Worth, Untouched

(* Closing turns costs and what was realized into cash.                     *)
LEMMA ClosedOutKeeps ==
  ASSUME NEW b, LongBook(b), NEW c, NEW s \in Symbols, ClosedOut(b, c, s)
  PROVE  Worth(c) = Worth(b) /\ Held(c) = Held(b) \ {s} /\ s \in Held(b)
<1>1. c.longs[s].cost = 0
  BY FlatIsPosition DEF ClosedOut
<1>2. Costs(c) - Costs(b) = c.longs[s].cost - b.longs[s].cost
  BY CostsDiffer DEF ClosedOut, SameDeal
<1>3. Costs(b) \in Int /\ Costs(c) \in Int
  BY CostsType DEF ClosedOut
<1>4. /\ b.cash \in Int /\ b.realized \in Int /\ c.cash \in Int /\ c.realized \in Int
      /\ b.longs[s].cost \in Int
      /\ c.cash - c.realized = b.cash - b.realized + b.longs[s].cost
  BY DEF ClosedOut, LongBook, Position
<1>5. b.cash + Costs(b) - b.realized = c.cash + Costs(c) - c.realized
  <2>1. Costs(c) - Costs(b) = 0 - b.longs[s].cost
    BY <1>1, <1>2
  <2>2. Costs(c) = Costs(b) - b.longs[s].cost
    BY <1>3, <1>4, <2>1
  <2>3. (c.cash - c.realized) + Costs(c) = (b.cash - b.realized) + Costs(b)
    BY <1>3, <1>4, <2>2
  <2> QED
    BY <1>3, <1>4, <2>3
<1>6. Held(c) = Held(b) \ {s} /\ s \in Held(b)
  BY HeldLongs, FlatIsPosition DEF ClosedOut, Open, SameDeal
<1> QED
  BY <1>5, <1>6 DEF Worth

(* What an account without positions is worth is its cash.                  *)
LEMMA EmptyIsCash ==
  ASSUME NEW b, LongBook(b), Held(b) = {}
  PROVE  Equity(b) = b.cash /\ Worth(b) = b.cash - b.realized
<1> DEFINE f == [s \in Symbols |-> b.longs[s].qty * b.longs[s].last]
           g == [s \in Symbols |-> b.shorts[s].cost - b.shorts[s].qty * b.shorts[s].last]
           h == [s \in Symbols |-> b.longs[s].cost]
<1>1. \A s \in Symbols : b.longs[s] = Flat /\ b.shorts[s] = Flat
  BY HeldLongs DEF LongBook
<1>2. \A s \in Symbols : f[s] = 0 /\ g[s] = 0 /\ h[s] = 0
  BY <1>1 DEF Flat
<1>3. DOMAIN f = Symbols /\ DOMAIN g = Symbols /\ DOMAIN h = Symbols
  OBVIOUS
<1>4. /\ Equity(b) = b.cash + SumFunction(f) + SumFunction(g)
      /\ Worth(b) = b.cash + SumFunction(h) - b.realized
  BY DEF Equity, Worth, Costs
<1>5. SumFunction(f) = 0 /\ SumFunction(g) = 0 /\ SumFunction(h) = 0
  <2> HIDE DEF f, g, h
  <2> QED
    BY <1>2, <1>3, SumOfZeros, SymbolsFinite DEF SumFunction
<1> QED
  BY <1>4, <1>5 DEF LongBook

(* The equity is whole.                                                     *)
LEMMA EquityType == \A b : LongBook(b) => Equity(b) \in Int
<1> SUFFICES ASSUME NEW b, LongBook(b) PROVE Equity(b) \in Int
  OBVIOUS
<1> DEFINE f == [s \in Symbols |-> b.longs[s].qty * b.longs[s].last]
           g == [s \in Symbols |-> b.shorts[s].cost - b.shorts[s].qty * b.shorts[s].last]
<1>1. \A s \in Symbols : b.longs[s] \in Position /\ b.shorts[s] = Flat
  BY DEF LongBook
<1>2. \A s \in Symbols : f[s] \in Int /\ g[s] \in Int
  BY <1>1, FlatIsPosition DEF Position
<1>3. SumFunctionOnSet(f, Symbols) \in Int /\ SumFunctionOnSet(g, Symbols) \in Int
  <2> HIDE DEF f, g
  <2> QED
    BY <1>2, SumOfElements, SymbolsFinite
<1>4. Equity(b) = b.cash + SumFunctionOnSet(f, Symbols) + SumFunctionOnSet(g, Symbols)
  BY DEF Equity, SumFunction
<1> HIDE DEF f, g
<1> QED
  BY <1>3, <1>4 DEF LongBook

(* Closing a symbol closes it out if it is held.                            *)
LEMMA ClosedEffect ==
  ASSUME NEW b, LongBook(b), NEW s \in Symbols, latestPrices[s] \in Int
  PROVE  /\ s \in Held(b) => /\ ClosedOut(b, Closed(b, s), s)
                            /\ SoldAt(b, Closed(b, s), s, latestPrices[s])
         /\ s \notin Held(b) => Closed(b, s) = b
<1>1. ~Open(b.shorts[s])
  BY FlatIsPosition DEF LongBook
<1> QED
  BY <1>1, ExitClosesOut, HeldLongs DEF Closed

(* A fill of the simulator opens a position, for its cost and a charge.     *)
LEMMA BuyEffect ==
  ASSUME LongBook(book), latestPrices \in [Symbols -> Int], entryFees \in Int,
         NEW s \in Symbols \ Held(book), NEW qty \in Nat \ {0},
         NEW stop \in Int, NEW target \in Int, BuyLong(s, qty, stop, target)
  PROVE  /\ LongBook(book') /\ entryFees' \in Int /\ latestPrices' = latestPrices
         /\ book'.longs[s].qty = qty
         /\ book'.longs[s].cost = qty * ApplySlippage(latestPrices[s], "BUY")
         /\ book'.longs[s].stop = stop /\ book'.longs[s].target = target
         /\ book'.trades = book.trades
         /\ \A u \in Symbols \ {s} : book'.longs[u] = book.longs[u]
         /\ Worth(book)' + entryFees' = Worth(book) + entryFees
         /\ Held(book)' = Held(book) \cup {s}
<1> DEFINE fill == ApplySlippage(latestPrices[s], "BUY")
           fee == ComputeCharges("BUY", qty, fill, FALSE)
           new == NewPosition(qty, fill, stop, target)
<1>1. ~Open(book.longs[s]) /\ book.longs[s] = Flat
  BY HeldLongs DEF LongBook
<1>2. fill \in Int
  BY FillType
<1>3. fee \in Int /\ qty * fill \in Int
  <2> HIDE DEF fill
  <2>1. qty \in Int
    OBVIOUS
  <2>2. fee \in Int
    BY <1>2, <2>1, ChargesType
  <2> HIDE DEF fee
  <2> QED
    BY <1>2, <2>1, <2>2
<1>4. /\ new \in Position /\ new.qty = qty /\ new.cost = qty * fill /\ Open(new)
      /\ new.stop = stop /\ new.target = target
  <2> HIDE DEF fill
  <2> QED
    BY <1>2, <1>3 DEF NewPosition, Position, Open
<1>5. /\ book' = OpenOrAddLong(Pay(book, qty * fill + fee), s, qty, fill, stop, target)
      /\ entryFees' = entryFees + fee /\ latestPrices' = latestPrices
  BY DEF BuyLong, Fill
<1> HIDE DEF fee, fill
<1>6. book' = [cash |-> book.cash - (qty * fill + fee), realized |-> book.realized,
               trades |-> book.trades, longs |-> [book.longs EXCEPT ![s] = new],
               shorts |-> book.shorts]
  <2>1. book = [cash |-> book.cash, realized |-> book.realized, trades |-> book.trades,
                longs |-> book.longs, shorts |-> book.shorts]
    BY DEF LongBook
  <2>2. Pay(book, qty * fill + fee) =
          [cash |-> book.cash - (qty * fill + fee), realized |-> book.realized,
           trades |-> book.trades, longs |-> book.longs, shorts |-> book.shorts]
    BY <2>1 DEF Pay
  <2>3. book' = WithLong(Pay(book, qty * fill + fee), s, new)
    BY <1>1, <1>5, <2>2 DEF OpenOrAddLong
  <2> HIDE DEF new
  <2> QED
    BY <2>2, <2>3 DEF WithLong
<1> HIDE DEF new
<1>7. LongBook(book')
  BY <1>3, <1>4, <1>6 DEF LongBook
<1>8. /\ book'.longs[s] = new
      /\ \A u \in Symbols \ {s} : book'.longs[u] = book.longs[u]
      /\ book'.cash = book.cash - (qty * fill + fee) /\ book'.realized = book.realized
      /\ book'.trades = book.trades
  BY <1>6 DEF LongBook
<1>9. Costs(book)' = Costs(book) + qty * fill
  <2> DEFINE c == book'
  <2>1. LongBook(c) /\ s \in Symbols /\ \A u \in Symbols \ {s} : c.longs[u].cost = book.longs[u].cost
    BY <1>7, <1>8
  <2>2. c.longs[s].cost = qty * fill /\ book.longs[s].cost = 0
    BY <1>1, <1>4, <1>8, FlatIsPosition
  <2>3. Costs(c) = Costs(book)'
    BY DEF Costs
  <2> HIDE DEF c
  <2>4. Costs(c) - Costs(book) = c.longs[s].cost - book.longs[s].cost
    BY <2>1, CostsDiffer
  <2>5. Costs(c) \in Int /\ Costs(book) \in Int
    BY <2>1, CostsType
  <2> QED
    BY <1>3, <2>2, <2>3, <2>4, <2>5
<1>10. Worth(book)' + entryFees' = Worth(book) + entryFees
  <2>1. Costs(book) \in Int /\ book.cash \in Int /\ book.realized \in Int
    BY CostsType DEF LongBook
  <2> QED
    BY <1>3, <1>5, <1>8, <1>9, <2>1 DEF Worth
<1>11. Held(book)' = Held(book) \cup {s}
  BY <1>4, <1>7, <1>8, HeldLongs
<1> QED
  BY <1>3, <1>4, <1>5, <1>7, <1>8, <1>10, <1>11 DEF fill

-----------------------------------------------------------------------------
(* The log                                                                  *)

Reasons == {"time_exit", "sl_or_target", "eod_squareoff"}
Entries ==
  [symbol: Symbols, qty: Nat, entry: Int, exit: Int, pnl: Int, status: Reasons \cup {"OPEN"}]

(* One open entry for a symbol at most, every position has one, and it has  *)
(* its quantity.                                                            *)
OneEntry(l) ==
  \A i, j \in DOMAIN l :
    IsOpenEntry(l[i]) /\ IsOpenEntry(l[j]) /\ l[i].symbol = l[j].symbol => i = j

Logged(b, l) ==
  /\ l \in Seq(Entries)
  /\ OneEntry(l)
  /\ Held(b) \subseteq OpenInLog(l)
  /\ \A i \in DOMAIN l :
       IsOpenEntry(l[i]) /\ l[i].symbol \in Held(b) => l[i].qty = b.longs[l[i].symbol].qty

(* A symbol is open in the log if an entry of it is.                        *)
LEMMA InLog ==
  ASSUME NEW l, NEW s
  PROVE  s \in OpenInLog(l) <=> \E i \in DOMAIN l : IsOpenEntry(l[i]) /\ l[i].symbol = s
  BY DEF OpenInLog

(* The log of a book is that of one with the same positions.                *)
LEMMA UntouchedLogged ==
  ASSUME NEW b, LongBook(b), NEW c, Untouched(b, c), NEW l, Logged(b, l)
  PROVE  Logged(c, l)
<1>1. Held(c) = Held(b) /\ Held(b) \subseteq Symbols
  BY UntouchedKeeps DEF Held
<1> QED
  BY <1>1 DEF Logged, Untouched, SameDeal

(* A log may lag behind an exit.                                            *)
LEMMA ClosedOutLogged ==
  ASSUME NEW b, LongBook(b), NEW c, NEW s \in Symbols, ClosedOut(b, c, s),
         NEW l, Logged(b, l)
  PROVE  Logged(c, l)
<1>1. Held(c) = Held(b) \ {s} /\ Held(b) \subseteq Symbols
  BY ClosedOutKeeps DEF Held
<1> QED
  BY <1>1 DEF Logged, ClosedOut, SameDeal

(* A closed entry is one of its symbol and quantity.                        *)
LEMMA ClosedEntryIs ==
  ASSUME NEW e \in Entries, NEW px \in Int, NEW reason \in Reasons
  PROVE  LET k == ClosedEntry(e, px, reason)
         IN  /\ k \in Entries /\ ~IsOpenEntry(k)
             /\ k.symbol = e.symbol /\ k.qty = e.qty /\ k.entry = e.entry
             /\ k.exit = px /\ k.pnl = (px - e.entry) * e.qty /\ k.status = reason
<1>1. e.entry \in Int /\ e.qty \in Int
  BY DEF Entries
<1>2. (px - e.entry) * e.qty \in Int
  BY <1>1
<1>3. reason # "OPEN"
  BY DEF Reasons
<1> QED
  BY <1>2, <1>3 DEF ClosedEntry, Entries, IsOpenEntry

(* Closing entries of symbols that are no longer held.                      *)
LEMMA CloseEntriesEffect ==
  ASSUME NEW b, NEW l, Logged(b, l), NEW S, NEW reason \in Reasons,
         latestPrices \in [Symbols -> Nat]
  PROVE  LET k == CloseEntries(l, S, reason)
         IN  /\ k \in Seq(Entries) /\ OneEntry(k)
             /\ OpenInLog(k) = OpenInLog(l) \ S
             /\ DOMAIN k = DOMAIN l
             /\ \A i \in DOMAIN k : IsOpenEntry(k[i]) => k[i] = l[i]
             /\ \A i \in DOMAIN k :
                  k[i] = IF IsOpenEntry(l[i]) /\ l[i].symbol \in S
                         THEN ClosedEntry(l[i], latestPrices[l[i].symbol], reason) ELSE l[i]
<1> DEFINE k == CloseEntries(l, S, reason)
<1>1. DOMAIN k = DOMAIN l /\ DOMAIN l = 1..Len(l) /\ Len(l) \in Nat
  BY DEF CloseEntries, Logged
<1>2. ASSUME NEW i \in DOMAIN l, IsOpenEntry(l[i])
      PROVE  IsFirstOpen(l, i)
  BY <1>1, <1>2 DEF Logged, OneEntry, IsFirstOpen
<1>3. ASSUME NEW i \in DOMAIN l
      PROVE  /\ IsOpenEntry(l[i]) /\ l[i].symbol \in S =>
                   k[i] = ClosedEntry(l[i], latestPrices[l[i].symbol], reason)
             /\ ~(IsOpenEntry(l[i]) /\ l[i].symbol \in S) => k[i] = l[i]
             /\ l[i] \in Entries
  <2>1. l[i] \in Entries
    BY <1>1 DEF Logged
  <2>2. k[i] = IF l[i].symbol \in S /\ IsFirstOpen(l, i)
               THEN ClosedEntry(l[i], latestPrices[l[i].symbol], reason)
               ELSE l[i]
    BY DEF CloseEntries
  <2>3. IsFirstOpen(l, i) => IsOpenEntry(l[i])
    BY DEF IsFirstOpen
  <2> HIDE DEF k
  <2> QED
    BY <1>2, <2>1, <2>2, <2>3
<1> HIDE DEF k
<1>5. ASSUME NEW i \in DOMAIN l
      PROVE  /\ k[i] \in Entries
             /\ IsOpenEntry(k[i]) <=> IsOpenEntry(l[i]) /\ l[i].symbol \notin S
  <2>1. CASE IsOpenEntry(l[i]) /\ l[i].symbol \in S
    <3>1. k[i] = ClosedEntry(l[i], latestPrices[l[i].symbol], reason) /\ l[i] \in Entries
      BY <1>3, <2>1
    <3>2. latestPrices[l[i].symbol] \in Int
      BY <3>1 DEF Entries
    <3> HIDE DEF k
    <3> QED
      BY <2>1, <3>1, <3>2, ClosedEntryIs
  <2>2. CASE ~(IsOpenEntry(l[i]) /\ l[i].symbol \in S)
    <3>1. k[i] = l[i] /\ l[i] \in Entries
      BY <1>3, <2>2
    <3> QED
      BY <2>2, <3>1
  <2> QED
    BY <2>1, <2>2
<1>6. \A i \in DOMAIN l : IsOpenEntry(k[i]) => k[i] = l[i]
  BY <1>3, <1>5
<1>7. k \in Seq(Entries)
  <2>1. k = [i \in 1..Len(l) |-> k[i]]
    BY <1>1 DEF CloseEntries, k
  <2> QED
    BY <1>1, <1>5, <2>1
<1>8. OneEntry(k)
  BY <1>1, <1>5, <1>6 DEF OneEntry, Logged
<1>9. OpenInLog(k) = OpenInLog(l) \ S
  BY <1>1, <1>5, <1>6 DEF OpenInLog
<1> QED
  BY <1>1, <1>3, <1>6, <1>7, <1>8, <1>9 DEF k

(* It catches up with symbols that are held no longer.                      *)
LEMMA ClosingLogged ==
  ASSUME NEW b, NEW l, Logged(b, l), NEW S, NEW reason \in Reasons, Held(b) \cap S = {},
         latestPrices \in [Symbols -> Nat]
  PROVE  Logged(b, CloseEntries(l, S, reason))
<1> DEFINE k == CloseEntries(l, S, reason)
<1>1. /\ k \in Seq(Entries) /\ OneEntry(k)
      /\ OpenInLog(k) = OpenInLog(l) \ S
      /\ DOMAIN k = DOMAIN l
      /\ \A i \in DOMAIN k : IsOpenEntry(k[i]) => k[i] = l[i]
  BY CloseEntriesEffect
<1> HIDE DEF k
<1> QED
  BY <1>1 DEF Logged, k

(* It does not lag behind an entry.                                         *)
LEMMA AppendLogged ==
  ASSUME NEW b, NEW l, Logged(b, l), NEW c, NEW s \in Symbols, NEW qty \in Nat,
         NEW price \in Int,
         s \notin OpenInLog(l), Held(c) = Held(b) \cup {s}, c.longs[s].qty = qty,
         \A u \in Symbols \ {s} : c.longs[u] = b.longs[u]
  PROVE  LET k == Append(l, OpenEntry(s, qty, price))
         IN  Logged(c, k) /\ OpenInLog(k) = OpenInLog(l) \cup {s}
<1> DEFINE e == OpenEntry(s, qty, price)
           k == Append(l, e)
<1>1. e \in Entries /\ IsOpenEntry(e) /\ e.symbol = s /\ e.qty = qty
  BY DEF OpenEntry, Entries, IsOpenEntry, NoPrice
<1>2. l \in Seq(Entries) /\ Len(l) \in Nat /\ DOMAIN l = 1..Len(l)
  BY DEF Logged
<1> HIDE DEF e
<1>3. /\ k \in Seq(Entries)
      /\ DOMAIN k = DOMAIN l \cup {Len(l) + 1}
      /\ Len(l) + 1 \notin DOMAIN l
      /\ k[Len(l) + 1] = e
      /\ \A i \in DOMAIN l : k[i] = l[i]
  BY <1>1, <1>2
<1> HIDE DEF k
<1>4. OneEntry(k)
  BY <1>1, <1>3, InLog DEF OneEntry, Logged
<1>5. OpenInLog(k) = OpenInLog(l) \cup {s}
  BY <1>1, <1>3 DEF OpenInLog
<1>6. \A i \in DOMAIN l : l[i].symbol \in Symbols
  <2>1. \A i \in DOMAIN l : l[i] \in Entries
    BY <1>2
  <2> QED
    BY <2>1 DEF Entries
<1>7. \A i \in DOMAIN l : IsOpenEntry(l[i]) => l[i].symbol # s
  BY InLog
<1>8. \A i \in DOMAIN k :
        IsOpenEntry(k[i]) /\ k[i].symbol \in Held(c) => k[i].qty = c.longs[k[i].symbol].qty
  BY <1>1, <1>3, <1>6, <1>7 DEF Logged
<1> QED
  BY <1>3, <1>4, <1>5, <1>8 DEF Logged, k, e
-----------------------------------------------------------------------------
(* The inductive invariant                                                  *)

Tracked == {s \in Symbols : ticks[s] # NotTracked}

Tasks ==
  {"none", "begin", "loading", "dead", "sleep", "prices", "ageing", "sync",
   "entries", "squareoff", "finish"}

SimTypeOK ==
  /\ LongBook(book)
  /\ latestPrices \in [Symbols -> Nat]
  /\ entryFees \in Int
  /\ running \in BOOLEAN
  /\ mode \in {"live", "replay"}
  /\ task \in Tasks
  /\ ticks \in [Symbols -> Nat \cup {NotTracked}]
  /\ step \in Nat
  /\ loaded \subseteq Symbols
  /\ cursor \in Nat \ {0}
  /\ equity \in Int

(* Money only goes into positions, results and the charges of entries.      *)
Ledger == Worth(book) + entryFees = InitialCash

(* What the task can be at, while the simulator is in a state.              *)
Stages ==
  /\ ~running => task = "none"
  /\ phase = "done" => ~running /\ mode = "replay" /\ Held(book) = {}
  /\ task \in {"loading", "squareoff", "finish"} => mode = "replay"
  /\ task = "ageing" => mode = "live"
  /\ task \in {"begin", "loading", "dead"} => log = <<>>
  /\ task = "sync" => cursor = 1
  /\ task = "entries" /\ mode = "replay" => step < Steps - LastSteps
  /\ task = "squareoff" => \A i \in 1..Len(Universe) : i < cursor => Universe[i] \notin Held(book)
  /\ task = "finish" => Held(book) = {}

(* Between the exits of a tick and the next prices, nothing is open in the  *)
(* log but what the broker holds.                                           *)
InStep ==
  task \in {"begin", "loading", "dead", "sleep", "entries", "squareoff", "finish"}
    \/ phase = "done"
  => OpenInLog(log) \subseteq Held(book)

(* Whatever is held is counted; what is counted is open in the log.         *)
Counted ==
  mode = "live" /\ task \in {"sleep", "prices", "ageing", "sync", "entries"} =>
    /\ Held(book) \subseteq Tracked
    /\ Tracked \subseteq OpenInLog(log)
    /\ \A s \in Tracked : ticks[s] < MaxTicks

SimInv ==
  /\ SimTypeOK
  /\ Ledger
  /\ Logged(book, log)
  /\ Stages
  /\ InStep
  /\ Counted

(* The universe lists all symbols.                                          *)
LEMMA UniverseIsSymbols ==
  /\ Len(Universe) \in Nat
  /\ \A i \in 1..Len(Universe) : Universe[i] \in Symbols
  /\ \A s \in Symbols : \E i \in 1..Len(Universe) : Universe[i] = s
<1>1. Universe \in Seq(Symbols) /\ {Universe[i] : i \in DOMAIN Universe} = Symbols
  BY SimulatorAssumption
<1>2. DOMAIN Universe = 1..Len(Universe) /\ Len(Universe) \in Nat
  BY <1>1
<1> QED
  BY <1>1, <1>2

(* A new account holds nothing and is worth its cash.                       *)
LEMMA NewAccountFacts ==
  LongBook(NewAccount) /\ Held(NewAccount) = {} /\ Worth(NewAccount) = InitialCash
<1>1. InitialCash \in Int
  BY SimulatorAssumption
<1>2. LongBook(NewAccount)
  BY <1>1, FlatIsPosition DEF LongBook, NewAccount
<1>3. Held(NewAccount) = {}
  BY <1>2, HeldLongs, FlatIsPosition DEF NewAccount
<1>4. NewAccount.cash = InitialCash /\ NewAccount.realized = 0
  BY DEF NewAccount
<1> QED
  BY <1>1, <1>2, <1>3, <1>4, EmptyIsCash

(* An empty log is that of an empty account.                                *)
LEMMA NothingLogged ==
  ASSUME NEW b, Held(b) = {}
  PROVE  Logged(b, <<>>) /\ OpenInLog(<<>>) = {}
<1>1. <<>> \in Seq(Entries) /\ DOMAIN <<>> = {}
  OBVIOUS
<1> QED
  BY <1>1 DEF Logged, OneEntry, OpenInLog

(* A broker that is gone leaves the log as it was.                          *)
LEMMA ForgottenLogged ==
  ASSUME NEW b, NEW l, Logged(b, l)
  PROVE  Logged(NewAccount, l)
  BY NewAccountFacts DEF Logged

(* The invariant holds at first.                                            *)
LEMMA SimInitial == SimInit => SimInv
<1> SUFFICES ASSUME SimInit PROVE SimInv
  OBVIOUS
<1>1. book = NewAccount /\ log = <<>> /\ entryFees = 0
  BY DEF SimInit
<1>2. SimTypeOK
  <2>1. LongBook(book)
    BY <1>1, NewAccountFacts
  <2>2. latestPrices \in [Symbols -> Nat] /\ ticks \in [Symbols -> Nat \cup {NotTracked}]
    BY DEF SimInit, NoPrice
  <2>3. running \in BOOLEAN
    BY Zenon DEF SimInit
  <2>4. /\ mode = "live" /\ task = "none" /\ step = 0 /\ loaded = {} /\ cursor = 1
        /\ equity = 0
    BY DEF SimInit
  <2> QED
    BY <1>1, <2>1, <2>2, <2>3, <2>4 DEF SimTypeOK, Tasks
<1>3. Ledger
  BY <1>1, NewAccountFacts, SimulatorAssumption DEF Ledger
<1>4. Logged(book, log)
  BY <1>1, NewAccountFacts, NothingLogged
<1>5. Stages /\ InStep /\ Counted
  BY DEF SimInit, Stages, InStep, Counted
<1> QED
  BY <1>2, <1>3, <1>4, <1>5 DEF SimInv

(* A start keeps it.                                                        *)
LEMMA StartStep ==
  ASSUME SimInv, NEW m \in {"live", "replay"}, Start(m)
  PROVE  SimInv'
<1>1. /\ book' = NewAccount /\ entryFees' = 0 /\ log' = <<>>
      /\ running' = TRUE /\ mode' = m /\ phase' = "none" /\ task' = "begin"
      /\ latestPrices' = [s \in Symbols |-> NoPrice] /\ step' = 0 /\ loaded' = {}
      /\ cursor' = 1 /\ equity' = 0 /\ ticks' = ticks
  BY DEF Start, Forgotten
<1>2. SimTypeOK'
  <2>1. latestPrices' \in [Symbols -> Nat]
    BY <1>1 DEF NoPrice
  <2>2. LongBook(book')
    BY <1>1, NewAccountFacts
  <2> QED
    BY <1>1, <2>1, <2>2 DEF SimInv, SimTypeOK, Tasks
<1>3. Ledger'
  BY <1>1, NewAccountFacts, SimulatorAssumption DEF Ledger
<1>4. Logged(book', log') /\ OpenInLog(log') = {}
  BY <1>1, NewAccountFacts, NothingLogged
<1>5. Stages' /\ InStep' /\ Counted'
  BY <1>1, <1>4 DEF Stages, InStep, Counted
<1> QED
  BY <1>2, <1>3, <1>4, <1>5 DEF SimInv

(* So does a stop, at any await.                                            *)
LEMMA StopStep ==
  ASSUME SimInv, Stop
  PROVE  SimInv'
<1>1. /\ book' = NewAccount /\ entryFees' = 0 /\ log' = log
      /\ running /\ running' = FALSE /\ mode' = mode /\ phase' = phase /\ task' = "none"
      /\ latestPrices' = [s \in Symbols |-> NoPrice] /\ step' = 0 /\ loaded' = {}
      /\ cursor' = 1 /\ equity' = 0 /\ ticks' = ticks
  BY DEF Stop, Forgotten
<1>2. SimTypeOK'
  <2>1. latestPrices' \in [Symbols -> Nat]
    BY <1>1 DEF NoPrice
  <2>2. LongBook(book')
    BY <1>1, NewAccountFacts
  <2>3. mode' \in {"live", "replay"} /\ ticks' \in [Symbols -> Nat \cup {NotTracked}]
    BY <1>1 DEF SimInv, SimTypeOK
  <2>4. running' \in BOOLEAN
    BY <1>1, Zenon
  <2>5. /\ entryFees' \in Int /\ task' \in Tasks /\ step' \in Nat /\ loaded' \subseteq Symbols
        /\ cursor' \in Nat \ {0} /\ equity' \in Int
    BY <1>1 DEF Tasks
  <2> QED
    BY <2>1, <2>2, <2>3, <2>4, <2>5 DEF SimTypeOK
<1>3. Ledger'
  BY <1>1, NewAccountFacts, SimulatorAssumption DEF Ledger
<1>4. Logged(book', log')
  BY <1>1, ForgottenLogged DEF SimInv
<1>5. Stages' /\ InStep' /\ Counted'
  BY <1>1 DEF SimInv, Stages, InStep, Counted
<1> QED
  BY <1>2, <1>3, <1>4, <1>5 DEF SimInv

(* The steps that leave the account and the log alone.                      *)
LEMMA LedgerSame ==
  ASSUME SimInv, book' = book, entryFees' = entryFees, log' = log
  PROVE  /\ LongBook(book') /\ entryFees' \in Int /\ Ledger' /\ Logged(book', log')
         /\ Held(book') = Held(book) /\ OpenInLog(log') = OpenInLog(log)
  BY DEF SimInv, SimTypeOK, Ledger

(* So does the task that begins.                                            *)
LEMMA BeginStep ==
  ASSUME SimInv, Begin
  PROVE  SimInv'
<1>1. /\ book' = book /\ entryFees' = entryFees /\ log' = log /\ latestPrices' = latestPrices
      /\ task = "begin" /\ running' = running /\ mode' = mode /\ step' = step
      /\ cursor' = cursor /\ equity' = equity
  BY DEF Begin, account
<1>2. \/ /\ mode = "live" /\ ticks' = [s \in Symbols |-> NotTracked] /\ loaded' = Symbols
         /\ task' = "sleep" /\ phase' = phase
      \/ /\ mode = "replay" /\ phase' = "loading" /\ task' = "loading"
         /\ ticks' = ticks /\ loaded' = loaded
  BY DEF Begin
<1>3. LongBook(book') /\ entryFees' \in Int /\ Ledger' /\ Logged(book', log')
  BY <1>1, LedgerSame
<1>4. Held(book') = {} /\ OpenInLog(log') = {} /\ log' = <<>>
  <2>1. log = <<>> /\ Held(book) \subseteq OpenInLog(log)
    BY <1>1 DEF SimInv, Stages, Logged
  <2>2. OpenInLog(<<>>) = {}
    BY DEF OpenInLog
  <2> QED
    BY <1>1, <2>1, <2>2
<1>5. SimTypeOK'
  <2>1. ticks' \in [Symbols -> Nat \cup {NotTracked}] /\ loaded' \subseteq Symbols
    BY <1>2 DEF SimInv, SimTypeOK
  <2> QED
    BY <1>1, <1>2, <1>3, <2>1 DEF SimInv, SimTypeOK, Tasks
<1>6. Stages' /\ InStep'
  BY <1>1, <1>2, <1>4 DEF SimInv, Stages, InStep
<1>7. Counted'
  <2>1. ticks' = [s \in Symbols |-> NotTracked] => Tracked' = {}
    BY DEF Tracked
  <2> QED
    BY <1>1, <1>2, <1>4, <2>1 DEF Counted
<1> QED
  BY <1>3, <1>5, <1>6, <1>7 DEF SimInv

(* So does loading the bars.                                                *)
LEMMA LoadStep ==
  ASSUME SimInv, Load
  PROVE  SimInv'
<1>1. /\ book' = book /\ entryFees' = entryFees /\ log' = log /\ latestPrices' = latestPrices
      /\ task = "loading" /\ mode' = mode /\ step' = step /\ ticks' = ticks
      /\ cursor' = cursor /\ equity' = equity /\ loaded' \subseteq Symbols
      /\ \/ phase' = "replaying" /\ task' = "sleep" /\ running' = running
         \/ phase' = "error" /\ running' = FALSE /\ task' = "none"
  BY DEF Load, account
<1>2. LongBook(book') /\ entryFees' \in Int /\ Ledger' /\ Logged(book', log')
  BY <1>1, LedgerSame
<1>3. mode = "replay" /\ OpenInLog(log) \subseteq Held(book)
  BY <1>1 DEF SimInv, Stages, InStep
<1>4. SimTypeOK'
  BY <1>1, <1>2 DEF SimInv, SimTypeOK, Tasks
<1>5. Stages' /\ InStep' /\ Counted'
  BY <1>1, <1>3 DEF SimInv, Stages, InStep, Counted
<1> QED
  BY <1>2, <1>4, <1>5 DEF SimInv

(* So does a task that dies.                                                *)
LEMMA DiesStep ==
  ASSUME SimInv, Dies
  PROVE  SimInv'
<1>1. /\ book' = book /\ entryFees' = entryFees /\ log' = log /\ latestPrices' = latestPrices
      /\ task = "loading" /\ task' = "dead" /\ mode' = mode /\ phase' = phase
      /\ running' = running /\ step' = step /\ ticks' = ticks
      /\ cursor' = cursor /\ equity' = equity /\ loaded' = loaded
  BY DEF Dies, account, shared
<1>2. LongBook(book') /\ entryFees' \in Int /\ Ledger' /\ Logged(book', log')
  BY <1>1, LedgerSame
<1>3. SimTypeOK'
  BY <1>1, <1>2 DEF SimInv, SimTypeOK, Tasks
<1>4. Stages' /\ InStep' /\ Counted'
  BY <1>1 DEF SimInv, Stages, InStep, Counted
<1> QED
  BY <1>2, <1>3, <1>4 DEF SimInv

(* So does one that wakes up.                                               *)
LEMMA WakeUpStep ==
  ASSUME SimInv, WakeUp
  PROVE  SimInv'
<1>1. /\ book' = book /\ entryFees' = entryFees /\ log' = log /\ latestPrices' = latestPrices
      /\ task = "sleep" /\ task' = "prices" /\ mode' = mode /\ phase' = phase
      /\ running' = running /\ step' = step /\ ticks' = ticks
      /\ cursor' = cursor /\ equity' = equity /\ loaded' = loaded
  BY DEF WakeUp, account, shared
<1>2. LongBook(book') /\ entryFees' \in Int /\ Ledger' /\ Logged(book', log')
  BY <1>1, LedgerSame
<1>3. SimTypeOK'
  BY <1>1, <1>2 DEF SimInv, SimTypeOK, Tasks
<1>4. Stages' /\ InStep'
  BY <1>1 DEF SimInv, Stages, InStep
<1>5. Counted'
  BY <1>1 DEF SimInv, Counted, Tracked
<1> QED
  BY <1>2, <1>3, <1>4, <1>5 DEF SimInv

(* What a tick does to the account, and to what the log says of it.         *)
LEMMA MarkedKeeps ==
  ASSUME NEW b, LongBook(b), NEW l, Logged(b, l), NEW s \in Symbols, NEW px \in Int
  PROVE  LET c == Marked(b, s, px)
         IN  LongBook(c) /\ Worth(c) = Worth(b) /\ Held(c) \subseteq Held(b) /\ Logged(c, l)
<1> DEFINE c == Marked(b, s, px)
<1>1. Untouched(b, c) \/ ClosedOut(b, c, s)
  BY MarkedEffect
<1> HIDE DEF c
<1>2. ASSUME Untouched(b, c)
      PROVE  LongBook(c) /\ Worth(c) = Worth(b) /\ Held(c) \subseteq Held(b) /\ Logged(c, l)
  <2>1. LongBook(c)
    BY <1>2 DEF Untouched
  <2> QED
    BY <1>2, <2>1, UntouchedKeeps, UntouchedLogged
<1>3. ASSUME ClosedOut(b, c, s)
      PROVE  LongBook(c) /\ Worth(c) = Worth(b) /\ Held(c) \subseteq Held(b) /\ Logged(c, l)
  <2>1. LongBook(c)
    BY <1>3 DEF ClosedOut
  <2>2. Worth(c) = Worth(b) /\ Held(c) = Held(b) \ {s}
    BY <1>3, ClosedOutKeeps
  <2>3. Logged(c, l)
    BY <1>3, ClosedOutLogged
  <2> QED
    BY <2>1, <2>2, <2>3
<1> QED
  BY <1>1, <1>2, <1>3 DEF c

(* A market order that closes a position, and its entry in the log.         *)
LEMMA ClosedKeeps ==
  ASSUME NEW b, LongBook(b), NEW l, Logged(b, l), NEW s \in Symbols,
         latestPrices \in [Symbols -> Nat], NEW reason \in Reasons
  PROVE  LET c == Closed(b, s)
             k == IF s \in Held(b) THEN CloseEntry(l, s, reason) ELSE l
         IN  /\ LongBook(c) /\ Worth(c) = Worth(b) /\ Held(c) = Held(b) \ {s}
             /\ Logged(c, k)
             /\ OpenInLog(k) = OpenInLog(l) \ (Held(b) \cap {s})
<1> DEFINE c == Closed(b, s)
           k == CloseEntries(l, {s}, reason)
<1>0. latestPrices[s] \in Int
  OBVIOUS
<1>1. CASE s \notin Held(b)
  <2>1. c = b
    BY <1>0, <1>1, ClosedEffect
  <2> QED
    BY <1>1, <2>1
<1>2. CASE s \in Held(b)
  <2>1. ClosedOut(b, c, s)
    BY <1>0, <1>2, ClosedEffect
  <2> HIDE DEF c
  <2>2. LongBook(c)
    BY <2>1 DEF ClosedOut
  <2>3. Worth(c) = Worth(b) /\ Held(c) = Held(b) \ {s}
    BY <2>1, ClosedOutKeeps
  <2>4. Logged(c, l)
    BY <2>1, ClosedOutLogged
  <2>5. Logged(c, k)
    <3>1. Held(c) \cap {s} = {}
      BY <2>3
    <3> QED
      BY <2>4, <3>1, ClosingLogged
  <2>6. OpenInLog(k) = OpenInLog(l) \ {s}
    BY CloseEntriesEffect
  <2> HIDE DEF k
  <2>7. k = CloseEntry(l, s, reason)
    BY DEF k, CloseEntry
  <2> QED
    BY <1>2, <2>2, <2>3, <2>5, <2>6, <2>7 DEF c
<1> QED
  BY <1>1, <1>2

(* So does a price with its exits.                                          *)
LEMMA PriceStep ==
  ASSUME SimInv, Price
  PROVE  SimInv'
<1> DEFINE s == Universe[cursor]
<1>1. /\ entryFees' = entryFees /\ log' = log
      /\ task = "prices" /\ task' = "prices" /\ mode' = mode /\ phase' = phase
      /\ running' = running /\ step' = step /\ ticks' = ticks
      /\ cursor' = cursor + 1 /\ equity' = equity /\ loaded' = loaded
      /\ cursor <= Len(Universe)
  BY DEF Price, shared
<1>2. s \in Symbols
  BY <1>1, UniverseIsSymbols DEF SimInv, SimTypeOK
<1>3. \/ \E px \in Prices : /\ latestPrices' = [latestPrices EXCEPT ![s] = px]
                            /\ book' = Marked(book, s, px)
      \/ latestPrices' = latestPrices /\ book' = book
  BY DEF Price
<1>4. /\ LongBook(book') /\ Worth(book') = Worth(book) /\ Held(book') \subseteq Held(book)
      /\ Logged(book', log) /\ latestPrices' \in [Symbols -> Nat]
  <2>1. LongBook(book) /\ Logged(book, log) /\ latestPrices \in [Symbols -> Nat]
    BY DEF SimInv, SimTypeOK
  <2>2. CASE latestPrices' = latestPrices /\ book' = book
    BY <2>1, <2>2
  <2>3. ASSUME NEW px \in Prices, latestPrices' = [latestPrices EXCEPT ![s] = px],
               book' = Marked(book, s, px)
        PROVE  /\ LongBook(book') /\ Worth(book') = Worth(book) /\ Held(book') \subseteq Held(book)
               /\ Logged(book', log) /\ latestPrices' \in [Symbols -> Nat]
    <3>1. px \in Nat /\ px \in Int
      BY SimulatorAssumption
    <3>2. latestPrices' \in [Symbols -> Nat]
      BY <1>2, <2>1, <2>3, <3>1
    <3> HIDE DEF s
    <3> QED
      BY <1>2, <2>1, <2>3, <3>1, <3>2, MarkedKeeps
  <2> QED
    BY <1>3, <2>2, <2>3
<1> HIDE DEF s
<1>5. SimTypeOK'
  BY <1>1, <1>4 DEF SimInv, SimTypeOK, Tasks
<1>6. Ledger'
  BY <1>1, <1>4 DEF SimInv, Ledger
<1>7. Stages' /\ InStep'
  BY <1>1, <1>4 DEF SimInv, Stages, InStep
<1>8. Counted'
  BY <1>1, <1>4 DEF SimInv, Counted, Tracked
<1> QED
  BY <1>1, <1>4, <1>5, <1>6, <1>7, <1>8 DEF SimInv

(* So does the end of the prices.                                           *)
LEMMA PricedStep ==
  ASSUME SimInv, Priced
  PROVE  SimInv'
<1>1. /\ book' = book /\ entryFees' = entryFees /\ log' = log /\ latestPrices' = latestPrices
      /\ task = "prices" /\ task' = (IF mode = "live" THEN "ageing" ELSE "sync")
      /\ mode' = mode /\ phase' = phase
      /\ running' = running /\ step' = step /\ ticks' = ticks
      /\ cursor' = 1 /\ equity' = equity /\ loaded' = loaded
  BY DEF Priced, account, shared
<1>2. LongBook(book') /\ entryFees' \in Int /\ Ledger' /\ Logged(book', log')
  BY <1>1, LedgerSame
<1>3. SimTypeOK'
  BY <1>1, <1>2 DEF SimInv, SimTypeOK, Tasks
<1>4. Stages' /\ InStep'
  BY <1>1 DEF SimInv, Stages, InStep
<1>5. Counted'
  BY <1>1 DEF SimInv, Counted, Tracked
<1> QED
  BY <1>2, <1>3, <1>4, <1>5 DEF SimInv

(* So does the end of the exits by time.                                    *)
LEMMA AgedStep ==
  ASSUME SimInv, Aged
  PROVE  SimInv'
<1>1. /\ book' = book /\ entryFees' = entryFees /\ log' = log /\ latestPrices' = latestPrices
      /\ task = "ageing" /\ task' = "sync" /\ mode' = mode /\ phase' = phase
      /\ running' = running /\ step' = step /\ ticks' = ticks
      /\ cursor' = 1 /\ equity' = equity /\ loaded' = loaded
  BY DEF Aged, account, shared
<1>2. LongBook(book') /\ entryFees' \in Int /\ Ledger' /\ Logged(book', log')
  BY <1>1, LedgerSame
<1>3. SimTypeOK'
  BY <1>1, <1>2 DEF SimInv, SimTypeOK, Tasks
<1>4. Stages' /\ InStep'
  BY <1>1 DEF SimInv, Stages, InStep
<1>5. Counted'
  BY <1>1 DEF SimInv, Counted, Tracked
<1> QED
  BY <1>2, <1>3, <1>4, <1>5 DEF SimInv

(* So does an exit by time.                                                 *)
LEMMA AgeStep ==
  ASSUME SimInv, Age
  PROVE  SimInv'
<1> DEFINE s   == Universe[cursor]
           n   == ticks[s] + 1
           due == n >= MaxTicks
<1>1. /\ entryFees' = entryFees /\ latestPrices' = latestPrices
      /\ task = "ageing" /\ task' = "ageing" /\ mode' = mode /\ phase' = phase
      /\ running' = running /\ step' = step
      /\ cursor' = cursor + 1 /\ equity' = equity /\ loaded' = loaded
      /\ cursor <= Len(Universe)
  BY DEF Age
<1>2. s \in Symbols
  BY <1>1, UniverseIsSymbols DEF SimInv, SimTypeOK
<1>3. LongBook(book) /\ Logged(book, log) /\ latestPrices \in [Symbols -> Nat]
      /\ ticks \in [Symbols -> Nat \cup {NotTracked}] /\ MaxTicks \in Nat \ {0}
  <2>1. MaxTicks \in Nat \ {0}
    BY SimulatorAssumption
  <2> QED
    BY <2>1 DEF SimInv, SimTypeOK
<1>4. mode = "live" /\ phase # "done"
  BY <1>1 DEF SimInv, Stages
<1>5. /\ Held(book) \subseteq Tracked /\ Tracked \subseteq OpenInLog(log)
      /\ \A u \in Tracked : ticks[u] < MaxTicks
  BY <1>1, <1>4 DEF SimInv, Counted
<1>6. \/ /\ ticks[s] # NotTracked /\ due
         /\ ticks' = [ticks EXCEPT ![s] = NotTracked]
         /\ book' = Closed(book, s)
         /\ log' = IF s \in Held(book) THEN CloseEntry(log, s, "time_exit") ELSE log
      \/ /\ ticks[s] # NotTracked /\ ~due
         /\ ticks' = [ticks EXCEPT ![s] = n] /\ book' = book /\ log' = log
      \/ ticks[s] = NotTracked /\ ticks' = ticks /\ book' = book /\ log' = log
  BY DEF Age
<1> DEFINE Goal == /\ LongBook(book') /\ Worth(book') = Worth(book) /\ Logged(book', log')
                   /\ Held(book') \subseteq Tracked' /\ Tracked' \subseteq OpenInLog(log')
                   /\ ticks' \in [Symbols -> Nat \cup {NotTracked}]
                   /\ \A u \in Tracked' : ticks'[u] < MaxTicks
<1>7. ASSUME /\ ticks[s] # NotTracked /\ due
             /\ ticks' = [ticks EXCEPT ![s] = NotTracked]
             /\ book' = Closed(book, s)
             /\ log' = IF s \in Held(book) THEN CloseEntry(log, s, "time_exit") ELSE log
      PROVE  Goal
  <2> DEFINE k == IF s \in Held(book) THEN CloseEntry(log, s, "time_exit") ELSE log
             c == Closed(book, s)
  <2>1. /\ LongBook(c) /\ Worth(c) = Worth(book) /\ Held(c) = Held(book) \ {s}
        /\ Logged(c, k) /\ OpenInLog(k) = OpenInLog(log) \ (Held(book) \cap {s})
    <3>1. "time_exit" \in Reasons
      BY DEF Reasons
    <3> HIDE DEF s
    <3> QED
      BY <1>2, <1>3, <3>1, ClosedKeeps
  <2>2. Tracked' = Tracked \ {s}
    BY <1>2, <1>3, <1>7 DEF Tracked
  <2>3. ticks' \in [Symbols -> Nat \cup {NotTracked}] /\ \A u \in Tracked' : ticks'[u] = ticks[u]
    BY <1>2, <1>3, <1>7, <2>2 DEF Tracked
  <2>4. book' = c /\ log' = k
    BY <1>7
  <2> HIDE DEF c, k, s, due
  <2> QED
    BY <1>5, <2>1, <2>2, <2>3, <2>4
<1>8. ASSUME /\ ticks[s] # NotTracked /\ ~due
             /\ ticks' = [ticks EXCEPT ![s] = n] /\ book' = book /\ log' = log
      PROVE  Goal
  <2>1. ticks[s] \in Nat /\ n \in Nat /\ n < MaxTicks
    BY <1>2, <1>3, <1>8
  <2>2. /\ ticks' \in [Symbols -> Nat \cup {NotTracked}] /\ Tracked' = Tracked
        /\ \A u \in Symbols : ticks'[u] = IF u = s THEN n ELSE ticks[u]
    BY <1>2, <1>3, <1>8, <2>1 DEF Tracked, NotTracked
  <2>3. Tracked \subseteq Symbols
    BY DEF Tracked
  <2> HIDE DEF n, s, due
  <2> QED
    BY <1>3, <1>5, <1>8, <2>1, <2>2, <2>3
<1>9. ASSUME ticks[s] = NotTracked, ticks' = ticks, book' = book, log' = log
      PROVE  Goal
  <2>1. Tracked' = Tracked
    BY <1>9 DEF Tracked
  <2> QED
    BY <1>3, <1>5, <1>9, <2>1
<1>10. Goal
  BY <1>6, <1>7, <1>8, <1>9
<1> HIDE DEF s, n, due
<1>11. SimTypeOK'
  BY <1>1, <1>10 DEF SimInv, SimTypeOK, Tasks
<1>12. Ledger'
  BY <1>1, <1>10 DEF SimInv, Ledger
<1>13. Stages' /\ InStep'
  BY <1>1, <1>4 DEF SimInv, Stages, InStep
<1>14. Counted'
  BY <1>10 DEF Counted
<1> QED
  BY <1>10, <1>11, <1>12, <1>13, <1>14 DEF SimInv

(* So does the log's synchronization.                                       *)
LEMMA SyncStep ==
  ASSUME SimInv, Sync
  PROVE  SimInv'
<1> DEFINE gone == OpenInLog(log) \ Held(book)
<1>1. /\ book' = book /\ entryFees' = entryFees /\ latestPrices' = latestPrices
      /\ log' = CloseEntries(log, gone, "sl_or_target")
      /\ ticks' = Untracked(gone)
      /\ task = "sync" /\ task' = (IF SquareOffTime THEN "squareoff" ELSE "entries")
      /\ mode' = mode /\ phase' = phase
      /\ running' = running /\ step' = step
      /\ cursor' = cursor /\ equity' = Equity(book) /\ loaded' = loaded
  BY DEF Sync, account
<1>2. LongBook(book) /\ Logged(book, log) /\ "sl_or_target" \in Reasons
      /\ latestPrices \in [Symbols -> Nat]
  BY DEF SimInv, SimTypeOK, Reasons
<1>3. /\ Logged(book, CloseEntries(log, gone, "sl_or_target"))
      /\ OpenInLog(CloseEntries(log, gone, "sl_or_target")) = OpenInLog(log) \ gone
  <2>1. Held(book) \cap gone = {}
    OBVIOUS
  <2> HIDE DEF gone
  <2> QED
    BY <1>2, <2>1, ClosingLogged, CloseEntriesEffect
<1>4. Logged(book', log') /\ OpenInLog(log') = OpenInLog(log) \cap Held(book)
  <2>1. OpenInLog(log) \ gone = OpenInLog(log) \cap Held(book)
    OBVIOUS
  <2> HIDE DEF gone
  <2> QED
    BY <1>1, <1>3, <2>1
<1>5. /\ ticks' \in [Symbols -> Nat \cup {NotTracked}]
      /\ Tracked' = Tracked \ gone
      /\ \A u \in Tracked' : ticks'[u] = ticks[u]
  <2>1. ticks \in [Symbols -> Nat \cup {NotTracked}]
    BY DEF SimInv, SimTypeOK
  <2> HIDE DEF gone
  <2> QED
    BY <1>1, <2>1 DEF Untracked, Tracked
<1>6. SimTypeOK'
  <2>1. equity' \in Int
    BY <1>1, <1>2, EquityType
  <2> QED
    BY <1>1, <1>2, <1>5, <2>1 DEF SimInv, SimTypeOK, Tasks
<1>7. Ledger'
  BY <1>1 DEF SimInv, Ledger
<1>8. phase # "done"
  BY <1>1 DEF SimInv, Stages
<1>9. Stages'
  <2>1. SquareOffTime <=> mode = "replay" /\ step >= Steps - LastSteps
    BY DEF SquareOffTime
  <2>2. /\ task' = "squareoff" => mode = "replay"
        /\ task' = "entries" /\ mode = "replay" => step < Steps - LastSteps
    <3>1. step \in Nat /\ Steps \in Nat /\ LastSteps \in Nat
      BY SimulatorAssumption DEF SimInv, SimTypeOK
    <3> QED
      BY <1>1, <2>1, <3>1
  <2>3. task' = "squareoff" =>
          \A i \in 1..Len(Universe) : i < cursor' => Universe[i] \notin Held(book')
    BY <1>1 DEF SimInv, Stages
  <2> QED
    BY <1>1, <1>8, <2>2, <2>3 DEF SimInv, Stages
<1>10. InStep'
  BY <1>1, <1>4 DEF InStep
<1>11. Counted'
  <2>1. ASSUME mode = "live"
        PROVE  /\ Held(book) \subseteq Tracked' /\ Tracked' \subseteq OpenInLog(log')
               /\ \A u \in Tracked' : ticks'[u] < MaxTicks
    <3>1. /\ Held(book) \subseteq Tracked /\ Tracked \subseteq OpenInLog(log)
          /\ \A u \in Tracked : ticks[u] < MaxTicks
      BY <1>1, <2>1 DEF SimInv, Counted
    <3> QED
      BY <1>4, <1>5, <3>1
  <2> QED
    BY <1>1, <2>1 DEF Counted
<1> QED
  BY <1>4, <1>6, <1>7, <1>9, <1>10, <1>11 DEF SimInv

(* So does the square-off, symbol by symbol.                                *)
LEMMA SquareOffStep ==
  ASSUME SimInv, SquareOff
  PROVE  SimInv'
<1> DEFINE s == Universe[cursor]
           c == Closed(book, s)
           k == IF s \in Held(book) THEN CloseEntry(log, s, "eod_squareoff") ELSE log
<1>1. /\ entryFees' = entryFees /\ latestPrices' = latestPrices
      /\ task = "squareoff" /\ task' = "squareoff" /\ mode' = mode /\ phase' = phase
      /\ running' = running /\ step' = step /\ ticks' = ticks
      /\ cursor' = cursor + 1 /\ equity' = equity /\ loaded' = loaded
      /\ cursor <= Len(Universe) /\ book' = c /\ log' = k
  BY DEF SquareOff
<1>2. s \in Symbols /\ cursor \in Nat
  BY <1>1, UniverseIsSymbols DEF SimInv, SimTypeOK
<1>3. LongBook(book) /\ Logged(book, log) /\ latestPrices \in [Symbols -> Nat]
      /\ "eod_squareoff" \in Reasons
  BY <1>2 DEF SimInv, SimTypeOK, Reasons
<1>4. /\ LongBook(c) /\ Worth(c) = Worth(book) /\ Held(c) = Held(book) \ {s}
      /\ Logged(c, k) /\ OpenInLog(k) = OpenInLog(log) \ (Held(book) \cap {s})
  <2> HIDE DEF s
  <2> QED
    BY <1>2, <1>3, ClosedKeeps
<1>5. /\ mode = "replay" /\ OpenInLog(log) \subseteq Held(book) /\ phase # "done"
      /\ \A i \in 1..Len(Universe) : i < cursor => Universe[i] \notin Held(book)
  BY <1>1 DEF SimInv, Stages, InStep
<1>6. \A i \in 1..Len(Universe) : i < cursor + 1 => Universe[i] \notin Held(c)
  <2>1. ASSUME NEW i \in 1..Len(Universe), i < cursor + 1
        PROVE  i < cursor \/ i = cursor
    BY <1>2, <2>1, UniverseIsSymbols
  <2> HIDE DEF c
  <2> QED
    BY <1>4, <1>5, <2>1
<1> HIDE DEF s, c, k
<1>7. SimTypeOK'
  BY <1>1, <1>2, <1>4 DEF SimInv, SimTypeOK, Tasks
<1>8. Ledger'
  BY <1>1, <1>4 DEF SimInv, Ledger
<1>9. Stages' /\ Counted'
  BY <1>1, <1>5, <1>6 DEF SimInv, Stages, Counted
<1>10. InStep'
  BY <1>1, <1>4, <1>5 DEF InStep
<1> QED
  BY <1>1, <1>4, <1>7, <1>8, <1>9, <1>10 DEF SimInv

(* So does the end of a tick.                                               *)
LEMMA EndTickStep ==
  ASSUME SimInv, EndTick
  PROVE  SimInv'
<1>1. /\ book' = book /\ entryFees' = entryFees /\ log' = log /\ latestPrices' = latestPrices
      /\ task \in {"entries", "squareoff"} /\ mode' = mode /\ phase' = phase
      /\ running' = running /\ ticks' = ticks
      /\ cursor' = 1 /\ equity' = 0 /\ loaded' = loaded
      /\ cursor > Len(Universe)
  BY DEF EndTick, account
<1>2. \/ mode = "live" /\ task' = "sleep" /\ step' = step
      \/ /\ mode # "live" /\ step' = step + 1
         /\ task' = IF step = Steps THEN "finish" ELSE "sleep"
  BY DEF EndTick
<1>3. LongBook(book') /\ entryFees' \in Int /\ Ledger' /\ Logged(book', log')
  BY <1>1, LedgerSame
<1>4. step \in Nat /\ cursor \in Nat /\ mode \in {"live", "replay"}
  BY DEF SimInv, SimTypeOK
<1>5. SimTypeOK'
  BY <1>1, <1>2, <1>3, <1>4 DEF SimInv, SimTypeOK, Tasks
<1>6. task' \in {"sleep", "finish"} /\ phase # "done" /\ OpenInLog(log) \subseteq Held(book)
  BY <1>1, <1>2 DEF SimInv, Stages, InStep
<1>7. task' = "finish" => mode = "replay" /\ Held(book) = {}
  <2>1. ASSUME task' = "finish"
        PROVE  mode = "replay" /\ step = Steps
    BY <1>2, <1>4, <2>1
  <2>2. ASSUME task' = "finish"
        PROVE  task = "squareoff"
    <3>1. Steps \in Nat /\ LastSteps \in Nat \ {0}
      BY SimulatorAssumption
    <3>2. task = "entries" => step < Steps - LastSteps
      BY <2>1, <2>2 DEF SimInv, Stages
    <3> QED
      BY <1>1, <2>1, <2>2, <3>1, <3>2
  <2>3. ASSUME task = "squareoff"
        PROVE  Held(book) = {}
    <3>1. \A i \in 1..Len(Universe) : Universe[i] \notin Held(book)
      BY <1>1, <1>4, <2>3, UniverseIsSymbols DEF SimInv, Stages
    <3>2. Held(book) \subseteq Symbols
      BY DEF Held
    <3> QED
      BY <3>1, <3>2, UniverseIsSymbols
  <2> QED
    BY <2>1, <2>2, <2>3
<1>8. Stages' /\ InStep'
  BY <1>1, <1>6, <1>7 DEF SimInv, Stages, InStep
<1>9. Counted'
  <2>1. mode = "live" => task = "entries"
    BY <1>1 DEF SimInv, Stages
  <2> QED
    BY <1>1, <1>6, <1>7, <2>1 DEF SimInv, Counted, Tracked
<1> QED
  BY <1>3, <1>5, <1>8, <1>9 DEF SimInv

(* So does the end of a replay.                                             *)
LEMMA FinishReplayStep ==
  ASSUME SimInv, FinishReplay
  PROVE  SimInv'
<1>1. /\ book' = book /\ entryFees' = entryFees /\ log' = log /\ latestPrices' = latestPrices
      /\ task = "finish" /\ task' = "none" /\ mode' = mode /\ phase' = "done"
      /\ running' = FALSE /\ step' = step /\ ticks' = ticks
      /\ cursor' = cursor /\ equity' = equity /\ loaded' = loaded
  BY DEF FinishReplay, account
<1>2. LongBook(book') /\ entryFees' \in Int /\ Ledger' /\ Logged(book', log')
  BY <1>1, LedgerSame
<1>3. SimTypeOK'
  BY <1>1, <1>2 DEF SimInv, SimTypeOK, Tasks
<1>4. Stages' /\ InStep' /\ Counted'
  BY <1>1 DEF SimInv, Stages, InStep, Counted
<1> QED
  BY <1>2, <1>3, <1>4 DEF SimInv

(* The simulator's quantity is a share at least.                            *)
LEMMA SimQtyType ==
  ASSUME equity \in Int, NEW signal, signal.entry \in Int, signal.stop \in Int,
         signal.side = "BUY"
  PROVE  SimQty(signal) \in Nat \ {0}
<1> DEFINE risk == RiskPerShare(signal)
           qty == IF risk = 0 THEN 1 ELSE (equity * Risk.per_trade_risk_pct) \div (100 * risk)
<1>1. risk \in Nat
  BY DEF RiskPerShare
<1>2. Risk.per_trade_risk_pct \in Nat
  BY SimulatorAssumption
<1>3. SimQty(signal) = IF qty < 1 THEN 1 ELSE qty
  BY DEF SimQty
<1>4. qty \in Int
  <2> HIDE DEF risk
  <2>1. equity * Risk.per_trade_risk_pct \in Int
    BY <1>2
  <2>2. risk # 0 => (equity * Risk.per_trade_risk_pct) \div (100 * risk) \in Int
    BY <1>1, <2>1
  <2> QED
    BY <2>2
<1> HIDE DEF qty
<1> QED
  BY <1>3, <1>4

(* A filled entry: its position is logged, and counted.                     *)
LEMMA EvaluateStep ==
  ASSUME SimInv, Evaluate
  PROVE  SimInv'
<1> DEFINE s == Universe[cursor]
<1>1. /\ task = "entries" /\ task' = "entries" /\ mode' = mode /\ phase' = phase
      /\ running' = running /\ step' = step
      /\ cursor' = cursor + 1 /\ equity' = equity /\ loaded' = loaded
      /\ cursor <= Len(Universe)
  BY DEF Evaluate
<1>2. s \in Symbols
  BY <1>1, UniverseIsSymbols DEF SimInv, SimTypeOK
<1>3. /\ OpenInLog(log) \subseteq Held(book) /\ phase # "done"
      /\ mode = "live" => /\ Held(book) \subseteq Tracked /\ Tracked \subseteq OpenInLog(log)
                          /\ \A u \in Tracked : ticks[u] < MaxTicks
  BY <1>1 DEF SimInv, Stages, InStep, Counted
<1>4. /\ LongBook(book) /\ Logged(book, log) /\ entryFees \in Int
      /\ latestPrices \in [Symbols -> Int] /\ equity \in Int
      /\ ticks \in [Symbols -> Nat \cup {NotTracked}]
  BY DEF SimInv, SimTypeOK
<1> DEFINE Goal == /\ LongBook(book') /\ entryFees' \in Int /\ latestPrices' = latestPrices
                   /\ Worth(book') + entryFees' = Worth(book) + entryFees
                   /\ Logged(book', log') /\ OpenInLog(log') \subseteq Held(book')
                   /\ ticks' \in [Symbols -> Nat \cup {NotTracked}]
                   /\ mode = "live" => /\ Held(book') \subseteq Tracked'
                                       /\ Tracked' \subseteq OpenInLog(log')
                                       /\ \A u \in Tracked' : ticks'[u] < MaxTicks
<1>5. ASSUME book' = book, latestPrices' = latestPrices, entryFees' = entryFees,
             log' = log, ticks' = ticks
      PROVE  Goal
  <2>1. Tracked' = Tracked
    BY <1>5 DEF Tracked
  <2> QED
    BY <1>3, <1>4, <1>5, <2>1
<1>6. ASSUME NEW x \in Signals, NEW qty \in Nat \ {0}, s \notin Held(book), Enter(s, qty, x)
      PROVE  Goal
  <2>1. /\ BuyLong(s, qty, x.stop, x.target)
        /\ log' = Append(log, OpenEntry(s, qty, ApplySlippage(latestPrices[s], "BUY")))
        /\ ticks' = IF mode = "live" THEN [ticks EXCEPT ![s] = 0] ELSE ticks
    BY <1>6 DEF Enter
  <2>2. x.stop \in Int /\ x.target \in Int
    BY SimulatorAssumption
  <2> HIDE DEF s
  <2>3. /\ LongBook(book') /\ entryFees' \in Int /\ latestPrices' = latestPrices
        /\ book'.longs[s].qty = qty
        /\ \A u \in Symbols \ {s} : book'.longs[u] = book.longs[u]
        /\ Worth(book') + entryFees' = Worth(book) + entryFees
        /\ Held(book') = Held(book) \cup {s}
    <3>1. s \in Symbols \ Held(book)
      BY <1>2, <1>6
    <3> QED
      BY <1>4, <2>1, <2>2, <3>1, BuyEffect
  <2>4. Logged(book', log') /\ OpenInLog(log') = OpenInLog(log) \cup {s}
    <3>1. s \notin OpenInLog(log)
      BY <1>3, <1>6
    <3>2. ApplySlippage(latestPrices[s], "BUY") \in Int
      BY <1>2, <1>4, FillType
    <3> QED
      BY <1>2, <1>4, <2>1, <2>3, <3>1, <3>2, AppendLogged
  <2>5. ticks' \in [Symbols -> Nat \cup {NotTracked}]
    BY <1>2, <1>4, <2>1
  <2>6. ASSUME mode = "live"
        PROVE  Tracked' = Tracked \cup {s} /\ \A u \in Tracked' : ticks'[u] < MaxTicks
    <3>1. MaxTicks \in Nat \ {0}
      BY SimulatorAssumption
    <3>2. \A u \in Symbols : ticks'[u] = IF u = s THEN 0 ELSE ticks[u]
      BY <1>2, <1>4, <2>1, <2>6
    <3>3. Tracked' = Tracked \cup {s}
      BY <1>2, <3>2 DEF Tracked, NotTracked
    <3>4. Tracked \subseteq Symbols
      BY DEF Tracked
    <3> QED
      BY <1>2, <1>3, <2>6, <3>1, <3>2, <3>3, <3>4
  <2> QED
    BY <1>3, <2>3, <2>4, <2>5, <2>6
<1>7. Goal
  <2>1. CASE UNCHANGED <<account, log, ticks>>
    <3>1. /\ book' = book /\ latestPrices' = latestPrices /\ entryFees' = entryFees
          /\ log' = log /\ ticks' = ticks
      BY <2>1 DEF account
    <3> QED
      BY <1>5, <3>1
  <2>2. ASSUME NEW x \in Signals, s \in loaded \ Held(book),
               Enter(s, SimQty([symbol |-> s, side |-> "BUY", stop |-> x.stop,
                                entry |-> latestPrices[s] + x.offset]), x)
        PROVE  Goal
    <3> DEFINE signal == [symbol |-> s, side |-> "BUY", stop |-> x.stop,
                          entry |-> latestPrices[s] + x.offset]
    <3>1. x.stop \in Int /\ x.offset \in Int
      BY SimulatorAssumption
    <3>2. signal.entry \in Int /\ signal.stop \in Int /\ signal.side = "BUY"
      BY <1>2, <1>4, <3>1
    <3> HIDE DEF signal
    <3>3. SimQty(signal) \in Nat \ {0}
      BY <1>4, <3>2, SimQtyType
    <3>4. Enter(s, SimQty(signal), x)
      BY <2>2 DEF signal
    <3> HIDE DEF s, Goal
    <3> QED
      BY <1>6, <2>2, <3>3, <3>4
  <2> HIDE DEF Goal
  <2> QED
    BY <2>1, <2>2 DEF Evaluate
<1> HIDE DEF s
<1>8. SimTypeOK'
  BY <1>1, <1>7 DEF SimInv, SimTypeOK, Tasks
<1>9. Ledger'
  BY <1>1, <1>7 DEF SimInv, Ledger
<1>10. Stages'
  BY <1>1, <1>3 DEF SimInv, Stages
<1>11. InStep' /\ Counted'
  BY <1>1, <1>7 DEF InStep, Counted
<1> QED
  BY <1>7, <1>8, <1>9, <1>10, <1>11 DEF SimInv

(* Nothing keeps it too.                                                    *)
LEMMA SimStutters ==
  ASSUME SimInv, UNCHANGED simVars
  PROVE  SimInv'
<1>1. /\ book' = book /\ entryFees' = entryFees /\ log' = log /\ latestPrices' = latestPrices
      /\ task' = task /\ mode' = mode /\ phase' = phase
      /\ running' = running /\ step' = step /\ ticks' = ticks
      /\ cursor' = cursor /\ equity' = equity /\ loaded' = loaded
  BY DEF simVars, account, shared, local
<1>2. LongBook(book') /\ entryFees' \in Int /\ Ledger' /\ Logged(book', log')
  BY <1>1, LedgerSame
<1>3. SimTypeOK'
  BY <1>1, <1>2 DEF SimInv, SimTypeOK
<1>4. Stages' /\ InStep'
  BY <1>1 DEF SimInv, Stages, InStep
<1>5. Counted'
  BY <1>1 DEF SimInv, Counted, Tracked
<1> QED
  BY <1>2, <1>3, <1>4, <1>5 DEF SimInv

(* One lemma above for every endpoint and every step of the task.           *)
THEOREM SimInvariant == SimSpec => []SimInv
<1>1. SimInit => SimInv
  BY SimInitial
<1>2. SimInv /\ [SimNext]_simVars => SimInv'
  <2> SUFFICES ASSUME SimInv, [SimNext]_simVars PROVE SimInv'
    OBVIOUS
  <2>1. CASE SimNext
    BY <2>1, StartStep, StopStep, BeginStep, LoadStep, DiesStep, WakeUpStep, PriceStep,
       PricedStep, AgeStep, AgedStep, SyncStep, SquareOffStep, EvaluateStep, EndTickStep,
       FinishReplayStep, Zenon DEF SimNext
  <2>2. CASE UNCHANGED simVars
    BY <2>2, SimStutters
  <2> QED
    BY <2>1, <2>2
<1> QED
  BY <1>1, <1>2, PTL DEF SimSpec

-----------------------------------------------------------------------------
(* The trades                                                               *)

Trades == [qty: Int, cost: Int, stop: Int, pnl: Int]

(* Stops and targets are prices.                                            *)
Sellable(b) == \A s \in Symbols : b.longs[s].stop \in Nat /\ b.longs[s].target \in Nat

(* An open entry is the last one of its symbol.                             *)
NewestOpen(l) ==
  \A i, j \in DOMAIN l : IsOpenEntry(l[i]) /\ l[j].symbol = l[i].symbol => j <= i

(* What is open costs what its entry says.                                  *)
Bought(b, l) ==
  \A i \in DOMAIN l :
    IsOpenEntry(l[i]) /\ l[i].symbol \in Held(b) =>
      b.longs[l[i].symbol].cost = l[i].qty * l[i].entry

(* The trade that an entry which is still open will tell of, if the price   *)
(* stays where it is.                                                       *)
AtTick(e, trade, px) ==
  /\ e.qty = trade.qty
  /\ e.qty * e.entry = trade.cost
  /\ trade.pnl <= (px - e.entry) * e.qty \/ px < trade.stop

Sold(b, l, T, P) ==
  \A i \in DOMAIN l :
    IsOpenEntry(l[i]) /\ l[i].symbol \notin Held(b) =>
      AtTick(l[i], T[l[i].symbol], P[l[i].symbol])

Told(l, T) ==
  \A i \in Finished(l) : IsNewest(l, i) => Tells(l[i], T[l[i].symbol])

Story(b, l, T, P) ==
  /\ T \in [Symbols -> Trades]
  /\ P \in [Symbols -> Nat]
  /\ Sellable(b)
  /\ b.trades \in Int
  /\ Len(l) = b.trades + Cardinality(Held(b))
  /\ NewestOpen(l)
  /\ Bought(b, l)
  /\ Sold(b, l, T, P)
  /\ Told(l, T)

(* Until a symbol has its next price, what is open of it is held.           *)
Unpriced ==
  task = "prices" =>
    \A j \in 1..Len(Universe) :
      cursor <= j /\ Universe[j] \in OpenInLog(log) => Universe[j] \in Held(book)

StoryInv ==
  /\ running \/ phase = "done" => Story(book, log, lastTrade, latestPrices)
  /\ Unpriced

(* Charges are not negative, and a sale is not above its price.             *)
LEMMA SaleBelow ==
  ASSUME NEW pos, pos.qty \in Nat, pos.cost \in Int, NEW price \in Nat
  PROVE  Result(pos, price) <= pos.qty * price - pos.cost /\ Result(pos, price) \in Int
<1> DEFINE fill == ApplySlippage(price, "SELL")
           fee == ComputeCharges("SELL", pos.qty, fill, FALSE)
<1>1. /\ Exec.slippage_bps \in Nat /\ Exec.slippage_bps <= 10000
      /\ Exec.brokerage \in Nat /\ Exec.min_brokerage \in Nat
      /\ Exec.stt_bps \in Nat /\ Exec.levy_bps \in Nat
  <2>1. /\ Exec.slippage_bps \in Nat /\ Exec.brokerage \in Nat /\ Exec.min_brokerage \in Nat
        /\ Exec.stt_bps \in Nat /\ Exec.levy_bps \in Nat
    BY SimulatorAssumption
  <2>2. Exec.slippage_bps <= 10000
    BY SimulatorAssumption
  <2> QED
    BY <2>1, <2>2
<1>2. fill \in Nat /\ fill <= price
  <2> DEFINE bps == Exec.slippage_bps
             slip == (price * bps) \div 10000
  <2>1. bps \in Nat /\ price * bps \in Nat /\ price * bps <= price * 10000
    <3>1. bps \in Nat /\ bps <= 10000
      BY <1>1
    <3> HIDE DEF bps
    <3>2. bps \in Nat /\ 10000 - bps \in Nat
      BY <3>1
    <3>3. price * bps \in Nat /\ price * (10000 - bps) \in Nat
      BY <3>2
    <3>4. price * 10000 = price * bps + price * (10000 - bps)
      BY <3>2
    <3> QED
      BY <3>1, <3>3, <3>4
  <2>2. slip \in Nat /\ slip <= price
    <3> DEFINE product == price * bps
    <3>1. product \in Nat /\ product <= price * 10000
      BY <2>1
    <3> HIDE DEF product
    <3>2. product \div 10000 \in Nat /\ product \div 10000 <= price
      BY <3>1
    <3> QED
      BY <3>2 DEF product
  <2>3. fill = price - slip
    BY DEF ApplySlippage
  <2> HIDE DEF slip, fill, bps
  <2> QED
    BY <2>2, <2>3
<1>3. fee \in Nat
  <2> HIDE DEF fill
  <2> DEFINE turnover == pos.qty * fill
             capped == IF Exec.brokerage < turnover \div 1000
                       THEN Exec.brokerage ELSE turnover \div 1000
             brokerage == IF turnover <= 0 THEN 0
                          ELSE IF capped < Exec.min_brokerage THEN Exec.min_brokerage ELSE capped
             stt == (turnover * Exec.stt_bps) \div 10000
             levies == (turnover * Exec.levy_bps) \div 10000
  <2>1. turnover \in Nat
    BY <1>2
  <2>2. fee = brokerage + stt + levies + 0
    BY DEF ComputeCharges
  <2> HIDE DEF turnover
  <2>3. turnover * Exec.stt_bps \in Nat /\ turnover * Exec.levy_bps \in Nat
    BY <1>1, <2>1
  <2>4. stt \in Nat /\ levies \in Nat
    BY <2>3
  <2>5. brokerage \in Nat
    BY <1>1, <2>1
  <2> HIDE DEF stt, levies, brokerage, fee
  <2> QED
    BY <2>2, <2>4, <2>5
<1>4. Result(pos, price) = pos.qty * fill - pos.cost - fee
  BY DEF Result
<1> HIDE DEF fill, fee
<1>5. pos.qty * fill <= pos.qty * price /\ pos.qty * fill \in Int /\ pos.qty * price \in Int
  BY <1>2
<1> QED
  BY <1>3, <1>4, <1>5

(* Two ways to write what a sale at a price makes without charges.          *)
LEMMA GrossIs ==
  ASSUME NEW qty \in Int, NEW px \in Int, NEW entry \in Int
  PROVE  (px - entry) * qty = qty * px - qty * entry /\ (px - entry) * qty \in Int
  OBVIOUS

(* An automatic exit makes no more than the tick would have, unless the     *)
(* price is below the stop.                                                 *)
LEMMA AutoExitBelow ==
  ASSUME NEW b, LongBook(b), Sellable(b), NEW c, NEW s \in Symbols, NEW px \in Nat,
         AutoExit(b, c, s, px)
  PROVE  \/ c.realized - b.realized <= b.longs[s].qty * px - b.longs[s].cost
         \/ px < b.longs[s].stop
<1> DEFINE pos == b.longs[s]
<1>1. /\ pos.qty \in Nat /\ pos.cost \in Int /\ b.realized \in Int
      /\ pos.stop \in Nat /\ pos.target \in Nat
  BY DEF LongBook, Position, Sellable
<1>2. /\ Result(pos, pos.stop) <= pos.qty * pos.stop - pos.cost /\ Result(pos, pos.stop) \in Int
      /\ Result(pos, pos.target) <= pos.qty * pos.target - pos.cost
      /\ Result(pos, pos.target) \in Int
  BY <1>1, SaleBelow
<1>3. \/ px <= pos.stop /\ c.realized = b.realized + Result(pos, pos.stop)
      \/ px >= pos.target /\ c.realized = b.realized + Result(pos, pos.target)
  BY DEF AutoExit, SoldAt
<1> HIDE DEF pos
<1>4. CASE px <= pos.stop /\ c.realized = b.realized + Result(pos, pos.stop)
  <2>1. px = pos.stop \/ px < pos.stop
    BY <1>1, <1>4
  <2>2. px = pos.stop => c.realized - b.realized <= pos.qty * px - pos.cost
    BY <1>1, <1>2, <1>4
  <2> QED
    BY <2>1, <2>2 DEF pos
<1>5. CASE px >= pos.target /\ c.realized = b.realized + Result(pos, pos.target)
  <2>1. pos.qty * pos.target <= pos.qty * px /\ pos.qty * pos.target \in Int /\ pos.qty * px \in Int
    BY <1>1, <1>5
  <2>2. c.realized - b.realized = Result(pos, pos.target)
    BY <1>1, <1>2, <1>5
  <2>3. c.realized - b.realized <= pos.qty * px - pos.cost
    BY <1>1, <1>2, <2>1, <2>2
  <2> QED
    BY <2>3 DEF pos
<1> QED
  BY <1>3, <1>4, <1>5

(* There is a number of positions.                                          *)
LEMMA HeldFinite == \A b : IsFiniteSet(Held(b)) /\ Held(b) \subseteq Symbols
  BY SymbolsFinite, FS_Subset DEF Held

(* An entry has a symbol, a quantity and a price.                           *)
LEMMA EntryType ==
  ASSUME NEW b, NEW l, Logged(b, l), NEW i \in DOMAIN l
  PROVE  l[i].symbol \in Symbols /\ l[i].qty \in Nat /\ l[i].qty \in Int /\ l[i].entry \in Int
<1>1. l[i] \in Entries
  BY DEF Logged
<1> QED
  BY <1>1 DEF Entries

(* A new price that closes nothing.                                         *)
LEMMA QuietStory ==
  ASSUME NEW b, LongBook(b), NEW c, Untouched(b, c), NEW l, Logged(b, l),
         NEW T, NEW P, Story(b, l, T, P), NEW s \in Symbols, NEW Q \in [Symbols -> Nat],
         \A u \in Symbols \ {s} : Q[u] = P[u],
         s \in OpenInLog(l) => s \in Held(b)
  PROVE  Story(c, l, T, Q)
<1>1. Held(c) = Held(b) /\ c.trades = b.trades
  BY UntouchedKeeps DEF Untouched
<1>2. \A i \in DOMAIN l : l[i].symbol \in Symbols
  BY EntryType
<1>3. Sellable(c)
  BY DEF Story, Sellable, Untouched, SameDeal
<1>4. Bought(c, l)
  BY <1>1, <1>2 DEF Story, Bought, Untouched, SameDeal
<1>5. Sold(c, l, T, Q)
  <2>1. ASSUME NEW i \in DOMAIN l, IsOpenEntry(l[i]), l[i].symbol \notin Held(c)
        PROVE  AtTick(l[i], T[l[i].symbol], Q[l[i].symbol])
    <3>1. l[i].symbol # s
      BY <1>1, <2>1, InLog
    <3> QED
      BY <1>1, <1>2, <2>1, <3>1 DEF Story, Sold
  <2> QED
    BY <2>1 DEF Sold
<1> QED
  BY <1>1, <1>3, <1>4, <1>5 DEF Story

(* A trade, which its entry will tell of at the price of the tick.          *)
LEMMA TradeStory ==
  ASSUME NEW b, LongBook(b), NEW c, NEW s \in Symbols, ClosedOut(b, c, s), NEW l, Logged(b, l),
         NEW T, NEW P, Story(b, l, T, P), NEW Q \in [Symbols -> Nat],
         \A u \in Symbols \ {s} : Q[u] = P[u],
         NEW t \in Trades, t.qty = b.longs[s].qty, t.cost = b.longs[s].cost,
         t.pnl <= t.qty * Q[s] - t.cost \/ Q[s] < t.stop
  PROVE  Story(c, l, [T EXCEPT ![s] = t], Q)
<1> DEFINE U == [T EXCEPT ![s] = t]
<1>1. Held(c) = Held(b) \ {s} /\ s \in Held(b) /\ c.trades = b.trades + 1
  BY ClosedOutKeeps DEF ClosedOut
<1>2. \A i \in DOMAIN l : l[i].symbol \in Symbols /\ l[i].qty \in Int /\ l[i].entry \in Int
  BY EntryType
<1>3. U \in [Symbols -> Trades] /\ U[s] = t /\ \A u \in Symbols \ {s} : U[u] = T[u]
  BY DEF Story
<1> HIDE DEF U
<1>4. Sellable(c)
  <2>1. c.longs[s].stop = 0 /\ c.longs[s].target = 0
    BY DEF ClosedOut, Flat, NoTarget
  <2>2. \A u \in Symbols \ {s} :
          c.longs[u].stop = b.longs[u].stop /\ c.longs[u].target = b.longs[u].target
    BY DEF ClosedOut, SameDeal
  <2> QED
    BY <2>1, <2>2 DEF Story, Sellable
<1>5. c.trades \in Int /\ Len(l) = c.trades + Cardinality(Held(c))
  <2>1. Cardinality(Held(c)) = Cardinality(Held(b)) - 1 /\ Cardinality(Held(b)) \in Nat
    BY <1>1, HeldFinite, FS_RemoveElement, FS_CardinalityType
  <2>2. b.trades \in Int /\ Len(l) = b.trades + Cardinality(Held(b))
    BY DEF Story
  <2> QED
    BY <1>1, <2>1, <2>2
<1>6. Bought(c, l)
  BY <1>1, <1>2 DEF Story, Bought, ClosedOut, SameDeal
<1>7. Sold(c, l, U, Q)
  <2>1. ASSUME NEW i \in DOMAIN l, IsOpenEntry(l[i]), l[i].symbol \notin Held(c)
        PROVE  AtTick(l[i], U[l[i].symbol], Q[l[i].symbol])
    <3>1. CASE l[i].symbol = s
      <4>1. l[i].qty = b.longs[s].qty /\ b.longs[s].cost = l[i].qty * l[i].entry
        BY <1>1, <2>1, <3>1 DEF Logged, Story, Bought
      <4>2. (Q[s] - l[i].entry) * l[i].qty = l[i].qty * Q[s] - l[i].qty * l[i].entry
        BY <1>2, GrossIs
      <4> QED
        BY <1>3, <3>1, <4>1, <4>2 DEF AtTick
    <3>2. CASE l[i].symbol # s
      BY <1>1, <1>2, <1>3, <2>1, <3>2 DEF Story, Sold
    <3> QED
      BY <3>1, <3>2
  <2> QED
    BY <2>1 DEF Sold
<1>8. Told(l, U)
  <2>1. PICK j \in DOMAIN l : IsOpenEntry(l[j]) /\ l[j].symbol = s
    BY <1>1, InLog DEF Logged
  <2>2. ASSUME NEW i \in Finished(l), IsNewest(l, i)
        PROVE  Tells(l[i], U[l[i].symbol])
    <3>1. i \in DOMAIN l /\ ~IsOpenEntry(l[i])
      BY <2>2 DEF Finished
    <3>2. l[i].symbol # s
      <4>1. ASSUME l[i].symbol = s PROVE FALSE
        <5>1. j <= i /\ i <= j
          BY <2>1, <2>2, <3>1, <4>1 DEF IsNewest, Story, NewestOpen
        <5>2. i \in Nat /\ j \in Nat
          BY <3>1 DEF Logged
        <5> QED
          BY <2>1, <3>1, <5>1, <5>2
      <4> QED
        BY <4>1
    <3> QED
      BY <1>2, <1>3, <2>2, <3>1, <3>2 DEF Story, Told
  <2> QED
    BY <2>2 DEF Told
<1> QED
  BY <1>3, <1>4, <1>5, <1>6, <1>7, <1>8 DEF Story, U

(* An entry that is closed tells of its trade.  Only one that the log finds *)
(* closed by the broker may have been jumped over.                          *)
LEMMA CloseStory ==
  ASSUME NEW b, NEW l, Logged(b, l), NEW T, Story(b, l, T, latestPrices),
         NEW S, Held(b) \cap S = {}, NEW reason \in Reasons,
         \/ reason = "sl_or_target"
         \/ \A i \in DOMAIN l : IsOpenEntry(l[i]) /\ l[i].symbol \in S =>
              T[l[i].symbol].pnl <= (latestPrices[l[i].symbol] - l[i].entry) * l[i].qty
  PROVE  Story(b, CloseEntries(l, S, reason), T, latestPrices)
<1> DEFINE k == CloseEntries(l, S, reason)
<1>1. /\ k \in Seq(Entries) /\ DOMAIN k = DOMAIN l
      /\ \A i \in DOMAIN k : IsOpenEntry(k[i]) => k[i] = l[i]
      /\ \A i \in DOMAIN k :
           k[i] = IF IsOpenEntry(l[i]) /\ l[i].symbol \in S
                  THEN ClosedEntry(l[i], latestPrices[l[i].symbol], reason) ELSE l[i]
  BY CloseEntriesEffect DEF Story
<1> HIDE DEF k
<1>2. \A i \in DOMAIN l : l[i] \in Entries
  BY DEF Logged
<1>3. \A i \in DOMAIN l :
        IsOpenEntry(l[i]) /\ l[i].symbol \in S =>
          LET px == latestPrices[l[i].symbol]
          IN  /\ ~IsOpenEntry(k[i]) /\ k[i].symbol = l[i].symbol /\ k[i].qty = l[i].qty
              /\ k[i].entry = l[i].entry /\ k[i].exit = px
              /\ k[i].pnl = (px - l[i].entry) * l[i].qty /\ k[i].status = reason
  <2> SUFFICES ASSUME NEW i \in DOMAIN l, IsOpenEntry(l[i]), l[i].symbol \in S
               PROVE  LET px == latestPrices[l[i].symbol]
                      IN  /\ ~IsOpenEntry(k[i]) /\ k[i].symbol = l[i].symbol
                          /\ k[i].qty = l[i].qty
                          /\ k[i].entry = l[i].entry /\ k[i].exit = px
                          /\ k[i].pnl = (px - l[i].entry) * l[i].qty /\ k[i].status = reason
    OBVIOUS
  <2>1. k[i] = ClosedEntry(l[i], latestPrices[l[i].symbol], reason) /\ l[i] \in Entries
    BY <1>1, <1>2
  <2>2. latestPrices[l[i].symbol] \in Int
    BY <2>1 DEF Entries, Story
  <2> QED
    BY <2>1, <2>2, ClosedEntryIs
<1>4. \A i \in DOMAIN l : k[i].symbol = l[i].symbol
  BY <1>1, <1>3
<1>5. Len(k) = Len(l)
  BY <1>1 DEF Logged
<1>6. NewestOpen(k) /\ Bought(b, k) /\ Sold(b, k, T, latestPrices)
  <2>1. NewestOpen(k)
    BY <1>1, <1>4 DEF Story, NewestOpen
  <2>2. Bought(b, k)
    BY <1>1 DEF Story, Bought
  <2>3. Sold(b, k, T, latestPrices)
    BY <1>1 DEF Story, Sold
  <2> QED
    BY <2>1, <2>2, <2>3
<1>7. Told(k, T)
  <2>1. ASSUME NEW i \in Finished(k), IsNewest(k, i)
        PROVE  Tells(k[i], T[k[i].symbol])
    <3>1. i \in DOMAIN l /\ IsNewest(l, i)
      BY <1>1, <1>4, <2>1 DEF Finished, IsNewest
    <3>2. CASE IsOpenEntry(l[i]) /\ l[i].symbol \in S
      <4>1. AtTick(l[i], T[l[i].symbol], latestPrices[l[i].symbol])
        BY <3>1, <3>2 DEF Story, Sold
      <4>2. reason = "sl_or_target"
              \/ T[l[i].symbol].pnl <= (latestPrices[l[i].symbol] - l[i].entry) * l[i].qty
        BY <3>1, <3>2
      <4>3. LET px == latestPrices[l[i].symbol]
            IN  /\ k[i].symbol = l[i].symbol /\ k[i].qty = l[i].qty
                /\ k[i].entry = l[i].entry /\ k[i].exit = px
                /\ k[i].pnl = (px - l[i].entry) * l[i].qty /\ k[i].status = reason
        BY <1>3, <3>1, <3>2
      <4> QED
        BY <4>1, <4>2, <4>3 DEF AtTick, Tells
    <3>3. CASE ~(IsOpenEntry(l[i]) /\ l[i].symbol \in S)
      <4>1. k[i] = l[i]
        BY <1>1, <3>1, <3>3
      <4> QED
        BY <2>1, <3>1, <4>1 DEF Finished, Story, Told
    <3> QED
      BY <3>2, <3>3
  <2> QED
    BY <2>1 DEF Told
<1> QED
  BY <1>5, <1>6, <1>7 DEF Story, k

(* A fill is logged at its price.                                           *)
LEMMA AppendStory ==
  ASSUME NEW b, LongBook(b), NEW c, NEW l, Logged(b, l), NEW T, NEW P, Story(b, l, T, P),
         NEW s \in Symbols, s \notin OpenInLog(l), s \notin Held(b), Held(c) = Held(b) \cup {s},
         NEW qty \in Nat, NEW price \in Int,
         \A u \in Symbols \ {s} : c.longs[u] = b.longs[u],
         c.longs[s].cost = qty * price, c.longs[s].stop \in Nat, c.longs[s].target \in Nat,
         c.trades = b.trades
  PROVE  Story(c, Append(l, OpenEntry(s, qty, price)), T, P)
<1> DEFINE e == OpenEntry(s, qty, price)
           k == Append(l, e)
<1>1. e \in Entries /\ IsOpenEntry(e) /\ e.symbol = s /\ e.qty = qty /\ e.entry = price
  BY DEF OpenEntry, Entries, IsOpenEntry, NoPrice
<1>2. l \in Seq(Entries) /\ Len(l) \in Nat /\ DOMAIN l = 1..Len(l)
  BY DEF Logged
<1> HIDE DEF e
<1>3. /\ k \in Seq(Entries) /\ Len(k) = Len(l) + 1
      /\ DOMAIN k = DOMAIN l \cup {Len(l) + 1}
      /\ Len(l) + 1 \notin DOMAIN l
      /\ k[Len(l) + 1] = e
      /\ \A i \in DOMAIN l : k[i] = l[i] /\ i \in Nat /\ i < Len(l) + 1
  BY <1>1, <1>2
<1> HIDE DEF k
<1>4. \A i \in DOMAIN l : l[i].symbol \in Symbols /\ (IsOpenEntry(l[i]) => l[i].symbol # s)
  BY EntryType, InLog
<1>5. Sellable(c)
  BY DEF Story, Sellable
<1>6. Len(k) = c.trades + Cardinality(Held(c))
  <2>1. Cardinality(Held(c)) = Cardinality(Held(b)) + 1 /\ Cardinality(Held(b)) \in Nat
    BY HeldFinite, FS_AddElement, FS_CardinalityType
  <2> QED
    BY <1>2, <1>3, <2>1 DEF Story
<1>7. NewestOpen(k)
  <2> SUFFICES ASSUME NEW i \in DOMAIN k, NEW j \in DOMAIN k,
                      IsOpenEntry(k[i]), k[j].symbol = k[i].symbol
               PROVE  j <= i
    BY DEF NewestOpen
  <2>1. CASE i = Len(l) + 1
    BY <1>2, <1>3, <2>1
  <2>2. CASE i \in DOMAIN l
    <3>1. j \in DOMAIN l
      BY <1>1, <1>3, <1>4, <2>2
    <3> QED
      BY <1>3, <2>2, <3>1 DEF Story, NewestOpen
  <2> QED
    BY <1>3, <2>1, <2>2
<1>8. Bought(c, k)
  <2>1. ASSUME NEW i \in DOMAIN k, IsOpenEntry(k[i]), k[i].symbol \in Held(c)
        PROVE  c.longs[k[i].symbol].cost = k[i].qty * k[i].entry
    <3>1. CASE i = Len(l) + 1
      BY <1>1, <1>3, <3>1
    <3>2. CASE i \in DOMAIN l
      <4>1. k[i] = l[i] /\ l[i].symbol \in Symbols \ {s} /\ l[i].symbol \in Held(b)
        BY <1>3, <1>4, <2>1, <3>2
      <4>2. b.longs[l[i].symbol].cost = l[i].qty * l[i].entry
        BY <2>1, <3>2, <4>1 DEF Story, Bought
      <4> QED
        BY <4>1, <4>2
    <3> QED
      BY <1>3, <2>1, <3>1, <3>2
  <2> QED
    BY <2>1 DEF Bought
<1>9. Sold(c, k, T, P)
  BY <1>1, <1>3, <1>4 DEF Story, Sold
<1>10. Told(k, T)
  <2>1. ASSUME NEW i \in Finished(k), IsNewest(k, i)
        PROVE  Tells(k[i], T[k[i].symbol])
    <3>1. i \in DOMAIN l /\ k[i] = l[i]
      BY <1>1, <1>3, <2>1 DEF Finished
    <3>2. i \in Finished(l) /\ IsNewest(l, i)
      BY <1>3, <2>1, <3>1 DEF Finished, IsNewest
    <3> QED
      BY <3>1, <3>2 DEF Story, Told
  <2> QED
    BY <2>1 DEF Told
<1> QED
  BY <1>5, <1>6, <1>7, <1>8, <1>9, <1>10 DEF Story, k, e

(* The trades of a new broker.                                              *)
LEMMA NoStory ==
  Story(NewAccount, <<>>, [s \in Symbols |-> NoTrade], [s \in Symbols |-> NoPrice])
<1>1. \A s \in Symbols : NewAccount.longs[s] = Flat
  BY DEF NewAccount
<1>2. Sellable(NewAccount)
  BY <1>1 DEF Sellable, Flat, NoTarget
<1>3. Cardinality(Held(NewAccount)) = 0
  BY NewAccountFacts, FS_EmptySet
<1>4. NewAccount.trades = 0 /\ Len(<<>>) = 0 /\ DOMAIN <<>> = {}
  BY DEF NewAccount
<1> QED
  BY <1>2, <1>3, <1>4
  DEF Story, NoTrade, NoPrice, Trades, NewestOpen, Bought, Sold, Told, Finished

(* The steps that leave the broker and the log alone.                       *)
LEMMA StorySame ==
  ASSUME StoryInv, book' = book, log' = log, lastTrade' = lastTrade,
         latestPrices' = latestPrices, running' \/ phase' = "done" => running \/ phase = "done",
         task' # "prices"
  PROVE  StoryInv'
<1>1. running \/ phase = "done" => Story(book', log', lastTrade', latestPrices')
  BY DEF StoryInv
<1> QED
  BY <1>1 DEF StoryInv, Unpriced

(* A call of the broker that closes nothing is not recorded, and one that   *)
(* does is.                                                                 *)
LEMMA RecordedIs ==
  ASSUME LongBook(book), NEW s \in Symbols, NEW c
  PROVE  /\ Untouched(book, c) => Recorded(s, c) = lastTrade
         /\ ClosedOut(book, c, s) =>
              Recorded(s, c) = [lastTrade EXCEPT ![s] =
                [qty |-> book.longs[s].qty, cost |-> book.longs[s].cost,
                 stop |-> book.longs[s].stop, pnl |-> c.realized - book.realized]]
<1>1. book.trades \in Int
  BY DEF LongBook
<1> QED
  BY <1>1 DEF Recorded, Untouched, ClosedOut

(* A price and what it closes.                                              *)
LEMMA PriceStory ==
  ASSUME SimInv, StoryInv, Price
  PROVE  StoryInv'
<1> DEFINE s == Universe[cursor]
<1>1. /\ log' = log /\ task = "prices" /\ phase' = phase /\ running' = running
      /\ cursor' = cursor + 1 /\ cursor <= Len(Universe) /\ cursor \in Nat \ {0}
  BY DEF Price, shared, SimInv, SimTypeOK
<1>2. s \in Symbols /\ Universe \in Seq(Symbols) /\ cursor \in 1..Len(Universe)
  BY <1>1, UniverseIsSymbols, SimulatorAssumption DEF SimInv, SimTypeOK
<1>3. /\ LongBook(book) /\ Logged(book, log) /\ Unpriced
      /\ running \/ phase = "done" => Story(book, log, lastTrade, latestPrices)
  BY DEF SimInv, SimTypeOK, StoryInv
<1>4. s \in OpenInLog(log) => s \in Held(book)
  BY <1>1, <1>2, <1>3 DEF Unpriced
<1>5. \/ /\ latestPrices' = latestPrices /\ book' = book /\ lastTrade' = lastTrade
      \/ \E px \in Prices : /\ latestPrices' = [latestPrices EXCEPT ![s] = px]
                            /\ book' = Marked(book, s, px)
                            /\ lastTrade' = Recorded(s, book')
  BY DEF Price
<1>6. \A j \in 1..Len(Universe) : cursor + 1 <= j => Universe[j] # s
  <2>1. \A i, j \in DOMAIN Universe : Universe[i] = Universe[j] => i = j
    BY SimulatorAssumption
  <2>2. DOMAIN Universe = 1..Len(Universe) /\ Len(Universe) \in Nat
    BY <1>2
  <2> SUFFICES ASSUME NEW j \in 1..Len(Universe), cursor + 1 <= j, Universe[j] = s
               PROVE  FALSE
    OBVIOUS
  <2>3. j = cursor
    BY <1>2, <2>1, <2>2
  <2> QED
    BY <1>1, <2>3
<1> DEFINE Goal == /\ running \/ phase = "done" =>
                        Story(book', log, lastTrade', latestPrices')
                   /\ Held(book) \ {s} \subseteq Held(book')
<1>7. ASSUME latestPrices' = latestPrices, book' = book, lastTrade' = lastTrade
      PROVE  Goal
  BY <1>3, <1>7
<1>8. ASSUME NEW px \in Prices, latestPrices' = [latestPrices EXCEPT ![s] = px],
             book' = Marked(book, s, px), lastTrade' = Recorded(s, book')
      PROVE  Goal
  <2>1. px \in Nat /\ px \in Int
    BY SimulatorAssumption
  <2>2. latestPrices \in [Symbols -> Nat]
    BY DEF SimInv, SimTypeOK
  <2> HIDE DEF s
  <2>3. /\ latestPrices' \in [Symbols -> Nat] /\ latestPrices'[s] = px
        /\ \A u \in Symbols \ {s} : latestPrices'[u] = latestPrices[u]
    BY <1>2, <1>8, <2>1, <2>2
  <2>4. CASE Untouched(book, book')
    <3>1. lastTrade' = lastTrade
      BY <1>2, <1>3, <1>8, <2>4, RecordedIs
    <3>2. Held(book') = Held(book)
      BY <1>3, <2>4, UntouchedKeeps
    <3>3. Story(book, log, lastTrade, latestPrices) =>
            Story(book', log, lastTrade, latestPrices')
      BY <1>2, <1>3, <1>4, <2>3, <2>4, QuietStory
    <3> QED
      BY <1>3, <3>1, <3>2, <3>3
  <2>5. CASE ClosedOut(book, book', s) /\ AutoExit(book, book', s, px)
    <3> DEFINE t == [qty |-> book.longs[s].qty, cost |-> book.longs[s].cost,
                     stop |-> book.longs[s].stop, pnl |-> book'.realized - book.realized]
    <3>1. lastTrade' = [lastTrade EXCEPT ![s] = t]
      BY <1>2, <1>3, <2>5, <1>8, RecordedIs
    <3>2. Held(book') = Held(book) \ {s}
      BY <1>2, <1>3, <2>5, ClosedOutKeeps
    <3>3. t \in Trades /\ t.qty = book.longs[s].qty /\ t.cost = book.longs[s].cost
      <4>1. book.longs[s] \in Position /\ book.realized \in Int /\ book'.realized \in Int
        BY <1>2, <1>3, <2>5 DEF LongBook, ClosedOut
      <4>2. /\ book.longs[s].qty \in Int /\ book.longs[s].cost \in Int
            /\ book.longs[s].stop \in Int
        BY <4>1 DEF Position
      <4> QED
        BY <4>1, <4>2 DEF Trades
    <3>4. t.stop = book.longs[s].stop /\ t.pnl = book'.realized - book.realized
      OBVIOUS
    <3> HIDE DEF t
    <3>5. ASSUME Story(book, log, lastTrade, latestPrices)
          PROVE  Story(book', log, lastTrade', latestPrices')
      <4>1. Sellable(book)
        BY <3>5 DEF Story
      <4>2. t.pnl <= t.qty * px - t.cost \/ px < t.stop
        BY <1>2, <1>3, <2>1, <2>5, <3>3, <3>4, <4>1, AutoExitBelow
      <4>3. Story(book', log, [lastTrade EXCEPT ![s] = t], latestPrices')
        BY <1>2, <1>3, <2>3, <2>5, <3>3, <3>5, <4>2, TradeStory
      <4> QED
        BY <3>1, <4>3
    <3> QED
      BY <1>3, <3>2, <3>5
  <2>6. \/ Untouched(book, book')
        \/ ClosedOut(book, book', s) /\ AutoExit(book, book', s, px)
    BY <1>2, <1>3, <1>8, <2>1, MarkedEffect
  <2> QED
    BY <2>4, <2>5, <2>6
<1>9. Goal
  BY <1>5, <1>7, <1>8
<1>10. Unpriced'
  BY <1>1, <1>2, <1>3, <1>6, <1>9 DEF Unpriced
<1> HIDE DEF s
<1> QED
  BY <1>1, <1>9, <1>10 DEF StoryInv

(* A market order that closes a position, and its entry.                    *)
LEMMA ClosedStory ==
  ASSUME LongBook(book), Logged(book, log), Story(book, log, lastTrade, latestPrices),
         NEW s \in Symbols, NEW reason \in Reasons
  PROVE  Story(Closed(book, s),
               IF s \in Held(book) THEN CloseEntry(log, s, reason) ELSE log,
               Recorded(s, Closed(book, s)), latestPrices)
<1> DEFINE c == Closed(book, s)
<1>0. latestPrices \in [Symbols -> Nat] /\ latestPrices[s] \in Nat /\ latestPrices[s] \in Int
      /\ lastTrade \in [Symbols -> Trades]
  BY DEF Story
<1>1. CASE s \notin Held(book)
  <2>1. c = book
    BY <1>0, <1>1, ClosedEffect
  <2>2. Recorded(s, c) = lastTrade
    BY <2>1 DEF Recorded
  <2> HIDE DEF c
  <2>3. Story(c, log, Recorded(s, c), latestPrices)
    BY <2>1, <2>2
  <2> QED
    BY <1>1, <2>3 DEF c
<1>2. CASE s \in Held(book)
  <2> DEFINE t == [qty |-> book.longs[s].qty, cost |-> book.longs[s].cost,
                   stop |-> book.longs[s].stop, pnl |-> c.realized - book.realized]
             T == [lastTrade EXCEPT ![s] = t]
             k == CloseEntries(log, {s}, reason)
  <2>1. ClosedOut(book, c, s) /\ SoldAt(book, c, s, latestPrices[s])
    BY <1>0, <1>2, ClosedEffect
  <2> HIDE DEF c
  <2>2. Recorded(s, c) = T
    BY <2>1, RecordedIs
  <2>3. t \in Trades /\ t.qty = book.longs[s].qty /\ t.cost = book.longs[s].cost
        /\ t.pnl = c.realized - book.realized
    BY <2>1 DEF Trades, LongBook, Position, ClosedOut
  <2> HIDE DEF t
  <2>4. t.pnl <= t.qty * latestPrices[s] - t.cost
    <3>1. /\ book.longs[s].qty \in Nat /\ book.longs[s].cost \in Int /\ book.realized \in Int
      BY DEF LongBook, Position
    <3>2. /\ Result(book.longs[s], latestPrices[s])
               <= book.longs[s].qty * latestPrices[s] - book.longs[s].cost
          /\ Result(book.longs[s], latestPrices[s]) \in Int
      BY <1>0, <3>1, SaleBelow
    <3>3. t.pnl = Result(book.longs[s], latestPrices[s])
      BY <2>1, <2>3, <3>1, <3>2 DEF SoldAt
    <3> QED
      BY <2>3, <3>2, <3>3
  <2>5. Story(c, log, T, latestPrices)
    BY <1>0, <2>1, <2>3, <2>4, TradeStory
  <2>6. Logged(c, log) /\ Held(c) = Held(book) \ {s}
    BY <2>1, ClosedOutLogged, ClosedOutKeeps
  <2>7. T \in [Symbols -> Trades] /\ T[s] = t
    BY <1>0, <2>3
  <2> HIDE DEF T
  <2>8. ASSUME NEW i \in DOMAIN log, IsOpenEntry(log[i]), log[i].symbol \in {s}
        PROVE  T[log[i].symbol].pnl <=
                 (latestPrices[log[i].symbol] - log[i].entry) * log[i].qty
    <3>1. log[i].symbol = s /\ log[i].qty \in Int /\ log[i].entry \in Int
      BY <2>8, EntryType
    <3>2. log[i].qty = book.longs[s].qty /\ book.longs[s].cost = log[i].qty * log[i].entry
      BY <1>2, <2>8, <3>1 DEF Logged, Story, Bought
    <3>3. (latestPrices[s] - log[i].entry) * log[i].qty
            = log[i].qty * latestPrices[s] - log[i].qty * log[i].entry
      BY <1>0, <3>1, GrossIs
    <3> QED
      BY <2>3, <2>4, <2>7, <3>1, <3>2, <3>3
  <2>9. Story(c, k, T, latestPrices)
    <3>1. Held(c) \cap {s} = {}
      BY <2>6
    <3> QED
      BY <2>5, <2>6, <2>8, <3>1, CloseStory
  <2>10. k = CloseEntry(log, s, reason)
    BY DEF CloseEntry
  <2> HIDE DEF k
  <2> QED
    BY <1>2, <2>2, <2>9, <2>10 DEF c
<1> QED
  BY <1>1, <1>2

(* So does an exit by time.                                                 *)
LEMMA AgeStory ==
  ASSUME SimInv, StoryInv, Age
  PROVE  StoryInv'
<1> DEFINE s == Universe[cursor]
           due == ticks[s] + 1 >= MaxTicks
<1>1. /\ latestPrices' = latestPrices /\ task' = "ageing" /\ phase' = phase
      /\ running' = running /\ cursor <= Len(Universe)
  BY DEF Age
<1>2. s \in Symbols
  BY <1>1, UniverseIsSymbols DEF SimInv, SimTypeOK
<1>3. LongBook(book) /\ Logged(book, log) /\ "time_exit" \in Reasons
  BY DEF SimInv, SimTypeOK, Reasons
<1>4. \/ /\ book' = Closed(book, s) /\ lastTrade' = Recorded(s, book')
         /\ log' = IF s \in Held(book) THEN CloseEntry(log, s, "time_exit") ELSE log
      \/ /\ book' = book /\ lastTrade' = Recorded(s, book') /\ log' = log
      \/ book' = book /\ lastTrade' = lastTrade /\ log' = log
  BY DEF Age
<1> HIDE DEF s
<1>5. book' = book => Recorded(s, book') = lastTrade
  BY DEF Recorded
<1>6. ASSUME running \/ phase = "done"
      PROVE  Story(book', log', lastTrade', latestPrices)
  <2>1. Story(book, log, lastTrade, latestPrices)
    BY <1>6 DEF StoryInv
  <2>2. CASE book' = book /\ lastTrade' = lastTrade /\ log' = log
    BY <2>1, <2>2
  <2>3. CASE /\ book' = Closed(book, s) /\ lastTrade' = Recorded(s, book')
             /\ log' = IF s \in Held(book) THEN CloseEntry(log, s, "time_exit") ELSE log
    BY <1>2, <1>3, <2>1, <2>3, ClosedStory
  <2> QED
    BY <1>4, <1>5, <2>2, <2>3
<1> QED
  BY <1>1, <1>6 DEF StoryInv, Unpriced

(* So does the square-off.                                                  *)
LEMMA SquareOffStory ==
  ASSUME SimInv, StoryInv, SquareOff
  PROVE  StoryInv'
<1> DEFINE s == Universe[cursor]
<1>1. /\ latestPrices' = latestPrices /\ task' = "squareoff" /\ phase' = phase
      /\ running' = running /\ cursor <= Len(Universe)
      /\ book' = Closed(book, s) /\ lastTrade' = Recorded(s, book')
      /\ log' = IF s \in Held(book) THEN CloseEntry(log, s, "eod_squareoff") ELSE log
  BY DEF SquareOff
<1>2. s \in Symbols
  BY <1>1, UniverseIsSymbols DEF SimInv, SimTypeOK
<1>3. LongBook(book) /\ Logged(book, log) /\ "eod_squareoff" \in Reasons
  BY DEF SimInv, SimTypeOK, Reasons
<1> HIDE DEF s
<1>4. ASSUME running \/ phase = "done"
      PROVE  Story(book', log', lastTrade', latestPrices)
  <2>1. Story(book, log, lastTrade, latestPrices)
    BY <1>4 DEF StoryInv
  <2> QED
    BY <1>1, <1>2, <1>3, <2>1, ClosedStory
<1> QED
  BY <1>1, <1>4 DEF StoryInv, Unpriced

(* So does the log's synchronization.                                       *)
LEMMA SyncStory ==
  ASSUME SimInv, StoryInv, Sync
  PROVE  StoryInv'
<1> DEFINE gone == OpenInLog(log) \ Held(book)
<1>1. /\ book' = book /\ latestPrices' = latestPrices /\ lastTrade' = lastTrade
      /\ log' = CloseEntries(log, gone, "sl_or_target")
      /\ task' # "prices" /\ phase' = phase /\ running' = running
  BY DEF Sync, account
<1>2. LongBook(book) /\ Logged(book, log) /\ "sl_or_target" \in Reasons
  BY DEF SimInv, SimTypeOK, Reasons
<1>3. Held(book) \cap gone = {}
  OBVIOUS
<1> HIDE DEF gone
<1>4. ASSUME running \/ phase = "done"
      PROVE  Story(book', log', lastTrade', latestPrices')
  <2>1. Story(book, log, lastTrade, latestPrices)
    BY <1>4 DEF StoryInv
  <2>2. Story(book, CloseEntries(log, gone, "sl_or_target"), lastTrade, latestPrices)
    BY <1>2, <1>3, <2>1, CloseStory
  <2> QED
    BY <1>1, <2>2
<1> QED
  BY <1>1, <1>4 DEF StoryInv, Unpriced

(* So does an entry.                                                        *)
LEMMA EvaluateStory ==
  ASSUME SimInv, StoryInv, Evaluate
  PROVE  StoryInv'
<1> DEFINE s == Universe[cursor]
<1>1. /\ task = "entries" /\ task' = "entries" /\ phase' = phase /\ running' = running
      /\ cursor <= Len(Universe)
  BY DEF Evaluate
<1>2. s \in Symbols
  BY <1>1, UniverseIsSymbols DEF SimInv, SimTypeOK
<1>3. /\ LongBook(book) /\ Logged(book, log) /\ OpenInLog(log) \subseteq Held(book)
      /\ latestPrices \in [Symbols -> Nat] /\ entryFees \in Int /\ equity \in Int
      /\ latestPrices \in [Symbols -> Int]
  BY <1>1 DEF SimInv, SimTypeOK, InStep
<1>4. ASSUME NEW x \in Signals, NEW qty \in Nat \ {0}, s \notin Held(book), Enter(s, qty, x),
             Story(book, log, lastTrade, latestPrices)
      PROVE  Story(book', log', lastTrade', latestPrices')
  <2>1. /\ BuyLong(s, qty, x.stop, x.target) /\ lastTrade' = lastTrade
        /\ log' = Append(log, OpenEntry(s, qty, ApplySlippage(latestPrices[s], "BUY")))
    BY <1>4 DEF Enter
  <2>2. x.stop \in Nat /\ x.target \in Nat /\ x.stop \in Int /\ x.target \in Int
    BY SimulatorAssumption
  <2> HIDE DEF s
  <2>3. s \in Symbols \ Held(book)
    BY <1>2, <1>4
  <2>4. ApplySlippage(latestPrices[s], "BUY") \in Int
    BY <1>2, <1>3, FillType
  <2>5. /\ latestPrices' = latestPrices
        /\ book'.longs[s].cost = qty * ApplySlippage(latestPrices[s], "BUY")
        /\ book'.longs[s].stop = x.stop /\ book'.longs[s].target = x.target
        /\ book'.trades = book.trades
        /\ \A u \in Symbols \ {s} : book'.longs[u] = book.longs[u]
        /\ Held(book') = Held(book) \cup {s}
    BY <1>3, <2>1, <2>2, <2>3, BuyEffect
  <2>6. s \notin OpenInLog(log)
    BY <1>3, <2>3
  <2>7. Story(book', log', lastTrade, latestPrices)
    BY <1>3, <1>4, <2>1, <2>2, <2>3, <2>4, <2>5, <2>6, AppendStory
  <2> QED
    BY <2>1, <2>5, <2>7
<1>5. ASSUME running \/ phase = "done"
      PROVE  Story(book', log', lastTrade', latestPrices')
  <2>1. Story(book, log, lastTrade, latestPrices)
    BY <1>5 DEF StoryInv
  <2>2. CASE UNCHANGED <<account, log, ticks>>
    BY <2>1, <2>2 DEF account
  <2>3. ASSUME NEW x \in Signals, s \in loaded \ Held(book),
               Enter(s, SimQty([symbol |-> s, side |-> "BUY", stop |-> x.stop,
                                entry |-> latestPrices[s] + x.offset]), x)
        PROVE  Story(book', log', lastTrade', latestPrices')
    <3> DEFINE signal == [symbol |-> s, side |-> "BUY", stop |-> x.stop,
                          entry |-> latestPrices[s] + x.offset]
    <3>1. x.stop \in Int /\ x.offset \in Int
      BY SimulatorAssumption
    <3>2. signal.entry \in Int /\ signal.stop \in Int /\ signal.side = "BUY"
      BY <1>2, <1>3, <3>1
    <3> HIDE DEF signal
    <3>3. SimQty(signal) \in Nat \ {0}
      BY <1>3, <3>2, SimQtyType
    <3>4. Enter(s, SimQty(signal), x)
      BY <2>3 DEF signal
    <3> HIDE DEF s
    <3> QED
      BY <1>4, <2>1, <2>3, <3>3, <3>4
  <2> QED
    BY <2>2, <2>3 DEF Evaluate
<1> HIDE DEF s
<1> QED
  BY <1>1, <1>5 DEF StoryInv, Unpriced

(* The endpoints, and the steps that only move the task on.                 *)
LEMMA OtherStory ==
  ASSUME SimInv, StoryInv,
         \/ \E m \in {"live", "replay"} : Start(m)
         \/ Stop \/ Begin \/ Load \/ Dies \/ WakeUp \/ Priced \/ Aged \/ EndTick
         \/ FinishReplay
  PROVE  StoryInv'
<1>1. ASSUME NEW m \in {"live", "replay"}, Start(m)
      PROVE  StoryInv'
  <2>1. /\ book' = NewAccount /\ log' = <<>> /\ task' = "begin"
        /\ lastTrade' = [s \in Symbols |-> NoTrade]
        /\ latestPrices' = [s \in Symbols |-> NoPrice]
    BY <1>1 DEF Start, Forgotten
  <2> QED
    BY <2>1, NoStory DEF StoryInv, Unpriced
<1>2. CASE Stop
  <2>1. running /\ running' = FALSE /\ phase' = phase /\ task' = "none"
    BY <1>2 DEF Stop
  <2>2. phase # "done"
    BY <2>1 DEF SimInv, Stages
  <2> QED
    BY <2>1, <2>2 DEF StoryInv, Unpriced
<1>3. CASE WakeUp
  <2>1. /\ book' = book /\ log' = log /\ lastTrade' = lastTrade /\ latestPrices' = latestPrices
        /\ running' = running /\ phase' = phase /\ task = "sleep"
    BY <1>3 DEF WakeUp, account, shared
  <2>2. OpenInLog(log) \subseteq Held(book)
    BY <2>1 DEF SimInv, InStep
  <2> QED
    BY <2>1, <2>2 DEF StoryInv, Unpriced
<1>4. CASE Begin
  BY <1>4, StorySame DEF Begin, account
<1>5. CASE Load
  BY <1>5, StorySame DEF Load, account
<1>6. CASE Dies
  BY <1>6, StorySame DEF Dies, account, shared
<1>7. CASE Priced
  BY <1>7, StorySame DEF Priced, account, shared
<1>8. CASE Aged
  BY <1>8, StorySame DEF Aged, account, shared
<1>9. CASE EndTick
  BY <1>9, StorySame DEF EndTick, account
<1>10. CASE FinishReplay
  <2>1. running
    BY <1>10 DEF FinishReplay, SimInv, Stages
  <2> QED
    BY <1>10, <2>1, StorySame DEF FinishReplay, account
<1> QED
  BY <1>1, <1>2, <1>3, <1>4, <1>5, <1>6, <1>7, <1>8, <1>9, <1>10

(* One lemma above for every step that fills, marks or logs.                *)
THEOREM StoryInvariant == SimSpec => []StoryInv
<1>1. SimInit => StoryInv
  <2> SUFFICES ASSUME SimInit PROVE StoryInv
    OBVIOUS
  <2>1. ~running /\ phase # "done" /\ task # "prices"
    BY DEF SimInit
  <2> QED
    BY <2>1 DEF StoryInv, Unpriced
<1>2. SimInv /\ StoryInv /\ [SimNext]_simVars => StoryInv'
  <2> SUFFICES ASSUME SimInv, StoryInv, [SimNext]_simVars PROVE StoryInv'
    OBVIOUS
  <2>1. CASE SimNext
    BY <2>1, OtherStory, PriceStory, AgeStory, SyncStory, SquareOffStory, EvaluateStory, Zenon
    DEF SimNext
  <2>2. CASE UNCHANGED simVars
    <3>1. /\ book' = book /\ log' = log /\ lastTrade' = lastTrade
          /\ latestPrices' = latestPrices /\ running' = running /\ phase' = phase
          /\ task' = task /\ cursor' = cursor
      BY <2>2 DEF simVars, account, shared, local
    <3> QED
      BY <3>1 DEF StoryInv, Unpriced
  <2> QED
    BY <2>1, <2>2
<1> QED
  BY <1>1, <1>2, SimInvariant, PTL DEF SimSpec

-----------------------------------------------------------------------------
(* What the invariant shows                                                 *)

(* The log mirrors the broker.                                              *)
LEMMA LogIsBroker ==
  ASSUME SimInv
  PROVE  LogMirrorsBroker
<1> SUFFICES ASSUME Resting PROVE
      /\ OpenInLog(log) = Held(book)
      /\ \A i \in DOMAIN log : IsOpenEntry(log[i]) =>
           /\ log[i].qty = book.longs[log[i].symbol].qty
           /\ \A j \in DOMAIN log :
                IsOpenEntry(log[j]) /\ log[j].symbol = log[i].symbol => j = i
  BY DEF LogMirrorsBroker
<1>1. Logged(book, log) /\ OpenInLog(log) \subseteq Held(book)
  BY DEF SimInv, InStep, Resting
<1>2. OpenInLog(log) = Held(book)
  BY <1>1 DEF Logged
<1>3. ASSUME NEW i \in DOMAIN log, IsOpenEntry(log[i])
      PROVE  log[i].symbol \in Held(book)
  BY <1>1, <1>3, InLog
<1> QED
  BY <1>1, <1>2, <1>3 DEF Logged, OneEntry

(* The log tells of the trades.                                             *)
LEMMA LogTells ==
  ASSUME SimInv, StoryInv
  PROVE  TradesAreLogged
<1> SUFFICES ASSUME Resting PROVE
      /\ Len(log) = book.trades + Cardinality(Held(book))
      /\ \A i \in Finished(log) : IsNewest(log, i) => Tells(log[i], lastTrade[log[i].symbol])
  BY DEF TradesAreLogged, Status
<1>1. running \/ phase = "done"
  BY DEF Resting, SimInv, Stages
<1> QED
  BY <1>1 DEF StoryInv, Story, Told

(* A replay that is done holds nothing.                                     *)
LEMMA DoneIsFlat ==
  ASSUME SimInv, StoryInv
  PROVE  ReplayEndsFlat
<1> SUFFICES ASSUME phase = "done"
             PROVE  /\ Held(book) = {} /\ OpenInLog(log) = {}
                    /\ Cardinality(Finished(log)) = book.trades
                    /\ Equity(book) - InitialCash = book.realized - entryFees
  BY DEF ReplayEndsFlat, Summary
<1>1. Held(book) = {} /\ OpenInLog(log) = {}
  BY DEF SimInv, Stages, InStep
<1>2. LongBook(book) /\ entryFees \in Int /\ Worth(book) + entryFees = InitialCash
  BY DEF SimInv, SimTypeOK, Ledger
<1>3. Equity(book) = book.cash /\ Worth(book) = book.cash - book.realized
  BY <1>1, <1>2, EmptyIsCash
<1>4. book.cash \in Int /\ book.realized \in Int /\ book.trades \in Int
  BY <1>2 DEF LongBook
<1>5. Cardinality(Finished(log)) = book.trades
  <2>1. log \in Seq(Entries) /\ Len(log) \in Nat /\ DOMAIN log = 1..Len(log)
    BY DEF SimInv, Logged
  <2>2. Finished(log) = 1..Len(log)
    BY <1>1, <2>1 DEF Finished, OpenInLog
  <2>3. Len(log) = book.trades + Cardinality(Held(book))
    BY DEF StoryInv, Story
  <2>4. Cardinality({}) = 0 /\ Cardinality(1..Len(log)) = Len(log)
    <3>1. Cardinality(1..Len(log)) = IF 1 > Len(log) THEN 0 ELSE Len(log) - 1 + 1
      BY <2>1, FS_Interval
    <3> QED
      BY <2>1, <3>1, FS_EmptySet
  <2> QED
    BY <1>1, <1>4, <2>2, <2>3, <2>4
<1> QED
  BY <1>1, <1>2, <1>3, <1>4, <1>5

(* Whenever the task awaits, the open entries of the log are the positions  *)
(* of the broker with their quantities, one each; the other entries are its *)
(* trades, whose results they never understate unless the price jumped over *)
(* the stop; and a replayed day ends without positions, with the sum of the *)
(* broker's results as its profit, whatever was stopped or started again in *)
(* between.                                                                 *)
THEOREM SimBooksAgree == SimSpec => []BooksAgree
<1>1. SimInv /\ StoryInv => BooksAgree
  BY LogIsBroker, LogTells, DoneIsFlat DEF BooksAgree
<1> QED
  BY <1>1, SimInvariant, StoryInvariant, PTL

(* In a simulation of synthetic prices the counters of the time exit are    *)
(* those of the positions, and none of them gets to its end.                *)
THEOREM SimNobodyStays == SimSpec => []NobodyStays
<1>1. SimInv => NobodyStays
  <2> SUFFICES ASSUME SimInv, Resting, mode = "live"
               PROVE  /\ Tracked = Held(book)
                      /\ \A s \in Held(book) : ticks[s] < MaxTicks
    BY DEF NobodyStays, Tracked
  <2>1. task = "sleep"
    BY DEF SimInv, Stages, Resting
  <2>2. OpenInLog(log) \subseteq Held(book)
    BY <2>1 DEF SimInv, InStep
  <2> QED
    BY <2>1, <2>2 DEF SimInv, Counted
<1> QED
  BY <1>1, SimInvariant, PTL
=============================================================================
