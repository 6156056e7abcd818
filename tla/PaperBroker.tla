------------------------------ MODULE PaperBroker ------------------------------
(***************************************************************************)
(* The in-memory paper broker (core/broker/paper.py) and its charge model   *)
(* (core/broker/charges.py), as one sequential object: every action below   *)
(* is one complete call of the broker's API, with every nested call that    *)
(* changes state and the on_state_change notification that ends it.         *)
(*                                                                          *)
(* Money is counted in whole ticks: slippage and the percentage charges     *)
(* round down to a tick where the code keeps floats. A position stores its  *)
(* cost basis qty * avg_price instead of avg_price, so that adding to a     *)
(* position is exact; the basis of a partly closed position is split in     *)
(* proportion, to the tick.                                                 *)
(***************************************************************************)
EXTENDS Integers, FiniteSetsExt

CONSTANTS
  Symbols,        \* the tradable names
  Prices,         \* market prices, stops and targets, in ticks
  Quantities,     \* order quantities
  Intents,        \* which uses of place_order the callers make, see Intent
  InitialCash,    \* starting_cash
  Exec,           \* ExecutionCfg: slippage, leverage and the charge rates
  MaxOrders       \* bound: orders and partial exits in a behaviour

(* place_order takes a side; what it then does depends on what is open.     *)
AllIntents ==
  {"open_long", "add_long", "close_long", "open_short", "reshort", "cover"}

ASSUME PaperBrokerAssumption ==
  /\ Symbols # {} /\ IsFiniteSet(Symbols)
  /\ Prices \subseteq Nat \ {0}
  /\ Quantities \subseteq Nat \ {0}
  /\ Intents \subseteq AllIntents
  /\ InitialCash \in Nat
  /\ MaxOrders \in Nat
  /\ Exec \in [slippage_bps: Nat, leverage: Nat, brokerage: Nat,
               min_brokerage: Nat, stt_bps: Nat, levy_bps: Nat, stamp_bps: Nat]
  /\ Exec.slippage_bps <= 10000

VARIABLES
  book,           \* cash, realized P&L, long and short positions, trade_log size
  latestPrices,   \* _latest_prices; NoPrice until a symbol's first tick
  saved,          \* the snapshot_state last handed to on_state_change
  entryFees,      \* history: charges paid on opening fills
  orders          \* history: orders and partial exits so far

vars == <<book, latestPrices, saved, entryFees, orders>>

NoPrice == 0
NoTarget == 0

(* qty = 0 stands for a symbol that is not a key of the dict.               *)
Flat == [qty |-> 0, cost |-> 0, stop |-> 0, target |-> NoTarget, last |-> 0]

Open(pos) == pos.qty > 0

Position == [qty: Nat, cost: Int, stop: Int, target: Int, last: Int]
Book == [cash: Int, realized: Int, trades: Nat,
         longs: [Symbols -> Position], shorts: [Symbols -> Position]]
Snapshot == [cash: Int, realized: Int,
             longs: [Symbols -> Position], shorts: [Symbols -> Position]]

-----------------------------------------------------------------------------
(* Fills and charges                                                        *)

ApplySlippage(price, side) ==
  LET slip == (price * Exec.slippage_bps) \div 10000
  IN  IF side = "BUY" THEN price + slip ELSE price - slip

(* Flat fee or 0.1% of turnover, whichever is lower, but at least the       *)
(* minimum; STT on sells that open or close a long; stamp duty on buys;     *)
(* exchange, SEBI and GST as one rate.                                      *)
ComputeCharges(side, qty, price, isShortCover) ==
  LET turnover  == qty * price
      capped    == IF Exec.brokerage < turnover \div 1000
                   THEN Exec.brokerage ELSE turnover \div 1000
      brokerage == IF turnover <= 0 THEN 0
                   ELSE IF capped < Exec.min_brokerage
                        THEN Exec.min_brokerage ELSE capped
      stt       == IF side = "SELL" /\ ~isShortCover
                   THEN (turnover * Exec.stt_bps) \div 10000 ELSE 0
      levies    == (turnover * Exec.levy_bps) \div 10000
      stamp     == IF side = "BUY"
                   THEN (turnover * Exec.stamp_bps) \div 10000 ELSE 0
  IN  brokerage + stt + levies + stamp

(* qty * avg_price of the part of a position that an exit releases.         *)
Basis(pos, qty) ==
  IF qty = pos.qty THEN pos.cost ELSE (pos.cost * qty) \div pos.qty

-----------------------------------------------------------------------------
(* What the account is worth and may spend                                  *)

(* Cash, long market value, and the running P&L of the shorts.              *)
Equity(b) ==
  b.cash
  + SumFunction([s \in Symbols |-> b.longs[s].qty * b.longs[s].last])
  + SumFunction([s \in Symbols |-> b.shorts[s].cost
                                     - b.shorts[s].qty * b.shorts[s].last])

Exposure(b) ==
  SumFunction([s \in Symbols |-> b.longs[s].qty * b.longs[s].last
                                   + b.shorts[s].cost])

BuyingPower(b) ==
  LET power == IF Exec.leverage <= 1
               THEN b.cash ELSE Equity(b) * Exec.leverage - Exposure(b)
  IN  IF power < 0 THEN 0 ELSE power

-----------------------------------------------------------------------------
(* The internal steps, as functions from book to book                       *)

SnapshotState(b) ==
  [cash |-> b.cash, realized |-> b.realized,
   longs |-> b.longs, shorts |-> b.shorts]

(* trade_log starts empty in a new process.                                 *)
RestoreState(state) ==
  [cash |-> state.cash, realized |-> state.realized, trades |-> 0,
   longs |-> state.longs, shorts |-> state.shorts]

(* Reduce a position, or delete it when all of it is closed.                *)
Reduce(pos, qty) ==
  IF qty >= pos.qty THEN Flat
  ELSE [qty |-> pos.qty - qty, cost |-> pos.cost - Basis(pos, qty),
        stop |-> pos.stop, target |-> pos.target, last |-> pos.last]

Pay(b, amount) == [b EXCEPT !.cash = b.cash - amount]

WithLong(b, s, pos) == [b EXCEPT !.longs = [b.longs EXCEPT ![s] = pos]]

WithShort(b, s, pos) == [b EXCEPT !.shorts = [b.shorts EXCEPT ![s] = pos]]

(* A closed trade: its P&L, its trade_log entry, and what it adds to cash.  *)
Realize(b, pnl, credit) ==
  [cash |-> b.cash + credit, realized |-> b.realized + pnl,
   trades |-> b.trades + 1, longs |-> b.longs, shorts |-> b.shorts]

NewPosition(qty, fill, stop, target) ==
  [qty |-> qty, cost |-> qty * fill, stop |-> stop, target |-> target,
   last |-> fill]

(* Adding averages the entry price and takes the newer stop and target.     *)
OpenOrAddLong(b, s, qty, fill, stop, target) ==
  LET pos == b.longs[s]
  IN  WithLong(b, s,
        IF Open(pos)
        THEN [qty |-> pos.qty + qty, cost |-> pos.cost + qty * fill,
              stop |-> stop, target |-> target, last |-> pos.last]
        ELSE NewPosition(qty, fill, stop, target))

(* _close_long and the proceeds that each of its callers adds to cash.      *)
CloseLong(b, s, qty, fill, fee) ==
  LET pos == b.longs[s]
  IN  WithLong(Realize(b, qty * fill - Basis(pos, qty) - fee, qty * fill - fee),
               s, Reduce(pos, qty))

(* The new position replaces whatever short the symbol had.                 *)
OpenShort(b, s, qty, fill, stop, target) ==
  WithShort(b, s, NewPosition(qty, fill, stop, target))

(* Mutant of CoverShort: the P&L comes back, the held margin does not.      *)
CoverShortKeepsMargin(b, s, qty, fill, fee) ==
  LET pos == b.shorts[s]
      pnl == Basis(pos, qty) - qty * fill - fee
  IN  WithShort(Realize(b, pnl, pnl), s, Reduce(pos, qty))

(* _cover_short returns the held margin and the P&L by itself.              *)
CoverShort(b, s, qty, fill, fee) ==
  LET pos == b.shorts[s]
      pnl == Basis(pos, qty) - qty * fill - fee
  IN  WithShort(Realize(b, pnl, Basis(pos, qty) + pnl), s, Reduce(pos, qty))

(* Close qty of an open position around a reference price.                  *)
ExitLong(b, s, qty, price) ==
  LET fill == ApplySlippage(price, "SELL")
  IN  CloseLong(b, s, qty, fill, ComputeCharges("SELL", qty, fill, FALSE))

ExitShort(b, s, qty, price) ==
  LET fill == ApplySlippage(price, "BUY")
  IN  CoverShort(b, s, qty, fill, ComputeCharges("BUY", qty, fill, TRUE))

MarkToMarket(b, s, px) ==
  LET mark(pos) == IF Open(pos) THEN [pos EXCEPT !.last = px] ELSE pos
  IN  WithShort(WithLong(b, s, mark(b.longs[s])), s, mark(b.shorts[s]))

MaybeExitLong(b, s) ==
  LET pos == b.longs[s]
  IN  IF ~Open(pos) THEN b
      ELSE IF pos.last <= pos.stop THEN ExitLong(b, s, pos.qty, pos.stop)
      ELSE IF pos.target # NoTarget /\ pos.last >= pos.target
           THEN ExitLong(b, s, pos.qty, pos.target)
      ELSE b

(* Mutant of MaybeExitShort: a touch of the stop does not trigger it.       *)
MaybeExitShortPastStop(b, s) ==
  LET pos == b.shorts[s]
  IN  IF ~Open(pos) THEN b
      ELSE IF pos.last > pos.stop THEN ExitShort(b, s, pos.qty, pos.stop)
      ELSE IF pos.target # NoTarget /\ pos.last <= pos.target
           THEN ExitShort(b, s, pos.qty, pos.target)
      ELSE b

MaybeExitShort(b, s) ==
  LET pos == b.shorts[s]
  IN  IF ~Open(pos) THEN b
      ELSE IF pos.last >= pos.stop THEN ExitShort(b, s, pos.qty, pos.stop)
      ELSE IF pos.target # NoTarget /\ pos.last <= pos.target
           THEN ExitShort(b, s, pos.qty, pos.target)
      ELSE b

-----------------------------------------------------------------------------
(* The operations                                                           *)

Init ==
  /\ book = [cash |-> InitialCash, realized |-> 0, trades |-> 0,
             longs |-> [s \in Symbols |-> Flat],
             shorts |-> [s \in Symbols |-> Flat]]
  /\ latestPrices = [s \in Symbols |-> NoPrice]
  /\ saved = SnapshotState(book)
  /\ entryFees = 0
  /\ orders = 0

(* Mutant of UpdateMarketPrices: an automatic exit is not persisted.        *)
UpdateMarketPricesUnsaved(s, px) ==
  /\ latestPrices' = [latestPrices EXCEPT ![s] = px]
  /\ book' = MaybeExitShort(MaybeExitLong(MarkToMarket(book, s, px), s), s)
  /\ UNCHANGED <<saved, entryFees, orders>>

(* One tick: mark the symbol's positions, then exit whichever of them is at *)
(* its stop or target, at the stop or target price. A tick that closes      *)
(* nothing is not handed to on_state_change.                                *)
UpdateMarketPrices(s, px) ==
  LET marked == MarkToMarket(book, s, px)
      after  == MaybeExitShort(MaybeExitLong(marked, s), s)
  IN  /\ latestPrices' = [latestPrices EXCEPT ![s] = px]
      /\ book' = after
      /\ saved' = IF after.trades = marked.trades
                  THEN saved ELSE SnapshotState(after)
      /\ UNCHANGED <<entryFees, orders>>

(* A fill ends with the notification.                                       *)
Fill(after, fee) ==
  /\ book' = after
  /\ saved' = SnapshotState(after)
  /\ entryFees' = entryFees + fee
  /\ orders' = orders + 1
  /\ UNCHANGED latestPrices

(* place_order needs a price for the symbol; a rejected order changes       *)
(* nothing here (its entry in _orders is never read for another decision).  *)
Placing(s, intent) ==
  /\ orders < MaxOrders
  /\ intent \in Intents
  /\ latestPrices[s] # NoPrice

(* Mutant of BuyLong: buying power is compared with the cost alone.         *)
BuyLongFeeUngated(s, qty, stop, target) ==
  LET intent == IF Open(book.longs[s]) THEN "add_long" ELSE "open_long"
      fill   == ApplySlippage(latestPrices[s], "BUY")
      fee    == ComputeCharges("BUY", qty, fill, FALSE)
  IN  /\ Placing(s, intent)
      /\ ~Open(book.shorts[s])
      /\ BuyingPower(book) >= qty * fill
      /\ Fill(OpenOrAddLong(Pay(book, qty * fill + fee),
                            s, qty, fill, stop, target), fee)

BuyLong(s, qty, stop, target) ==
  LET intent == IF Open(book.longs[s]) THEN "add_long" ELSE "open_long"
      fill   == ApplySlippage(latestPrices[s], "BUY")
      fee    == ComputeCharges("BUY", qty, fill, FALSE)
  IN  /\ Placing(s, intent)
      /\ ~Open(book.shorts[s])
      /\ BuyingPower(book) >= qty * fill + fee
      /\ Fill(OpenOrAddLong(Pay(book, qty * fill + fee),
                            s, qty, fill, stop, target), fee)

(* A BUY on an open short: _cover_short has already settled the cover when  *)
(* place_order charges the purchase to cash as well.                        *)
BuyToCover(s, qty) ==
  LET fill    == ApplySlippage(latestPrices[s], "BUY")
      fee     == ComputeCharges("BUY", qty, fill, TRUE)
      covered == CoverShort(book, s, qty, fill, fee)
  IN  /\ Placing(s, "cover")
      /\ Open(book.shorts[s])
      /\ Fill(Pay(covered, qty * fill + fee), 0)

SellLong(s, qty) ==
  LET fill == ApplySlippage(latestPrices[s], "SELL")
  IN  /\ Placing(s, "close_long")
      /\ Open(book.longs[s])
      /\ qty <= book.longs[s].qty
      /\ Fill(CloseLong(book, s, qty, fill,
                        ComputeCharges("SELL", qty, fill, FALSE)), 0)

SellShort(s, qty, stop, target) ==
  LET intent == IF Open(book.shorts[s]) THEN "reshort" ELSE "open_short"
      fill   == ApplySlippage(latestPrices[s], "SELL")
      fee    == ComputeCharges("SELL", qty, fill, FALSE)
  IN  /\ Placing(s, intent)
      /\ ~Open(book.longs[s])
      /\ BuyingPower(book) >= qty * fill + fee
      /\ Fill(OpenShort(Pay(book, qty * fill + fee),
                        s, qty, fill, stop, target), fee)

(* Partial profit booking: at most what is open, long before short.         *)
PartialExit(s, qty, price) ==
  LET least(a, b) == IF a < b THEN a ELSE b
      long  == book.longs[s]
      short == book.shorts[s]
  IN  /\ orders < MaxOrders
      /\ \/ /\ Open(long)
            /\ Fill(ExitLong(book, s, least(qty, long.qty), price), 0)
         \/ /\ ~Open(long)
            /\ Open(short)
            /\ Fill(ExitShort(book, s, least(qty, short.qty), price), 0)

(* Mutant of Restart: prices are seeded from the snapshot's last_price.     *)
RestartSeedsPrices ==
  /\ book' = RestoreState(saved)
  /\ latestPrices' = [s \in Symbols |-> saved.longs[s].last]
  /\ UNCHANGED <<saved, entryFees, orders>>

(* A new process rehydrates the last snapshot; prices have to tick again.   *)
Restart ==
  /\ book' = RestoreState(saved)
  /\ latestPrices' = [s \in Symbols |-> NoPrice]
  /\ UNCHANGED <<saved, entryFees, orders>>

(* Stops and targets as guardrails.py:110 lets them through: the stop on    *)
(* the losing side of the entry price, the target, if any, on the other.    *)
LegalBuyExits(s, stop, target) ==
  /\ stop < latestPrices[s]
  /\ target # NoTarget => target > latestPrices[s]

LegalShortExits(s, stop, target) ==
  /\ stop > latestPrices[s]
  /\ target # NoTarget => target < latestPrices[s]

Next ==
  \/ \E s \in Symbols, px \in Prices : UpdateMarketPrices(s, px)
  \/ \E s \in Symbols, qty \in Quantities :
       \/ \E stop \in Prices, target \in Prices \cup {NoTarget} :
            \/ /\ LegalBuyExits(s, stop, target)
               /\ BuyLong(s, qty, stop, target)
            \/ /\ LegalShortExits(s, stop, target)
               /\ SellShort(s, qty, stop, target)
       \/ BuyToCover(s, qty)
       \/ SellLong(s, qty)
       \/ \E price \in Prices : PartialExit(s, qty, price)
  \/ Restart

Spec == Init /\ [][Next]_vars

=============================================================================
