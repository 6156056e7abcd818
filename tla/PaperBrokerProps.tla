---------------------------- MODULE PaperBrokerProps ----------------------------
(***************************************************************************)
(* What the paper broker (core/broker/paper.py) has to get right.           *)
(***************************************************************************)
EXTENDS PaperBroker

TypeOK ==
  /\ book \in Book
  /\ latestPrices \in [Symbols -> Prices \cup {NoPrice}]
  /\ saved \in Snapshot
  /\ entryFees \in Int
  /\ orders \in Nat

(* A symbol is never long and short at once. place_order decides by the     *)
(* side already open, update_market_prices and partial_exit rely on it, and *)
(* the two dicts are restored independently (paper.py:93).                  *)
OneSided(b) ==
  \A s \in Symbols : ~(Open(b.longs[s]) /\ Open(b.shorts[s]))

NoDualBook == OneSided(book)

InsideStops(b) ==
  \A s \in Symbols :
    /\ Open(b.longs[s]) => b.longs[s].last > b.longs[s].stop
    /\ Open(b.shorts[s]) => b.shorts[s].last < b.shorts[s].stop

(* No position survives with its last price at or beyond its stop: neither  *)
(* a tick, an addition that moves the stop, a partial exit nor a restart    *)
(* leaves one behind (paper.py:229, paper.py:261, paper.py:75).             *)
StopsHonoured == InsideStops(book)

Unmarked(pos) == [pos EXCEPT !.last = 0]

Restorable(snapshot, b) ==
  /\ snapshot.cash = b.cash
  /\ snapshot.realized = b.realized
  /\ \A s \in Symbols :
       /\ Unmarked(snapshot.longs[s]) = Unmarked(b.longs[s])
       /\ Unmarked(snapshot.shorts[s]) = Unmarked(b.shorts[s])

(* What a restart would restore is the account as it is now: every path     *)
(* that changes cash, realized P&L or a position ends in on_state_change.   *)
(* Only last_price may lag, since a tick alone is not persisted.            *)
DurableBook == Restorable(saved, book)

-----------------------------------------------------------------------------
(* The inductive invariant                                                  *)

(* A symbol that is not held has no cost: closing all of a position clears  *)
(* its whole basis.                                                         *)
FlatIsFree(b) ==
  \A s \in Symbols :
    /\ ~Open(b.longs[s]) => b.longs[s].cost = 0
    /\ ~Open(b.shorts[s]) => b.shorts[s].cost = 0

(* Where a price is known, a long was last marked at or above it and a      *)
(* short at or below it: a tick marks at the price, an opening fill marks   *)
(* at the price plus slippage.                                              *)
Tracks(b, prices) ==
  \A s \in Symbols : prices[s] # NoPrice =>
    /\ Open(b.longs[s]) => b.longs[s].last >= prices[s]
    /\ Open(b.shorts[s]) => b.shorts[s].last <= prices[s]

Sound(b, prices) ==
  /\ b \in Book
  /\ OneSided(b)
  /\ InsideStops(b)
  /\ FlatIsFree(b)
  /\ Tracks(b, prices)

IInv ==
  /\ TypeOK
  /\ Sound(book, latestPrices)
  /\ InsideStops(saved)
  /\ DurableBook

-----------------------------------------------------------------------------
(* Money                                                                    *)

(* Cost of the open longs and margin held for the open shorts.              *)
Held(b) ==
  SumFunction([s \in Symbols |-> b.longs[s].cost + b.shorts[s].cost])

(* Money is conserved: cash and what the open positions cost are the        *)
(* starting cash, plus the realized P&L of every exit, less the charges of  *)
(* every opening fill. Slippage, stops, targets, partial exits and restarts *)
(* neither create nor lose a tick.                                          *)
LedgerBalances ==
  book.cash + Held(book) = InitialCash + book.realized - entryFees

(* From book b to book a, money moved through symbol s alone, and cash      *)
(* changed by the realized P&L less the new charges and the new cost.       *)
MovesThrough(s, b, a, fees) ==
  LET cost(c, t) == c.longs[t].cost + c.shorts[t].cost
  IN  /\ \A t \in Symbols \ {s} : cost(a, t) = cost(b, t)
      /\ a.cash - b.cash + cost(a, s) - cost(b, s)
           = a.realized - b.realized - fees

(* Conservation step by step: every call moves the money of one symbol.     *)
LedgerStep ==
  [][\E s \in Symbols : MovesThrough(s, book, book', entryFees' - entryFees)]_vars

(* Without leverage the broker never funds the account: buying_power gates  *)
(* every opening fill, charges included, and an exit pays for itself, a     *)
(* short's up to about twice the price it was sold at, where its margin and *)
(* what it loses are even (paper.py:107, paper.py:170, paper.py:190).       *)
NoOverdraft ==
  Exec.leverage <= 1 => book.cash >= 0

(* The broker is an account: what it holds is the cost of its positions.    *)
account == INSTANCE Account
             WITH cash <- book.cash, held <- Held(book),
                  realized <- book.realized, entryFees <- entryFees

(* Every call of the broker is an entry, an exit or no movement of money.   *)
IsAnAccount == account!Spec
=============================================================================
