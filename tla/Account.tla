-------------------------------- MODULE Account --------------------------------
(***************************************************************************)
(* What any paper account promises, whatever it trades: an entry moves cash *)
(* into open positions and pays a charge, an exit moves the cost of what it *)
(* closes back and realizes the difference, and nothing else moves money.   *)
(***************************************************************************)
EXTENDS Integers

CONSTANT InitialCash

VARIABLES
  cash,       \* free cash
  held,       \* cost of open longs, margin of open shorts
  realized,   \* P&L of closed positions, net of their exit charges
  entryFees   \* charges of opening fills

vars == <<cash, held, realized, entryFees>>

Init ==
  /\ cash = InitialCash
  /\ held = 0
  /\ realized = 0
  /\ entryFees = 0

(* Tie a position up: what leaves cash is its cost and the charge.          *)
Enter ==
  /\ held' > held
  /\ entryFees' >= entryFees
  /\ cash - cash' = (held' - held) + (entryFees' - entryFees)
  /\ UNCHANGED realized

(* Release a position: its cost and its P&L come back.                      *)
Leave ==
  /\ held' < held
  /\ cash' - cash = (held - held') + (realized' - realized)
  /\ UNCHANGED entryFees

Next == Enter \/ Leave

Spec == Init /\ [][Next]_vars

(* The balance sheet that follows.                                          *)
Balanced == cash + held = InitialCash + realized - entryFees
=============================================================================
