----------------------------- MODULE MCPaperBroker -----------------------------
EXTENDS PaperBrokerProps, TLC

MCPrices == {8, 10, 12}
MCQuantities == {1, 2}
MCExec ==
  [slippage_bps |-> 1000, leverage |-> 1, brokerage |-> 3, min_brokerage |-> 1,
   stt_bps |-> 500, levy_bps |-> 0, stamp_bps |-> 400]
(* Four times intraday buying power.                                        *)
MCMarginExec == [MCExec EXCEPT !.leverage = 4]
(* Every use of place_order that the ledger survives.                       *)
MCDisciplined == AllIntents \ {"reshort", "cover"}
Symmetry == Permutations(Symbols)
=============================================================================
