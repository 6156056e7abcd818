SPECIFICATION AgentSpec
CONSTANTS
  Symbols = {s1, s2}
  Prices <- MCTwoPrices
  Quantities <- MCQuantities
  Intents <- MCTwoSided
  InitialCash = 200
  Exec <- MCExec
  MaxOrders = 2
  Risk <- MCTwoLosses
  Hours <- MCFromTheOpen
  LiveMode = FALSE
  MaxDay = 0
  SquareoffAt = 2
  MaxCrashes = 0
INVARIANT
  LimitUnlessRaced
PROPERTY
  CircuitHalts
