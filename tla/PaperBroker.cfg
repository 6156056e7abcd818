SPECIFICATION Spec
CONSTANTS
  Symbols = {s1, s2}
  Prices <- MCPrices
  Quantities <- MCQuantities
  Intents <- AllIntents
  InitialCash = 20
  Exec <- MCMarginExec
  MaxOrders = 3
INVARIANTS
  TypeOK
  StopsHonoured
  DurableBook
SYMMETRY Symmetry
