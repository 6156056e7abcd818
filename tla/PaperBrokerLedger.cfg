SPECIFICATION Spec
CONSTANTS
  Symbols = {s1, s2}
  Prices <- MCPrices
  Quantities <- MCQuantities
  Intents <- MCDisciplined
  InitialCash = 40
  Exec <- MCExec
  MaxOrders = 3
INVARIANTS
  NoOverdraft
PROPERTIES
  LedgerStep
  IsAnAccount
SYMMETRY Symmetry
