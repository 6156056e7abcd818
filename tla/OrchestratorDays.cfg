SPECIFICATION AgentSpec
CONSTANTS
  Symbols = {s1}
  Prices <- MCTwoPrices
  Quantities <- MCQuantities
  Intents <- MCLongOnly
  InitialCash = 40
  Exec <- MCExec
  MaxOrders = 2
  Risk <- MCRisk
  Hours <- MCHours
  LiveMode = FALSE
  MaxDay = 1
  SquareoffAt = 4
  MaxCrashes = 2
INVARIANTS
  MorningBaseline
  FlatAfterClose
PROPERTY
  SameDayRestart
