CONSTANTS
  s1 = s1
  s2 = s2
  s3 = s3
  Symbols = {s1, s2, s3}
  Universe <- MCUniverse
  Prices <- MCPrices
  Quantities <- MCQuantities
  Intents <- AllIntents
  InitialCash = 100
  Exec <- MCExec
  MaxOrders = 3
  Risk <- MCRisk
  Hours <- MCHours
  LiveMode = FALSE
  Signals <- MCSignals
  MaxTicks = 2
  MaxCurve = 2
  Steps = 4
  LastSteps = 2
  Volume = 100000
  Spread = 0
SPECIFICATION SimSpec
INVARIANTS BooksAgree NobodyStays
PROPERTIES ReplayEnds
