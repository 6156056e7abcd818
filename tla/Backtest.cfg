CONSTANTS
  s1 = s1
  s2 = s2
  Symbols = {s1, s2}
  Universe <- MCUniverse
  Prices <- MCPrices
  Quantities <- MCQuantities
  Intents <- AllIntents
  InitialCash = 200
  Exec <- MCExec
  MaxOrders = 2
  Risk <- MCRisk
  Hours <- MCHours
  LiveMode = FALSE
  NStrategies = 1
  Bars <- MCBars
  Contexts <- MCContexts
  Signals <- MCSignals
  Adv <- MCAdv
  MaxAge = 1
  MaxDays = 4
SPECIFICATION BacktestSpec
INVARIANTS DayIsSettled BoostNeverTrades
PROPERTIES NoLossAfterBreakeven StopsAreKept
CHECK_DEADLOCK FALSE
