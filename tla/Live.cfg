SPECIFICATION LiveSpec
CONSTANTS
  Symbols = {s1, s2}
  Balances = {80, 100}
  Entry = 20
  StopAway = 2
  MaxOrders = 2
  GateMaxAge = 0
  LastDay = 1
  Risk <- MCRisk
  Hours <- MCHours
  LiveMode = TRUE
INVARIANTS
  ExposureWasDecided
  LimitUnlessBlind
PROPERTIES
  LiveIsGated
  LossEndsSession
CHECK_DEADLOCK FALSE
