SPECIFICATION NseSpec
CONSTANTS
  main = main
  feed = feed
  page = page
  vix = vix
  pcr = pcr
  Nobody = Nobody
  Threads <- MCThreads
  Sources <- MCSources
  TwoRequests <- MCTwoRequests
  Uses <- MCUses
  Ttl <- MCTtl
  Gap = 2
  Threshold = 2
  Lockout = 2
  Periodic <- MCPeriodic
INVARIANTS
  RefusalsBounded
  FreshIsFresh
PROPERTIES
  IsPaced
  NobodyIsShutOut
