SPECIFICATION MarketSpec
CONSTANTS
  s1 = s1
  s2 = s2
  x = x
  Kinds = {"angelone", "upstox"}
  Sockets <- MCSockets
  NoSocket = NoSocket
  MaxAttempts = 2
  Symbols <- MCSymbols
  Prices = {1, 2}
  Intervals <- MCIntervals
  HistoryMax = 1
  Poller = Poller
  NoTick = NoTick
  MaxClock = 2
  MaxTicks = 3
INVARIANTS
  SocketInOrder
  CandlesAreBuckets
PROPERTIES
  DeliversWhileWanted
CHECK_DEADLOCK FALSE
