SPECIFICATION WalkForwardSpec
CONSTANTS
  Sharpes <- MCSharpes
  DaysPerMonth = 2
  RegimeOfStrategy <- MCRegimeOfStrategy
  SectorOfSymbol <- MCSectorOfSymbol
  Results <- MCResults
  Years = {1, 2}
  MonthsPerYear = 3
  WindowMonths = 2
  Workers = 2
  StartingEquity = 10
  GateCfg <- MCGateCfg
  GateMaxAge = 0
  LastDay = 1
  Machines <- MCMachines
  Signals <- MCSignalRows
  MaxPage = 2
INVARIANTS
  CurveWhole
  ReportsAgree
  DiagnosticsForetell
PROPERTY
  GateSpec
