SPECIFICATION PipelineSpec
CONSTANTS
  Periods <- MCPeriods
  RegimeCfg <- MCRegimeCfg
  Enabled <- MCEnabled
  Histories <- MCHistories
  Readings <- MCReadings
  Bars <- MCBars
  Contexts <- MCContexts
  MinHistory = 9
  MaxBars = 12
  Risk <- MCRisk
  Hours <- MCHours
  LiveMode = FALSE
  EntryPrices <- MCEntryPrices
  StopPrices <- MCStopPrices
  MinEquity <- MCMinEquity
  MaxEquity = 12000
  EquityStep = 1500
INVARIANTS
  SignalsAreSound
  TraceNamesTheRule
  SizedOrdersFit
PROPERTY
  FreshSignals
CHECK_DEADLOCK FALSE
