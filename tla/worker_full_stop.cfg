SPECIFICATION WorkerSpec
CONSTANTS
  Size = 1
  JobSizes = {1}
  MaxRetries = 1
  MaxPolls = 1
  MaxDriftBps = 50
  FailureThreshold = 2
  Endings = {"FILLED"}
  PriceReports = {TRUE}
  Holdings <- FlatAccount
  MaxRounds = 2
  Reads = {r1}
  RestFresh = {TRUE}
  WsFresh = {TRUE}
  RiskActions = {"ALLOW"}
  MaxPosition = 2
  EntryTimeTracked = TRUE
  LiquidationReported = FALSE
  HistoryProvided = TRUE
  MaxCrashes = 0
  MaxReadFailures = 0
PROPERTY FailuresStopEntries
