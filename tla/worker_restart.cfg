SPECIFICATION FairWorkerSpec
CONSTANTS
  Size = 1
  JobSizes = {1}
  MaxRetries = 1
  MaxPolls = 1
  MaxDriftBps = 50
  FailureThreshold = 2
  Endings = {"FILLED", "CANCELLED"}
  PriceReports = {TRUE}
  Holdings <- HedgedAccount
  MaxRounds = 2
  Reads = {r1}
  RestFresh = {TRUE}
  WsFresh = {TRUE}
  RiskActions = {"ALLOW"}
  MaxPosition = 2
  EntryTimeTracked = FALSE
  LiquidationReported = TRUE
  HistoryProvided = FALSE
  MaxCrashes = 0
  MaxReadFailures = 0
PROPERTY RestartRecovers
