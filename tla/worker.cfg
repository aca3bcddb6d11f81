SPECIFICATION FairWorkerSpec
CONSTANTS
  Size = 1
  JobSizes = {1}
  MaxRetries = 1
  MaxPolls = 1
  MaxDriftBps = 50
  FailureThreshold = 2
  Endings = {"FILLED", "CANCELLED"}
  PriceReports = {TRUE}
  Holdings <- FlatOrHedged
  MaxRounds = 1
  Reads = {r1, r2}
  RestFresh = {TRUE, FALSE}
  WsFresh = {TRUE}
  RiskActions = {"ALLOW", "EXIT"}
  MaxPosition = 1
  EntryTimeTracked = TRUE
  LiquidationReported = FALSE
  HistoryProvided = TRUE
  MaxCrashes = 1
  MaxReadFailures = 1
INVARIANTS
  WorkerTypeOK
  BreakerHasNoEffect
PROPERTIES
  HeldPositionBlocksEntry
  StoreConverges
