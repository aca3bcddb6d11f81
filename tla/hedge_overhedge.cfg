SPECIFICATION Spec
CONSTANTS
  Size = 2
  JobSizes = {2}
  MaxRetries = 1
  MaxPolls = 1
  MaxDriftBps = 50
  FailureThreshold = 2
  Endings = {"FILLED", "PARTIALLY_FILLED"}
  PriceReports = {TRUE}
  Holdings <- FlatAccount
  MaxRounds = 1
INVARIANT EntryIsHedged
