SPECIFICATION BusySpec
CONSTANTS
  Size = 1
  JobSizes = {1}
  MaxRetries = 1
  MaxPolls = 1
  MaxDriftBps = 50
  FailureThreshold = 2
  Endings = {"FILLED", "CANCELLED"}
  PriceReports = {TRUE}
  Holdings <- FlatAccount
  MaxRounds = 3
PROPERTY BreakerIsTested
