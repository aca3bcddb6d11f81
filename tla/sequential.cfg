SPECIFICATION SequentialSpec
CONSTANTS
  Size = 2
  JobSizes = {0, 2}
  MaxRetries = 2
  MaxPolls = 1
  MaxDriftBps = 50
  FailureThreshold = 2
  Endings = {"FILLED", "PARTIALLY_FILLED", "CANCELLED"}
  PriceReports = {TRUE, FALSE}
  Holdings <- FlatOrHedged
  MaxRounds = 2
  Quantity = 3
  MaxEntries = 2
  MaxPositionSize = 5
  WarningPositionSize = 4
  MaxDailyLoss = 1
  MaxEquity = 3
  Mark = 10
  Rates <- FundingRates
  PredictedRates = {2, 30}
  Sizes = {100, 2000}
  MaxAge = 2
  Interval = 3
  TickerStale = 1
  FundingStale = 6
  AccountStale = 5
  MaxLatency = 1
  MaxStarts = 2
  MessageTypes = {"ticker", "order", "heartbeat"}
  DedupedTypes = {"ticker", "order"}
  DedupeKeys = {"k1", "k2", "k3"}
  MaxDedupe = 2
  DedupeTtl = 1
  PerpSizes = {0, 196, 197}
  RiskTerms = {"safe", "near liquidation"}
  Assets = {"base", "quote"}
  Totals = {0, 196, 197}
  ToleranceSizeBps = 50
  ToleranceBalanceBps = 50
  SampledMarkets = {"ETH/USD", "BTC/USD"}
  Impacts = {2, 5, 8}
  MedianThreshold = 3
  P90Threshold = 8
  MaxSamples = 10
INVARIANTS
  CleanEntryIsHedged
  OrdersArePositive
  ShortNeverFlips
  ExposureBound
  ThrownExitLeavesPerp
  ComponentsTypeOK
  NeverOverCounted
  InOrderIsExact
  PhaseTellsLegs
  NoChurn
  VolatilityIsFloor
  PunctualIsFresh
  StopIsComplete
  DedupeIsExact
  GoBoundsImpact
PROPERTIES
  OpenBreakerIsFinal
  SeverityNeverFalls
  SizedEntryIsAllowed
  ReportIsExact
