SPECIFICATION ConcurrencySpec
CONSTANTS
  c1 = c1
  c2 = c2
  c3 = c3
  Callers <- ThreeCallers
  MaxTokens = 1
  MaxRetries = 1
  MaxExecutes = 3
  FailureThreshold = 2
  MaxJobs = 4
  ConcurrentHandlers = 2
  MaxQueueSize = 3
  MaxDrops = 1
  MaxUncounted = 3
  TaskIds = {"data-collector", "impact-sampler"}
  MaxTaskRetries = 1
  MaxSchedules = 3
  Streams = {"ticker", "orders"}
  Silent = {"orders"}
  StaleThreshold = 2
  Enabled = TRUE
  MaxAttempts = 1
  MaxAuthAttempts = 0
  Heartbeat = TRUE
  MaxGenerations = 3
  MaxSends = 2
INVARIANTS
  ConcurrencyTypeOK
  RateLimit
  ProbeDiscipline
  MetricsAddUp
  StatusTruthful
  BacklogBounded
  StopIsFinal
  SendsInOrder
  AttemptsBounded
  SingleFlight
  DisconnectIsFinal
PROPERTIES
  OpenIsQuiet
  ExecuteSettles
  ImplementsSequence
  JobsSettle
  SilenceIsReported
  ConnectSettles
CHECK_DEADLOCK FALSE
