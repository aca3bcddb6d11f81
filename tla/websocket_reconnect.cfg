SPECIFICATION FairWsSpec
CONSTANTS
  Enabled = TRUE
  MaxAttempts = 1
  MaxAuthAttempts = 0
  Heartbeat = TRUE
  MaxGenerations = 2
  MaxSends = 0
PROPERTY ReconnectsOnClose
CHECK_DEADLOCK FALSE
