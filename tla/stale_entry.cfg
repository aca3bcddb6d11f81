SPECIFICATION FgSpec
CONSTANTS
  Interval = 3
  TickerStale = 1
  FundingStale = 6
  AccountStale = 5
  MaxLatency = 1
  MaxStarts = 1
PROPERTY NoEntryOnStaleData
CHECK_DEADLOCK FALSE
