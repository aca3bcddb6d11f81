SPECIFICATION RkSpec
CONSTANTS
  MaxPositionSize = 5
  WarningPositionSize = 4
  MaxDailyLoss = 1
  MaxEquity = 3
  Mark = 10
INVARIANT UrgentRiskExits
CHECK_DEADLOCK FALSE
