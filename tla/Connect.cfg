SPECIFICATION SetupSpec
CONSTANTS
  Second = 3
  Lags = {1, 3}
  GenTimes = {0, 13, 15}
INVARIANTS SetupTypeOK OnlyTogether
CHECK_DEADLOCK FALSE
