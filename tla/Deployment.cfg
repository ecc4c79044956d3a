SPECIFICATION DeployFairSpec
CONSTANTS
  Second = 3
  Lags = {1, 3}
  GenTimes = {0, 13, 15}
  Bin = 1
  Bitlength = 5
  ByteBits = 1
  Blocks = 1
  Capacity = 1
  MaxCount = 1
  MaxCrashes = 0
INVARIANTS VerdictOnlyTogether AllOrNothing
PROPERTIES Completes ClientLeftWaiting
CHECK_DEADLOCK FALSE
