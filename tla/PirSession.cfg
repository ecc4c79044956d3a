SPECIFICATION FairSpec
CONSTANTS
  Bin = 2
  Bitlength = 5
  ByteBits = 1
  Blocks = 2
  Capacity = 1
  MaxCount = 2
  MaxCrashes = 1
INVARIANTS TypeOK Framed AcceptIsVerdict CleanFinish
PROPERTIES AllStop
CHECK_DEADLOCK FALSE
