SPECIFICATION Spec
CONSTANTS
  Width = 16
  Pow2 <- MCPow2
  ByteBits = 2
  WordBytes = 4
  Bitlength = 6
  Bouts = {4, 5, 6, 7}
  Leaves = 3
  Threads = 2
  Blocks <- MCBlocks
  Payloads = {1, 43}
  Garbage = {0, 3}
INVARIANTS TypeOK SumsRight Reconstructs GammaAccepted ConvertCuts
CHECK_DEADLOCK FALSE
