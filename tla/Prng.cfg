SPECIFICATION PrngFairSpec
CONSTANTS
  Seeds = {s1, s2}
  NoSeed = NoSeed
  BlockBytes = 3
  BufferSizes = {1, 2, 3}
  Lengths = {0, 1, 3, 8}
  MaxBytes = 20
INVARIANTS PrngTypeOK StreamContinues
PROPERTIES Answered
CHECK_DEADLOCK FALSE
