SPECIFICATION FairSpec
CONSTANTS
  Word = {0, 1}
  Aes <- MCAes
  Modulus = 2
  Convert <- MCConvert
  Sizes = {1, 2, 4}
  Threads = 3
INVARIANTS TypeOK LayerCorrect
PROPERTIES Replaced
CHECK_DEADLOCK FALSE
