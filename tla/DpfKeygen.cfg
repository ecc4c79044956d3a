SPECIFICATION FairSpec
CONSTANTS
  Word = {0, 1}
  Aes <- MCAes
  Modulus = 4
  Convert <- MCConvert
  Height = 2
  Threads = 2
  Pow2 <- MCPow2
INVARIANTS TypeOK PathInvariant SumsInvariant ShareCorrect
PROPERTIES Terminates
CHECK_DEADLOCK FALSE
