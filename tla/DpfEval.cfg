SPECIFICATION EvalFairSpec
CONSTANTS
  Word = {0, 1}
  Aes <- MCAes
  Modulus = 2
  Convert <- MCConvert
  Height = 2
  Threads = 2
  Pow2 <- MCPow2
  NoTable = NoTable
INVARIANTS LayersMatch PackMatchesDealer EvalAgrees
PROPERTIES SharingSpec BothReturn
CHECK_DEADLOCK FALSE
