SPECIFICATION CheckSpec
CONSTANTS
  Word = {0}
  Aes <- MCAes
  Modulus = 2
  Convert <- MCConvert
  Height = 2
  Threads = 1
  Pow2 <- MCPow2
  NoPack = NoPack
INVARIANTS HonestAccepted AcceptedPacksMatch
CHECK_DEADLOCK FALSE
