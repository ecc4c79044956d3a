SPECIFICATION FairSpec
CONSTANTS
  Points = 4
  Modulus = 4
  Blocks = 2
  Threads = 2
  Ind = 1
  Databases <- MCDatabases
  Masks <- MCMasks
INVARIANTS PartialSums HonestRetrieval WrongOutputDetected
PROPERTIES Retrieved
CHECK_DEADLOCK FALSE
