SPECIFICATION Spec
CONSTANTS
  MaxHeight = 4
  Pow2 <- MCPow2
  Heights = {0, 1, 2, 3, 4}
  InputSize = 3
  Threads = 3
INVARIANTS SafeAccess LostIsKnown
CHECK_DEADLOCK FALSE
