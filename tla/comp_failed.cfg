SPECIFICATION Spec
CONSTANTS
  NBlocks = 2
  Keys = {k1, k2}
  MaxCrossPairs = 1
  MaxCalls = 1
  None = None
INVARIANTS
  FailedKeepsOriginal
CHECK_DEADLOCK FALSE
