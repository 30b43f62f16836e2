SPECIFICATION Spec
CONSTANTS
  MaxId = 3
  MaxEpochs = 2
  Coexist = TRUE
  Rebuilds = TRUE
  None = None
INVARIANTS
  RegisteredEpochsFrozen
CHECK_DEADLOCK FALSE
