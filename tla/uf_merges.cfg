SPECIFICATION FairSpec
CONSTANTS
  MaxId = 4
  MaxEpochs = 1
  Coexist = FALSE
  Rebuilds = FALSE
  None = None
INVARIANTS
  TypeOK
  RootsAreLive
  EnumerationsFrozen
CHECK_DEADLOCK FALSE
PROPERTIES
  RefinesPartition
  OperationsReturn
