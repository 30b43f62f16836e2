SPECIFICATION Spec
CONSTANTS
  NBlocks = 3
  Keys = {k1, k2}
  MaxCrossPairs = 2
  MaxCalls = 2
  None = None
INVARIANTS
  TypeOK
  ShipsOnlyVerified
  PairsWhole
  AuditSumsReplacements
PROPERTIES
  TemplatesStay
  DeliversAsPromised
CHECK_DEADLOCK FALSE
