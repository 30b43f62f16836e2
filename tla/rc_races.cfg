SPECIFICATION Spec
CONSTANTS
  Procs = {p1, p2, p3}
  closure1 = closure1
  closure2 = closure2
  other = other
  factory = factory
  alone = alone
  Hooks = {closure1, closure2, other}
  Keys = {factory, alone}
  Signature <- SourceText
  Chunks = 2
  MaxCalls = 4
  MaxCrashes = 1
  None = None
INVARIANTS
  TypeOK
  LoadsAreWhole
  TornOnlyByWriters
  RaisesOnlyWhenStored
SYMMETRY Symmetric
CHECK_DEADLOCK FALSE
