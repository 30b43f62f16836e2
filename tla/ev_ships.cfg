SPECIFICATION Spec
CONSTANTS
  a = a
  b = b
  full = full
  held = held
  Pipelines = {p1}
  Sessions = {s1}
  Candidates = {a, b}
  Full = full
  Libraries = {full, held}
  Batches <- MCBatches
  Measured <- MCMeasured
  MaxRuns = 2
  MaxEdits = 1
  MaxGrowth = 1
  MaxClock = 1
  MaxRows = 2
  Unknown = Unknown
  None = None
CHECK_DEADLOCK FALSE
INVARIANT ShippedWasShippable
