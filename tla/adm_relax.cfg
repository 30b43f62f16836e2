SPECIFICATION Spec
CONSTANTS
  fuse = fuse
  slice = slice
  aligned = aligned
  square = square
  led = led
  oth = oth
  Arenas = {a1}
  Clerks = {c1}
  Loaders = {l1}
  Keys = {fuse, slice}
  Clauses = {aligned, square}
  Names = {led, oth}
  Ledger = {led}
  Library <- MCLibrary
  Given <- MCGiven
  Viewish = {slice}
  Derivable = {slice}
  Nested = {slice}
  Sound = {fuse}
  Sites <- MCSites
  Outcome <- MCOutcome
  Accepts <- MCAccepts
  Synth <- MCSynth
  Deep <- MCDeep
  Oracle <- MCOracle
  Probe <- MCProbeClean
  Real <- MCRealEven
  MaxClauses = 2
  MaxGrowth = 1
  MaxStores = 2
  Unguarded = Unguarded
  None = None
CHECK_DEADLOCK FALSE
INVARIANT RelaxedAreClean
