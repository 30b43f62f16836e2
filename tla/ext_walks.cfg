SPECIFICATION Spec
CONSTANTS
  OpOrder <- MCOpOrder
  KeyOrder <- MCKeyOrder
  NoKey = "none"
  Cost <- MCCost
  Foldable <- MCFoldable
  Params <- MCParams
  MaxMembers = 2
  Classes = {1, 2, 3}
  Pool <- SmallPool
INVARIANTS
  RepresentativesExist
  BilledOnce
  DagsAreExact
CHECK_DEADLOCK FALSE
