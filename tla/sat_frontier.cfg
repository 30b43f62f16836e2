SPECIFICATION Spec
CONSTANTS
  OpOrder <- MCOpOrder
  KeyOrder <- MCKeyOrder
  NoKey = "none"
  Parts <- MCParts
  Rules <- MCRules
  RuleSets <- Alternating
  Budgets <- NoBudgets
  Tracks <- Either
  Terms <- SimpleTerms
  Denote <- MCDenote
  MatchCap = 256
  MaxIterations = 6
  MaxNodes = 100
  Patience = 0
  MaxRuns = 2
  MaxOffers = 1
INVARIANTS
  MergesAreSound
  HashconsIsLive
  PruneIsSound
  WorklistCoversCongruence
  FilterKeepsMatches
  FrontierComplete
  RunSaturates
CHECK_DEADLOCK FALSE
