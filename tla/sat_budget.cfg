SPECIFICATION Spec
CONSTANTS
  OpOrder <- MCOpOrder
  KeyOrder <- MintKeyOrder
  NoKey = "none"
  Parts <- MintParts
  Rules <- MintRules
  RuleSets <- ProofRules
  Budgets <- SmallBudgets
  Tracks <- Either
  Terms <- ProofTerms
  Denote <- MintDenote
  MatchCap = 256
  MaxIterations = 3
  MaxNodes = 14
  Patience = 1
  MaxRuns = 2
  MaxOffers = 1
  CertMaxDepth = 8
  CertMaxSteps = 24
  EdgeMaxDepth = 16
  EdgeBudget = 512
INVARIANTS
  BudgetBounds
  CertificatesReplay
CHECK_DEADLOCK FALSE
