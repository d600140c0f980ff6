\* Three steps, two parallel calls, two repairs' worth of junk: every ceiling
\* can be the one that is hit, and each may be overrun.  Fair, without symmetry:
\* the contract includes that the investigation ends.
SPECIFICATION FairSpec
CONSTANTS
  a = a
  b = b
  c = c
  None = None
  MaxSteps = 3
  MaxToolCalls = 3
  MaxOutputTokens = 4
  MaxConsecutiveErrors = 2
  RepairAttempts = 1
  Signatures = {a, b, c}
  MaxParallel = 2
  TokenCosts = {0, 1, 3}
  MaxCost = 3
INVARIANTS
  TypeOK
  Bounded
  NonRepeating
  RepeatedErrorsBreakTheLoop
  ConversationWellFormed
  NeverEndsOnBudget
PROPERTIES
  ImplementsInvestigation
