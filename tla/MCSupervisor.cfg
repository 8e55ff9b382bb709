SPECIFICATION FairSpec

CONSTANTS
  Agent = {a1}
  Finite = {a1}
  Panicking = {a1}
  Unreachable = {a1}
  Budget = 2
  Window = 3
  Backoff = 1
  MaxTime = 7
  None = None

INVARIANTS
  BudgetRespected
  RetiredOverBudget
  ShutdownOnce
  

PROPERTIES
  BeatsInOrder
  ShutdownCompletes
  RestartFollows

CHECK_DEADLOCK FALSE
