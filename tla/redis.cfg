SPECIFICATION Spec
CONSTANTS
  NKeys = 2
  TotalUsd = 11
  Grain = 2
  MinAllocation = 2
  Desires <- MCDesires
  Budgets <- MCBudgets
  Costs <- MCCosts
  NonFinite = NonFinite
  NoKey = NoKey
  NoAlloc = NoAlloc
  NoGrant = NoGrant
  MaxSettles = 2
  MaxLate = 2
  Retries <- MCRetries
  Faults = TRUE
INVARIANTS TypeOK BudgetNeverCreated BudgetNeverLost ReservedGrantIsBacked
PROPERTIES ImplementsLedger
CHECK_DEADLOCK FALSE
