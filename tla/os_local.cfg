SPECIFICATION Spec
CONSTANTS
  NProcs = 1
  NChains = 3
  NSteps = 4
  ProcOf <- MCOneProc
  ChainOf <- MCThreeChains
  KeyOf <- MCOwnKeys
  NKeys = 4
  Budget = 2
  Dollar = 2
  BaseCeiling = 1
  MaxCeiling = 1
  MinCeiling = 1
  Arbiter = "passthrough"
  Denied = {4}
  Recommendations = {"continue"}
  OrgCeiling = 9
  OrgPriority = 99
  Threads = 2
  MayTimeOut = {}
  MayFail = {"snapshot", "history"}
  MaxCalls = 1
  Overshoot = 1
  MaxCrashes = 0
  SharedUsd = 4
  Faults = FALSE
  MaxLate = 0
  MinAllocation = 1
  NonFinite = NonFinite
  NoKey = NoKey
  NoAlloc = NoAlloc
  NoGrant = NoGrant
INVARIANTS RequestBudgetRespected OverrunBounded
CHECK_DEADLOCK FALSE
