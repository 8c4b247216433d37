SPECIFICATION FairSpec
CONSTANTS
  NProcs = 2
  NChains = 1
  NSteps = 2
  ProcOf <- MCTwoProcs
  ChainOf <- MCOneChain
  KeyOf <- MCOwnKeys
  NKeys = 2
  Budget = 4
  Dollar = 2
  BaseCeiling = 2
  MaxCeiling = 2
  MinCeiling = 1
  Arbiter = "redis"
  Denied = {}
  Recommendations = {"continue"}
  OrgCeiling = 1
  OrgPriority = 99
  Threads = 1
  MayTimeOut = {"arbiter","collector"}
  MayFail = {"commit"}
  MaxCalls = 1
  Overshoot = 0
  MaxCrashes = 1
  SharedUsd = 3
  Faults = TRUE
  MaxLate = 1
  MinAllocation = 1
  NonFinite = NonFinite
  NoKey = NoKey
  NoAlloc = NoAlloc
  NoGrant = NoGrant
INVARIANTS OrgCapHolds ChargedOnceCommitted
PROPERTIES ReleasedWhenCommitted StepCompletes
CHECK_DEADLOCK FALSE
