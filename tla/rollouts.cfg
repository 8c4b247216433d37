SPECIFICATION Spec
CONSTANTS
  r1 = r1
  bad = bad
  chain = chain
  Rollouts = {r1, bad}
  Chains = {chain}
  ChainOf <- MCChainOf
  Invalid = {bad}
  NoResult = NoResult
  NoBundle = NoBundle
  BareResults = TRUE
  MaxHistory = 6
  MaxVersion = 4
INVARIANTS TypeOK ActiveWasReviewed InvalidGoesNowhere
PROPERTIES ResultStands ActiveIsLive
CHECK_DEADLOCK FALSE
