SPECIFICATION Spec
CONSTANTS
  r1 = r1
  bad = bad
  chain = chain
  Rollouts = {r1}
  Chains = {chain}
  ChainOf <- MCChainOf
  Invalid = {}
  NoResult = NoResult
  NoBundle = NoBundle
  BareResults = FALSE
  MaxHistory = 6
  MaxVersion = 4
INVARIANT LiveWasActivated
CHECK_DEADLOCK FALSE
