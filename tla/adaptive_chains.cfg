CONSTANTS
  Chains = {c1, c2}
  Intents <- MCIntents
  Outcomes <- MCOutcomes
  Setups <- MCSetups
  Price <- MCPrice
  FallbackCost = 10
  RequestBudget = 400
  Overshoot = 50
  BaseCeiling = 100
  MinCeiling = 40
  MaxCeiling = 200
  CooldownSteps = 2
  DepthThreshold = 4
  FailureStreakElevated = 1
  FailureStreakCritical = 2
  DepthSoft = 3
  DepthHard = 4
  CostMinHistory = 2
  LoosenMinStreak = 1
  ViewLimit = 4
  MaxOutcomes = 5
  MaxModels = 1
  MaxSteps = 6
SPECIFICATION Spec
PROPERTY CooldownPerChain
SYMMETRY MCSymmetry
CHECK_DEADLOCK FALSE
