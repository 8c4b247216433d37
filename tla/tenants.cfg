CONSTANTS
  A = A
  B = B
  C = C
  D = D
  NoOne = NoOne
  Ids <- MCIds
  Overrides <- MCOverrides
  Base <- MCBase
  KnownKeys <- MCKnownKeys
  MaxKeys = 2
  MaxDepth = 2
  MaxCreated = 4
SPECIFICATION Spec
INVARIANTS
  EffectiveIsInherited
  ForestHolds
SYMMETRY MCSymmetry
CHECK_DEADLOCK FALSE
