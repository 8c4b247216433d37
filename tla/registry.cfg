SPECIFICATION Spec
CONSTANTS
  Chains = {c1,c2}
  Callers = {t1, t2}
  Fields = {ceiling, steps}
  Values = {high, low, bad}
  Invalid = {bad}
  NoBundle = NoBundle
  Idle = Idle
  MaxVersion = 4
SYMMETRY MCSymmetry
INVARIANTS VersionsDistinct TokenWinsOnce
PROPERTIES UpdateRaisesVersion NoFieldLost
CHECK_DEADLOCK FALSE
