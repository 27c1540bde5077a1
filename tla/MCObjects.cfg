SPECIFICATION Spec
CONSTANTS
  a1 = a1
  a2 = a2
  b1 = b1
  b2 = b2
  As = {a1, a2}
  Bs = {b1, b2}
  Resolved <- Resolves
  LazyKey <- LazyTokens
  Shapes <- Shaped
SYMMETRY Symmetric
CHECK_DEADLOCK FALSE
INVARIANTS
  OppositesAgree
  ContainedOnce
  SetValuesAreSet
  LanguagesAgree
  LateResolution
  CallsResolve
  TestsFollowAccessors
