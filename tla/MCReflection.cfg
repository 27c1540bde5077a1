SPECIFICATION Spec
CONSTANTS
  MaxClass = 4
  MaxSupers = 2
  Owning <- MCOwning
INVARIANTS
  ReadsTheFeature
  ImplementedOnce
  ConstantsArePositions
CHECK_DEADLOCK FALSE
