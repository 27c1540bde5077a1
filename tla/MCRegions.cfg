SPECIFICATION Spec
CONSTANTS
  Lines <- MCLines
  Existing <- MCExisting
  Generated <- MCGenerated
  MaxExisting = 4
  MaxGenerated = 4
INVARIANTS
  RegionsSurvive
  NothingElseKept
  MergeIsStable
CHECK_DEADLOCK FALSE
