SPECIFICATION FairSpec
CONSTANTS
  Models <- Modelled
  Threads = {t1, t2}
CHECK_DEADLOCK FALSE
INVARIANTS
  NothingIsLost
  ServedWhole
PROPERTIES
  CallsReturn
