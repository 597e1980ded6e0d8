SPECIFICATION StragglerSpec
CONSTANTS
  N = 3
  R = 2
  MayFail = TRUE
  MayTimeOut = TRUE
INVARIANTS
  StalenessCountsOvertakers
  CompleteHasResult
PROPERTIES
  FastNotBlockedWhileServed
  RunEnds
CHECK_DEADLOCK FALSE
