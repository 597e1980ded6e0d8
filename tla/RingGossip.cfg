SPECIFICATION FairSpec
CONSTANTS
  N = 4
  Fanouts = {1, 2}
  R = 3
  Tol = TRUE
INVARIANT MixesItsRound
PROPERTY AllFinish
CHECK_DEADLOCK FALSE
