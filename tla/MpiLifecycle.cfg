SPECIFICATION FairSpec
CONSTANT N = 3
INVARIANTS
  RunsEverywhereOrNowhere
  ExitStatusIsTrue
PROPERTY JobEnds
CHECK_DEADLOCK FALSE
