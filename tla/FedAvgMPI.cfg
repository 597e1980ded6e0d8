SPECIFICATION FairSpec
CONSTANTS
  N = 3
  R = 4
  Levels = {0, 1}
  EarlyStop = TRUE
  Applications = {"kmeans", "logreg"}
INVARIANT StopsAtFirstConvergence
PROPERTIES
  ImplementsRounds
  RunEnds
CHECK_DEADLOCK FALSE
