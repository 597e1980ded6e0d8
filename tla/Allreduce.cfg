SPECIFICATION FairSpec
CONSTANTS
  N = 3
  max_iter = 4
  max_epochs = 3
  K = 3
  ChunkRows = 2
  SampleSize = 200
  Unit <- MCUnit
  Files <- MCFiles
  Losses = {0, 1}
INVARIANTS
  CallsMatch
  IterationIsLloyd
  WcssNeverGrows
  StopsAtFixedPoint
  StatsAreGlobal
  AggregateIsOfThisRun
PROPERTY RunEnds
CHECK_DEADLOCK FALSE
