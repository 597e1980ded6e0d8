SPECIFICATION FairSpec
CONSTANTS
  Worker = {w1, w2, w3}
  R = 3
  MayFail = TRUE
  MayTimeOut = TRUE
INVARIANTS
  OneRoundInFlight
  CloseIsBarrier
  EachMessageAveragedOnce
  ResultIsLastAverage
PROPERTY RunEnds
