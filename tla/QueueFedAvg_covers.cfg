SPECIFICATION Spec
CONSTANTS
  Worker = {w1, w2}
  R = 3
  MayFail = FALSE
  MayTimeOut = FALSE
INVARIANT AverageCoversEveryWorker
CHECK_DEADLOCK FALSE
