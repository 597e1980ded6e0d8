CONSTANTS
  NumWorkers <- MCN
  R <- MCR

SPECIFICATION FairDispatchSpec

INVARIANTS
  RunsItsMode
  ReportIsOfMode

PROPERTIES
  JobEnds

CHECK_DEADLOCK FALSE
