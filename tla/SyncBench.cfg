SPECIFICATION SyncBenchSpec
SYMMETRY Symmetry
CONSTANTS
  Tools = {"logreg", "kmeans", "benchmark"}
  Cells = {1, 2}
  M3Cells = {2}
  SbWorkers = {v, w}
  Budgets = {1, 2}
  MaxRuns = 2
  MaxOpened = 3
INVARIANTS
  SummaryIsOwn
  SelectReadsOwnRounds
  PlanCovered

CHECK_DEADLOCK FALSE
