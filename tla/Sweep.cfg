SPECIFICATION SweepSpec
SYMMETRY Symmetry
CONSTANTS
  SwProcs = {p, q}
  SwScripts = {"resource", "kmeans", "logreg", "rightsize", "holdout"}
  DesignSize <- TwoCells
  Reps = 2
  Capped = {2, 3}
  MaxConsec = 3
  MaxTimeouts = 2
  Chunks = 2
  MaxSessions = 3
  MaxBad = 3
INVARIANTS
  SavedNotRepeated
  ResumeSkipsAsBefore
  RunsReadWholeData
PROPERTIES
  AllDoneAccountsForAll
CHECK_DEADLOCK FALSE
