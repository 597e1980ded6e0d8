SPECIFICATION FairSpec
CONSTANTS
  N = 3
  R = 3
  Modes = {"ps_sync_fedavg_queue", "hybrid_ps_allreduce"}
INVARIANTS
  RoundsNotMixed
  ModelIsLastRound
PROPERTIES
  ImplementsRounds
  RunEnds
CHECK_DEADLOCK FALSE
