----------------------------- MODULE MCSyncBench -----------------------------
(* Instance of SyncBench for TLC. *)
EXTENDS SyncBench, TLC
Symmetry == Permutations(SbWorkers)
=============================================================================
