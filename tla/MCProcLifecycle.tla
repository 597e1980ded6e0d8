--------------------------- MODULE MCProcLifecycle ---------------------------
(* Instances of ProcLifecycle for TLC: the workers are spawned in order. *)
EXTENDS ProcLifecycle
=============================================================================
