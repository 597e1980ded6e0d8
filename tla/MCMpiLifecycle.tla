--------------------------- MODULE MCMpiLifecycle ---------------------------
(* Instances of MpiLifecycle for TLC: the ranks are numbers, served in order. *)
EXTENDS MpiLifecycle
=============================================================================
