----------------------------- MODULE MCFedAvgMPI -----------------------------
(* Instances of FedAvgMPI for TLC; rank 0 of the communicator is special. *)
EXTENDS FedAvgMPI
=============================================================================
