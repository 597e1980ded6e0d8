------------------------------ MODULE MCDispatch ------------------------------
(***************************************************************************)
(* Every configuration of a job, for TLC.                                  *)
(***************************************************************************)
EXTENDS Dispatch

MCN == 3
MCR == 2
=============================================================================
