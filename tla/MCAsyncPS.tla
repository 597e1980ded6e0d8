------------------------------ MODULE MCAsyncPS ------------------------------
(* Instances of AsyncPS for TLC: the ranks are numbers, collected in order. *)
EXTENDS AsyncPS
=============================================================================
