------------------------------ MODULE MCStarPS ------------------------------
(* Instances of StarPS for TLC: the ranks are numbers, served in order. *)
EXTENDS StarPS
=============================================================================
