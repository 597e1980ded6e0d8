------------------------------- MODULE MCSweep -------------------------------
(* Instance of Sweep for TLC: holdout has one cell without a cap and two with. *)
EXTENDS Sweep, TLC
Symmetry == Permutations(SwProcs)
TwoCells == [s \in SwScripts |-> IF s = "holdout" THEN 3 ELSE 2]
=============================================================================
