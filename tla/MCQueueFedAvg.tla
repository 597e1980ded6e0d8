--------------------------- MODULE MCQueueFedAvg ---------------------------
(* Instances of QueueFedAvg for TLC: the workers are model values.  They are *)
(* interchangeable, but the run checks liveness, which excludes SYMMETRY.    *)
EXTENDS QueueFedAvg
=============================================================================
