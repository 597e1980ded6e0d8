---------------------------- MODULE MCRingGossip ----------------------------
(* Instances of RingGossip for TLC: the ranks are positions on the ring. *)
EXTENDS RingGossip
=============================================================================
