---------------------------- MODULE MCResilience ----------------------------
(* Resilience on two interchangeable targets. *)
EXTENDS Resilience, TLC

Symmetry == Permutations(Key)
=============================================================================
