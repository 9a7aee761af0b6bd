------------------------------ MODULE MCGateway ------------------------------
(* Instances of Gateway: lists of targets, and what cannot be written in a
   configuration file. *)
EXTENDS Gateway, TLC

T(w) == [weight |-> w, active_connections |-> 0]

OneTarget == <<T(1)>>
TwoTargets == <<T(1), T(1)>>
UnevenTargets == <<T(2), T(1)>>

Symmetry == Permutations(Request)

\* All requests carry the same key.
SameHash == [r \in Request |-> 0]
=============================================================================
