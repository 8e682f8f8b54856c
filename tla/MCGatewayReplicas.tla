-------------------------- MODULE MCGatewayReplicas --------------------------
(* Instances of GatewayReplicas for TLC.                                   *)
EXTENDS GatewayReplicas, TLC

CONSTANTS r1, r2, q1, q2, f1, x1

Symmetry == Permutations(Replica) \cup Permutations(Slot)
=============================================================================
