-------------------------- MODULE MCFaultInjection --------------------------
(* Instances of FaultInjection for TLC.                                    *)
EXTENDS FaultInjection, TLC

CONSTANTS a1, a2, s1, s2, s3, r1, r2

\* Two scenarios share the first asset, one hits the second.
Targets == s1 :> a1 @@ s2 :> a1 @@ s3 :> a2

Symmetry == Permutations(Request)
=============================================================================
