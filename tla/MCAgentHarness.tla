--------------------------- MODULE MCAgentHarness ---------------------------
(* Instances of AgentHarness for TLC.                                      *)
EXTENDS AgentHarness, TLC

CONSTANTS f1, f2, f3, t1, t2

\* Nothing is claimed once tool calls have overlapped, so the search ends
\* there; TypeOK, which holds beyond, is proved.
NoOverlapYet == ~overlapped

Symmetry == Permutations(FaultId) \cup Permutations(Turn)
=============================================================================
