------------------------- MODULE MCRemediationGate -------------------------
(* Instances of RemediationGate for TLC.                                   *)
EXTENDS RemediationGate, TLC

CONSTANTS a1, a2, s1, s2, k1, k2, f1, f2, d1, d2, c1

\* Two scenarios on two assets.
SeparateTargets == s1 :> a1 @@ s2 :> a2

OneScenario == s1 :> a1

\* Two scenarios on one asset, as in the datacenter-xe9680 pack.
SharedTarget == s1 :> a1 @@ s2 :> a1

\* Remedies of two scenarios have no step in common.
DisjointSteps == s1 :> {k1} @@ s2 :> {k2}
OneRemedy == s1 :> {k1}

\* Bounds of gate_decisions: a lab in which anything fails, on one scenario
\* and without a client, or one that runs smoothly, with both.
FirstOnly ==
  /\ presenter.scenario # s2 /\ seen # s2
  /\ \A a \in Asset : sim[a] # s2 /\ active[a] # s2
  /\ \A f \in FaultId : about[f] # s2
  /\ \A d \in Decision : k2 \notin task[d].steps
  /\ \A c \in Caller : call[c].pc = "idle"

\* No reset, restart, lost request, denial or late clear; the agent finds the
\* first scenario, no decision gives up, and approvals come one after another.
Smooth ==
  /\ presenter.op \in {"idle", "run"}
  /\ \A a \in Asset : sim[a] \in {None, active[a]}
  /\ \A d \in Decision : token[d].state # "wiped"
  /\ \A d, e \in Decision :
       {task[d].pc, task[e].pc} \cap {"idle", "executing", "verifying", "done"} = {} => d = e
  /\ \A d \in Decision : task[d].pc \notin {"failed", "rejected", "unanswered"}
  /\ \A c \in inflight : call[c].pc = "clearing"
  /\ \A f \in FaultId :
       /\ status[f] # "denied" /\ about[f] # s2
       /\ about[f] # None => f \in stored

\* Logs that are fetched when no id is left for another fault change nothing.
FirstOnlyOrSmooth ==
  /\ (\A f \in FaultId : about[f] # None) => seen = None
  /\ FirstOnly \/ Smooth

Symmetry == Permutations(FaultId) \cup Permutations(Decision)
=============================================================================
