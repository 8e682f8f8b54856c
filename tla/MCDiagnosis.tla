----------------------------- MODULE MCDiagnosis -----------------------------
(* Instances of Diagnosis for TLC.                                         *)
EXTENDS Diagnosis, TLC

CONSTANTS a1, a2, s1, s2, s3, k1, k2, p, q, e1, e2, e3, e4, b1

\* Two scenarios hit the first asset, one the second.
Targets == s1 :> a1 @@ s2 :> a1 @@ s3 :> a2

First == [valid |-> TRUE, id |-> s1, pack |-> p, asset |-> a1, article |-> k1, bundle |-> b1,
          signatures |-> {e1}, lines |-> 1]
Second == [First EXCEPT !.id = s2, !.article = k2, !.signatures = {e2}, !.lines = 0]
Third == [First EXCEPT !.id = s3, !.asset = a2, !.signatures = {e3}]

Good == [whole |-> TRUE, id |-> p, profile |-> p, adapter |-> "redfish", assets |-> {a1, a2},
         files |-> <<First, Second, Third>>, kb |-> {k1, k2}, logs |-> {b1}]

\* The two adapters.
Adapters == {Good, [Good EXCEPT !.adapter = "generic"]}

\* Packs that load, the last with a signature of both scenarios.
Packs == Adapters \cup {[Good EXCEPT !.files[2].signatures = {e1, e2}]}

\* Packs with one defect each.
Broken == {[Good EXCEPT !.whole = FALSE], [Good EXCEPT !.profile = q], [Good EXCEPT !.files = <<>>],
           [Good EXCEPT !.files[2].valid = FALSE], [Good EXCEPT !.files[1].pack = q],
           [Good EXCEPT !.assets = {a2}], [Good EXCEPT !.kb = {k1}], [Good EXCEPT !.logs = {}]}

\* Bound of pack: after a listing or a failure of the services the agent
\* searches nothing more.
SearchingInCalm == turn.signature # None => ~disturbed /\ \A a \in Asset : turn.seen[a] = "unread"

Directories == Packs \cup Broken
=============================================================================
