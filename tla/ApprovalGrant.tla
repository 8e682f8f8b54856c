---------------------------- MODULE ApprovalGrant ----------------------------
(***************************************************************************)
(* What the approval gate promises, without services, messages or faults:  *)
(* a human grants the repair of one asset; a repair starts only under a    *)
(* grant that is live, and touches only the asset that was granted; a      *)
(* grant is spent only after a repair under it took place; a reset revokes *)
(* every grant, yet a repair that already started may still finish.        *)
(*                                                                         *)
(* Nothing here says that a grant serves a single repair: the code does    *)
(* not ensure it when two clients hold one token.                          *)
(***************************************************************************)

CONSTANTS
  Asset,
  Decision,  \* the approvals a human posts
  Call,      \* attempts to repair
  None

VARIABLES
  grant,     \* state of each approval
  subject,   \* the asset an approval is for
  using,     \* the approval an attempt was admitted under
  repaired   \* history: <<attempt, asset>> of each repair

vars == <<grant, subject, using, repaired>>

TypeOK ==
  /\ grant \in [Decision -> {"none", "live", "spent", "revoked"}]
  /\ subject \in [Decision -> Asset \cup {None}]
  /\ using \in [Call -> Decision \cup {None}]
  /\ repaired \subseteq Call \X Asset

Init ==
  /\ grant = [d \in Decision |-> "none"]
  /\ subject = [d \in Decision |-> None]
  /\ using = [c \in Call |-> None]
  /\ repaired = {}

Grant(d, a) ==
  /\ grant[d] = "none"
  /\ grant' = [grant EXCEPT ![d] = "live"]
  /\ subject' = [subject EXCEPT ![d] = a]
  /\ UNCHANGED <<using, repaired>>

Admit(c, d) ==
  /\ using[c] = None
  /\ grant[d] = "live"
  /\ using' = [using EXCEPT ![c] = d]
  /\ UNCHANGED <<grant, subject, repaired>>

Repair(c) ==
  /\ using[c] # None
  /\ repaired' = repaired \cup {<<c, subject[using[c]]>>}
  /\ UNCHANGED <<grant, subject, using>>

Spend(d) ==
  /\ grant[d] = "live"
  /\ \E c \in Call : using[c] = d /\ <<c, subject[d]>> \in repaired
  /\ grant' = [grant EXCEPT ![d] = "spent"]
  /\ UNCHANGED <<subject, using, repaired>>

Revoke ==
  /\ grant' = [d \in Decision |-> IF grant[d] = "none" THEN "none" ELSE "revoked"]
  /\ UNCHANGED <<subject, using, repaired>>

Next ==
  \/ \E d \in Decision, a \in Asset : Grant(d, a)
  \/ \E c \in Call, d \in Decision : Admit(c, d)
  \/ \E c \in Call : Repair(c)
  \/ \E d \in Decision : Spend(d)
  \/ Revoke

Spec == Init /\ [][Next]_vars

\* Every repair is covered by an approval a human gave for that asset.
RepairsAreGranted ==
  \A r \in repaired :
    \E d \in Decision : grant[d] # "none" /\ subject[d] = r[2] /\ using[r[1]] = d
=============================================================================
