------------------------- MODULE ApprovalGrantProofs -------------------------
(* The abstract promise of the gate keeps its word: proof for any sets of  *)
(* assets, approvals and attempts.                                         *)
EXTENDS ApprovalGrant, TLAPS

GrantsHaveSubjects == \A d \in Decision : grant[d] # "none" => subject[d] \in Asset

AttemptsAreGranted ==
  \A c \in Call : using[c] # None => grant[using[c]] # "none"

RepairersWereAdmitted == \A r \in repaired : using[r[1]] # None

Inv ==
  /\ TypeOK
  /\ GrantsHaveSubjects
  /\ AttemptsAreGranted
  /\ RepairersWereAdmitted
  /\ RepairsAreGranted

LEMMA InitSafe ==
  ASSUME Init
  PROVE  Inv
BY DEF Init, Inv, TypeOK, GrantsHaveSubjects, AttemptsAreGranted,
     RepairersWereAdmitted, RepairsAreGranted

LEMMA StepSafe ==
  ASSUME Inv, [Next]_vars
  PROVE  Inv'
<1> USE DEF Inv, TypeOK
<1>1. ASSUME NEW d \in Decision, NEW a \in Asset, Grant(d, a)
      PROVE  Inv'
  BY <1>1 DEF Grant, GrantsHaveSubjects, AttemptsAreGranted,
     RepairersWereAdmitted, RepairsAreGranted
<1>2. ASSUME NEW c \in Call, NEW d \in Decision, Admit(c, d)
      PROVE  Inv'
  <2>1. TypeOK' /\ GrantsHaveSubjects' /\ AttemptsAreGranted'
    BY <1>2 DEF Admit, GrantsHaveSubjects, AttemptsAreGranted
  <2>2. \A r \in repaired : using'[r[1]] = using[r[1]]
    BY <1>2 DEF Admit, RepairersWereAdmitted
  <2> QED
    BY <1>2, <2>1, <2>2 DEF Admit, RepairersWereAdmitted, RepairsAreGranted
<1>3. ASSUME NEW c \in Call, Repair(c)
      PROVE  Inv'
  <2>1. using[c] \in Decision /\ grant[using[c]] # "none" /\ subject[using[c]] \in Asset
    BY <1>3 DEF Repair, GrantsHaveSubjects, AttemptsAreGranted
  <2>2. TypeOK' /\ GrantsHaveSubjects' /\ AttemptsAreGranted'
    BY <1>3, <2>1 DEF Repair, GrantsHaveSubjects, AttemptsAreGranted
  <2>3. RepairersWereAdmitted' /\ RepairsAreGranted'
    BY <1>3, <2>1 DEF Repair, RepairersWereAdmitted, RepairsAreGranted
  <2> QED
    BY <2>2, <2>3
<1>4. ASSUME NEW d \in Decision, Spend(d)
      PROVE  Inv'
  BY <1>4 DEF Spend, GrantsHaveSubjects, AttemptsAreGranted,
     RepairersWereAdmitted, RepairsAreGranted
<1>5. CASE Revoke
  BY <1>5 DEF Revoke, GrantsHaveSubjects, AttemptsAreGranted,
     RepairersWereAdmitted, RepairsAreGranted
<1>6. CASE UNCHANGED vars
  BY <1>6 DEF vars, GrantsHaveSubjects, AttemptsAreGranted,
     RepairersWereAdmitted, RepairsAreGranted
<1> QED
  BY <1>1, <1>2, <1>3, <1>4, <1>5, <1>6 DEF Next

\* Every repair is covered by an approval a human gave for that very asset.
THEOREM GrantsKept == Spec => []RepairsAreGranted
<1>1. Init => Inv
  BY InitSafe
<1>2. Inv /\ [Next]_vars => Inv'
  BY StepSafe
<1>3. Inv => RepairsAreGranted
  BY DEF Inv
<1> QED
  BY <1>1, <1>2, <1>3, PTL DEF Spec
=============================================================================
