------------------------ MODULE RemediationGateProofs ------------------------
(***************************************************************************)
(* Proofs about RemediationGate, for any number of assets, scenarios,      *)
(* faults, approvals and clients.  The inductive invariant is TypeOK       *)
(* together with ChainOfApproval; one lemma per action shows that the      *)
(* action preserves it.  The safety theorems follow from it, those on      *)
(* links, steps and resolved faults from three further invariants on top   *)
(* of it: RecordsInv, StepsInv and ResolvedInv.  The last part is the      *)
(* refinement of ApprovalGrant.                                            *)
(***************************************************************************)
EXTENDS RemediationGate, TLAPS

Inv == TypeOK /\ ChainOfApproval

\* Only field pc of one task changes, and it becomes p.
TaskMoved(d, p) ==
  /\ task' \in [Decision -> Task]
  /\ \A e \in Decision :
       /\ task'[e].fault = task[e].fault
       /\ task'[e].pc = IF e = d THEN p ELSE task[e].pc

\* Only fields pc and asset of one invocation change.
CallMoved(c, p, a) ==
  /\ call' \in [Call -> Invocation]
  /\ \A x \in Call :
       /\ call'[x].pc = IF x = c THEN p ELSE call[x].pc
       /\ call'[x].asset = IF x = c THEN a ELSE call[x].asset
       /\ call'[x].fault = call[x].fault
       /\ call'[x].token = call[x].token
       /\ call'[x].late = call[x].late

\* An invocation is sent anew: it holds nothing but the request.
CallSent(c, f, t) ==
  /\ call' \in [Call -> Invocation]
  /\ call'[c].pc = "sent"
  /\ call'[c].fault = f
  /\ call'[c].token = t
  /\ call'[c].asset = None
  /\ call'[c].late = (token[t].state # "live")
  /\ \A x \in Call \ {c} : call'[x] = call[x]

-----------------------------------------------------------------------------
(* What an update of one field does to the functions of records.           *)

LEMMA TaskPcUpdate ==
  ASSUME TypeOK, NEW d \in Decision, NEW p \in TaskPc,
         task' = [task EXCEPT ![d].pc = p]
  PROVE  TaskMoved(d, p)
<1>1. task \in [Decision -> Task]
  BY DEF TypeOK
<1> QED
  BY <1>1 DEF Task, TaskMoved

LEMMA CallPcUpdate ==
  ASSUME TypeOK, NEW c \in Call, NEW p \in CallPc,
         call' = [call EXCEPT ![c].pc = p]
  PROVE  CallMoved(c, p, call[c].asset)
<1>1. call \in [Call -> Invocation]
  BY DEF TypeOK
<1> QED
  BY <1>1 DEF Invocation, CallMoved

LEMMA CallAdmitUpdate ==
  ASSUME TypeOK, NEW c \in Call, NEW a \in Asset,
         call' = [call EXCEPT ![c].pc = "clearing", ![c].asset = a]
  PROVE  CallMoved(c, "clearing", a)
<1>1. call \in [Call -> Invocation]
  BY DEF TypeOK
<1>2. "clearing" \in CallPc
  BY DEF CallPc
<1>3. call' = [call EXCEPT ![c] = [call[c] EXCEPT !.pc = "clearing", !.asset = a]]
  BY <1>1
<1>4. [call[c] EXCEPT !.pc = "clearing", !.asset = a] \in Invocation
  BY <1>1, <1>2 DEF Invocation
<1> QED
  BY <1>1, <1>3, <1>4 DEF Invocation, CallMoved

LEMMA SendUpdate ==
  ASSUME TypeOK, NEW c \in Call, NEW f \in FaultId, NEW t \in Decision,
         NEW S \in SUBSET Step, Send(c, f, t, S)
  PROVE  CallSent(c, f, t)
<1>1. call \in [Call -> Invocation]
  BY DEF TypeOK
<1>2. "sent" \in CallPc
  BY DEF CallPc
<1> QED
  BY <1>1, <1>2 DEF Send, Invocation, CallSent

\* Consuming a token or wiping all of them: no token is minted or rebound.
NoTokenRevived ==
  /\ token' \in [Decision -> Token]
  /\ \A d \in Decision :
       /\ token'[d].fault = token[d].fault
       /\ token[d].state = "none" <=> token'[d].state = "none"
       /\ token'[d].state = "live" => token[d].state = "live"

LEMMA ConsumeUpdate ==
  ASSUME TypeOK, NEW t \in Decision, ConsumeToken(t)
  PROVE  NoTokenRevived
<1>1. token \in [Decision -> Token]
  BY DEF TypeOK
<1>2. /\ token' \in [Decision -> Token]
      /\ \A d \in Decision :
           /\ token'[d].fault = token[d].fault
           /\ token'[d].state = IF d = t /\ token[d].state = "live"
                                THEN "consumed" ELSE token[d].state
  BY <1>1 DEF ConsumeToken, Token
<1> QED
  BY <1>2 DEF NoTokenRevived

LEMMA WipeUpdate ==
  ASSUME TypeOK, WipeMcp
  PROVE  /\ NoTokenRevived
         /\ registry' \in [FaultId -> Registration]
         /\ \A f \in FaultId : registry'[f].asset = None
<1>1. /\ token \in [Decision -> Token]
      /\ token' = [d \in Decision |->
                     IF token[d].state = "none" THEN token[d]
                     ELSE [token[d] EXCEPT !.state = "wiped"]]
  BY DEF TypeOK, WipeMcp
<1>2. token' \in [Decision -> Token]
  BY <1>1 DEF Token
<1>3. ASSUME NEW d \in Decision
      PROVE  /\ token'[d].fault = token[d].fault
             /\ token'[d].state = IF token[d].state = "none" THEN "none" ELSE "wiped"
  BY <1>1 DEF Token
<1>4. /\ registry' \in [FaultId -> Registration]
      /\ \A f \in FaultId : registry'[f].asset = None
  BY DEF WipeMcp, Registration
<1> QED
  BY <1>2, <1>3, <1>4 DEF NoTokenRevived

\* GetToken: the caller holds token t.
CallHolds(c, t) ==
  /\ call' \in [Call -> Invocation]
  /\ call'[c].pc = "holding"
  /\ call'[c].token = t
  /\ call'[c].asset = call[c].asset
  /\ \A x \in Call \ {c} : call'[x] = call[x]

LEMMA HoldUpdate ==
  ASSUME TypeOK, NEW c \in Call, NEW t \in Decision,
         call' = [call EXCEPT ![c].pc = "holding", ![c].token = t]
  PROVE  CallHolds(c, t)
<1>1. call \in [Call -> Invocation]
  BY DEF TypeOK
<1>2. "holding" \in CallPc
  BY DEF CallPc
<1> QED
  BY <1>1, <1>2 DEF Invocation, CallHolds

LEMMA FetchUpdate ==
  ASSUME TypeOK, NEW d \in Decision, FetchAllowlist(d)
  PROVE  TaskMoved(d, "register")
<1>1. PICK S \in Allowlists(task[d].fault) :
        task' = [task EXCEPT ![d].pc = "register", ![d].steps = S]
  BY DEF FetchAllowlist
<1>2. S \subseteq Step
  BY <1>1 DEF TypeOK, Task
<1>3. task \in [Decision -> Task] /\ "register" \in TaskPc
  BY DEF TypeOK, TaskPc
<1> QED
  BY <1>1, <1>2, <1>3 DEF Task, TaskMoved

\* A call that holds or sends a token anew is not admitted yet, so the parts
\* of the invariant about admitted calls do not see it.
LEMMA OpenCallsAreHarmless ==
  ASSUME Inv, NEW c \in Call, call[c].asset = None, call'[c].asset = None,
         call'[c].pc \in {"holding", "sent"},
         \A x \in Call \ {c} : call'[x] = call[x],
         UNCHANGED <<about, token, inflight, healed>>
  PROVE  AdmittedCallsAreBound' /\ InflightWereAdmitted' /\ HealsMatchCalls'
<1>1. AdmittedCallsAreBound /\ InflightWereAdmitted /\ HealsMatchCalls
  BY DEF Inv, ChainOfApproval
<1>2. inflight \subseteq Call /\ healed \subseteq Heal
  BY DEF Inv, TypeOK
<1>3. AdmittedCallsAreBound'
  BY <1>1 DEF AdmittedCallsAreBound, AssetOf
<1>4. InflightWereAdmitted'
  BY <1>1, <1>2 DEF InflightWereAdmitted
<1>5. ASSUME NEW h \in healed
      PROVE  h.call \in Call \ {c} /\ call'[h.call] = call[h.call]
  BY <1>1, <1>2 DEF HealsMatchCalls, Heal
<1>6. HealsMatchCalls'
  BY <1>1, <1>5 DEF HealsMatchCalls
<1> QED
  BY <1>3, <1>4, <1>6

LEMMA CreateFaultSafe ==
  ASSUME Inv, NEW f \in FaultId, CreateFault(f)
  PROVE  Inv'
<1> USE DEF Inv
<1>1. TypeOK'
  BY DEF CreateFault, mcpVars, TypeOK
<1>2. StoredWereCreated'
  BY DEF CreateFault, TypeOK, ChainOfApproval, StoredWereCreated
<1>3. TasksKnowTheirFault'
  BY DEF CreateFault, ChainOfApproval, TasksKnowTheirFault
<1>4. RegistryNamesFaultAsset'
  BY DEF CreateFault, mcpVars, ChainOfApproval, RegistryNamesFaultAsset, AssetOf
<1>5. AdmittedCallsAreBound'
  BY DEF CreateFault, mcpVars, ChainOfApproval, AdmittedCallsAreBound, AssetOf
<1> QED
  BY <1>1, <1>2, <1>3, <1>4, <1>5 DEF CreateFault, mcpVars, ChainOfApproval,
     TokensComeFromTasks, PendingWereMinted, CallsHoldTokens, InflightWereAdmitted,
     HealsMatchCalls

LEMMA ApproveSafe ==
  ASSUME Inv, NEW d \in Decision, NEW f \in FaultId, Approve(d, f)
  PROVE  Inv'
<1> USE DEF Inv
<1>1. task' \in [Decision -> Task]
  BY DEF Approve, TypeOK, Task, TaskPc
<1>2. TypeOK'
  BY <1>1 DEF Approve, gatewayVars, mcpVars, worldVars, TypeOK
<1>3. TasksKnowTheirFault'
  BY DEF Approve, gatewayVars, ChainOfApproval, TasksKnowTheirFault, StoredWereCreated
<1>4. TokensComeFromTasks'
  BY DEF Approve, mcpVars, ChainOfApproval, TokensComeFromTasks, BeforeMint, BeforeCall
<1> QED
  BY <1>2, <1>3, <1>4 DEF Approve, gatewayVars, mcpVars, ChainOfApproval,
     StoredWereCreated, PendingWereMinted, RegistryNamesFaultAsset, CallsHoldTokens,
     AdmittedCallsAreBound, InflightWereAdmitted, HealsMatchCalls, AssetOf

LEMMA FetchAllowlistSafe ==
  ASSUME Inv, NEW d \in Decision, FetchAllowlist(d)
  PROVE  Inv'
<1> USE DEF Inv
<1>1. TaskMoved(d, "register")
  BY FetchUpdate DEF FetchAllowlist
<1>2. TypeOK'
  BY <1>1 DEF FetchAllowlist, TaskMoved, gatewayVars, mcpVars, worldVars, TypeOK
<1>3. TasksKnowTheirFault'
  BY DEF FetchAllowlist, gatewayVars, TypeOK, ChainOfApproval, TasksKnowTheirFault
<1>4. TokensComeFromTasks'
  BY DEF FetchAllowlist, mcpVars, TypeOK, ChainOfApproval, TokensComeFromTasks,
     BeforeMint, BeforeCall
<1> QED
  BY <1>2, <1>3, <1>4 DEF FetchAllowlist, gatewayVars, mcpVars, ChainOfApproval,
     StoredWereCreated, PendingWereMinted, RegistryNamesFaultAsset, CallsHoldTokens,
     AdmittedCallsAreBound, InflightWereAdmitted, HealsMatchCalls, AssetOf

LEMMA RegisterFaultSafe ==
  ASSUME Inv, NEW d \in Decision, RegisterFault(d)
  PROVE  Inv'
<1> USE DEF Inv
<1>1. TaskMoved(d, "mint")
  BY TaskPcUpdate DEF RegisterFault, TaskStep, TaskPc
<1>2. registry' \in [FaultId -> Registration]
  BY ConstantsOK DEF RegisterFault, TypeOK, Task, Registration, ChainOfApproval,
     TasksKnowTheirFault, AssetOf, TaskStep
<1>3. TypeOK'
  BY <1>1, <1>2 DEF RegisterFault, TaskMoved, gatewayVars, worldVars, TypeOK
<1>4. TasksKnowTheirFault'
  BY DEF RegisterFault, TaskStep, gatewayVars, ChainOfApproval, TasksKnowTheirFault
<1>5. TokensComeFromTasks'
  BY DEF RegisterFault, TaskStep, ChainOfApproval, TokensComeFromTasks, BeforeMint,
     BeforeCall
<1>6. RegistryNamesFaultAsset'
  <2>1. about' = about /\ task[d].fault \in FaultId /\ about[task[d].fault] # None
    BY DEF RegisterFault, TaskStep, gatewayVars, ChainOfApproval, TasksKnowTheirFault
  <2>2. CASE UNCHANGED registry
    BY <2>1, <2>2 DEF ChainOfApproval, RegistryNamesFaultAsset, AssetOf
  <2>3. CASE registry' = [registry EXCEPT ![task[d].fault] =
                            [asset |-> AssetOf(task[d].fault), steps |-> task[d].steps]]
    BY <2>1, <2>3 DEF TypeOK, ChainOfApproval, RegistryNamesFaultAsset, AssetOf
  <2> QED
    BY <2>2, <2>3 DEF RegisterFault
<1> QED
  BY <1>3, <1>4, <1>5, <1>6 DEF RegisterFault, gatewayVars, ChainOfApproval,
     StoredWereCreated, PendingWereMinted, CallsHoldTokens, AdmittedCallsAreBound,
     InflightWereAdmitted, HealsMatchCalls, AssetOf

LEMMA MintTokenSafe ==
  ASSUME Inv, NEW d \in Decision, MintToken(d)
  PROVE  Inv'
<1> USE DEF Inv
<1>1. TaskMoved(d, "minted")
  BY TaskPcUpdate DEF MintToken, TaskStep, TaskPc
<1>2. token' \in [Decision -> Token]
  BY DEF MintToken, TypeOK, Task, Token
<1>3. TypeOK'
  BY <1>1, <1>2 DEF MintToken, TaskMoved, gatewayVars, worldVars, TypeOK
<1>4. TasksKnowTheirFault'
  BY DEF MintToken, TaskStep, gatewayVars, ChainOfApproval, TasksKnowTheirFault
<1>5. TokensComeFromTasks'
  BY DEF MintToken, TaskStep, TypeOK, ChainOfApproval, TokensComeFromTasks, BeforeMint,
     BeforeCall
<1>6. PendingWereMinted'
  BY DEF MintToken, gatewayVars, ChainOfApproval, PendingWereMinted
<1>7. CallsHoldTokens'
  BY DEF MintToken, TaskStep, ChainOfApproval, CallsHoldTokens, TokensComeFromTasks,
     BeforeMint
<1>8. AdmittedCallsAreBound'
  BY DEF MintToken, gatewayVars, ChainOfApproval, AdmittedCallsAreBound, AssetOf,
     TokensComeFromTasks
<1> QED
  BY <1>3, <1>4, <1>5, <1>6, <1>7, <1>8 DEF MintToken, gatewayVars, ChainOfApproval,
     StoredWereCreated, RegistryNamesFaultAsset, InflightWereAdmitted, HealsMatchCalls,
     AssetOf

LEMMA RejectDecisionSafe ==
  ASSUME Inv, NEW d \in Decision, RejectDecision(d)
  PROVE  Inv'
<1> USE DEF Inv
<1>1. TaskMoved(d, "rejected")
  BY TaskPcUpdate DEF RejectDecision, TaskPc
<1>2. TypeOK'
  BY <1>1 DEF RejectDecision, TaskMoved, gatewayVars, mcpVars, worldVars, TypeOK
<1>3. TasksKnowTheirFault'
  BY DEF RejectDecision, gatewayVars, ChainOfApproval, TasksKnowTheirFault
<1>4. TokensComeFromTasks'
  BY DEF RejectDecision, mcpVars, ChainOfApproval, TokensComeFromTasks, BeforeMint,
     BeforeCall
<1> QED
  BY <1>2, <1>3, <1>4 DEF RejectDecision, gatewayVars, mcpVars, ChainOfApproval,
     StoredWereCreated, PendingWereMinted, RegistryNamesFaultAsset, CallsHoldTokens,
     AdmittedCallsAreBound, InflightWereAdmitted, HealsMatchCalls, AssetOf

LEMMA StartExecutorSafe ==
  ASSUME Inv, NEW d \in Decision, StartExecutor(d)
  PROVE  Inv'
<1> USE DEF Inv
<1>1. TaskMoved(d, "started")
  BY TaskPcUpdate DEF StartExecutor, TaskStep, TaskPc
<1>2. TypeOK'
  BY <1>1 DEF StartExecutor, TaskMoved, mcpVars, worldVars, TypeOK
<1>3. TasksKnowTheirFault'
  BY DEF StartExecutor, TaskStep, ChainOfApproval, TasksKnowTheirFault
<1>4. TokensComeFromTasks'
  BY DEF StartExecutor, TaskStep, mcpVars, ChainOfApproval, TokensComeFromTasks,
     BeforeMint, BeforeCall
<1>5. PendingWereMinted'
  BY DEF StartExecutor, TaskStep, mcpVars, ChainOfApproval, PendingWereMinted,
     TokensComeFromTasks
<1> QED
  BY <1>2, <1>3, <1>4, <1>5 DEF StartExecutor, mcpVars, ChainOfApproval,
     StoredWereCreated, RegistryNamesFaultAsset, CallsHoldTokens, AdmittedCallsAreBound,
     InflightWereAdmitted, HealsMatchCalls, AssetOf

LEMMA SetRemediatingSafe ==
  ASSUME Inv, NEW d \in Decision, SetRemediating(d)
  PROVE  Inv'
<1> USE DEF Inv
<1>1. TaskMoved(d, "narrating")
  BY TaskPcUpdate DEF SetRemediating, TaskStep, TaskPc
<1>2. TypeOK'
  BY <1>1 DEF SetRemediating, StoreStatus, TaskMoved, mcpVars, worldVars, TypeOK, Status
<1>3. TasksKnowTheirFault'
  BY DEF SetRemediating, TaskStep, ChainOfApproval, TasksKnowTheirFault
<1>4. TokensComeFromTasks'
  BY DEF SetRemediating, TaskStep, mcpVars, ChainOfApproval, TokensComeFromTasks,
     BeforeMint, BeforeCall
<1> QED
  BY <1>2, <1>3, <1>4 DEF SetRemediating, mcpVars, ChainOfApproval, StoredWereCreated,
     PendingWereMinted, RegistryNamesFaultAsset, CallsHoldTokens, AdmittedCallsAreBound,
     InflightWereAdmitted, HealsMatchCalls, AssetOf

LEMMA SendExecuteSafe ==
  ASSUME Inv, NEW d \in Decision, SendExecute(d)
  PROVE  Inv'
<1> USE DEF Inv
<1>1. TaskMoved(d, "executing")
  BY TaskPcUpdate DEF SendExecute, TaskStep, TaskPc
<1>2. task[d].fault \in FaultId /\ token[d].state # "none" /\ call[d].pc = "idle"
  BY DEF SendExecute, TaskStep, ChainOfApproval, TasksKnowTheirFault,
         TokensComeFromTasks, BeforeCall
<1>3. call[d].asset = None
  BY <1>2 DEF ChainOfApproval, CallsHoldTokens, Call
<1>4. CallSent(d, task[d].fault, d)
  BY <1>2, SendUpdate DEF SendExecute, TypeOK, Task, Call
<1>5. TypeOK'
  BY <1>1, <1>4 DEF SendExecute, TaskMoved, CallSent, gatewayVars, worldVars, TypeOK
<1>6. TasksKnowTheirFault'
  BY DEF SendExecute, TaskStep, gatewayVars, ChainOfApproval, TasksKnowTheirFault
<1>7. TokensComeFromTasks'
  BY <1>1, <1>4 DEF SendExecute, TaskMoved, TaskStep, CallSent, Call, ChainOfApproval,
         TokensComeFromTasks, BeforeMint, BeforeCall
<1>8. CallsHoldTokens'
  BY <1>2, <1>4 DEF SendExecute, CallSent, ChainOfApproval, CallsHoldTokens
<1>9. AdmittedCallsAreBound' /\ InflightWereAdmitted' /\ HealsMatchCalls'
  BY <1>3, <1>4, OpenCallsAreHarmless DEF SendExecute, CallSent, Call, gatewayVars
<1> QED
  BY <1>5, <1>6, <1>7, <1>8, <1>9 DEF SendExecute, gatewayVars, ChainOfApproval,
     StoredWereCreated, PendingWereMinted, RegistryNamesFaultAsset, AssetOf

LEMMA ExecuteReturnsSafe ==
  ASSUME Inv, NEW d \in Decision, ExecuteReturns(d)
  PROVE  Inv'
<1> USE DEF Inv
<1>1. TaskMoved(d, "verifying") \/ TaskMoved(d, "failed")
  BY TaskPcUpdate DEF ExecuteReturns, TaskStep, TaskPc
<1>2. task[d].pc = "executing"
  BY DEF ExecuteReturns, TaskStep
<1>3. TypeOK'
  BY <1>1 DEF ExecuteReturns, TaskMoved, gatewayVars, mcpVars, worldVars, TypeOK
<1>4. TasksKnowTheirFault'
  BY <1>1, <1>2 DEF ExecuteReturns, TaskMoved, gatewayVars, ChainOfApproval,
     TasksKnowTheirFault
<1>5. TokensComeFromTasks'
  BY <1>1, <1>2 DEF ExecuteReturns, TaskMoved, mcpVars, Call, ChainOfApproval,
         TokensComeFromTasks, BeforeMint, BeforeCall
<1> QED
  BY <1>3, <1>4, <1>5 DEF ExecuteReturns, gatewayVars, mcpVars, ChainOfApproval,
     StoredWereCreated, PendingWereMinted, RegistryNamesFaultAsset,
     CallsHoldTokens, AdmittedCallsAreBound, InflightWereAdmitted,
     HealsMatchCalls, AssetOf

LEMMA ExecuteLostSafe ==
  ASSUME Inv, NEW d \in Decision, ExecuteLost(d)
  PROVE  Inv'
<1> USE DEF Inv
<1>0. PICK p \in {"failed", "unanswered"} :
        task' = [task EXCEPT ![d].pc = p] /\ task[d].pc \in {"executing", "unanswered"}
  BY DEF ExecuteLost, TaskStep
<1>1. TaskMoved(d, p)
  BY <1>0, TaskPcUpdate DEF TaskPc
<1>2. TypeOK'
  BY <1>1 DEF ExecuteLost, TaskMoved, gatewayVars, mcpVars, worldVars, TypeOK
<1>3. TasksKnowTheirFault'
  BY <1>0, <1>1 DEF ExecuteLost, TaskMoved, gatewayVars, ChainOfApproval, TasksKnowTheirFault
<1>4. TokensComeFromTasks'
  BY <1>0, <1>1 DEF ExecuteLost, TaskMoved, mcpVars, ChainOfApproval, TokensComeFromTasks,
     BeforeMint, BeforeCall
<1> QED
  BY <1>2, <1>3, <1>4 DEF ExecuteLost, gatewayVars, mcpVars, ChainOfApproval,
     StoredWereCreated, PendingWereMinted, RegistryNamesFaultAsset, CallsHoldTokens,
     AdmittedCallsAreBound, InflightWereAdmitted, HealsMatchCalls, AssetOf

LEMMA SetResolvedSafe ==
  ASSUME Inv, NEW d \in Decision, SetResolved(d)
  PROVE  Inv'
<1> USE DEF Inv
<1>1. TaskMoved(d, "done")
  BY TaskPcUpdate DEF SetResolved, TaskStep, TaskPc
<1>2. TypeOK'
  BY <1>1 DEF SetResolved, StoreStatus, ReleaseAsset, TaskMoved, mcpVars, worldVars,
     TypeOK, Status
<1>3. TasksKnowTheirFault'
  BY DEF SetResolved, TaskStep, ChainOfApproval, TasksKnowTheirFault
<1>4. TokensComeFromTasks'
  BY DEF SetResolved, TaskStep, mcpVars, ChainOfApproval, TokensComeFromTasks,
     BeforeMint, BeforeCall
<1> QED
  BY <1>2, <1>3, <1>4 DEF SetResolved, mcpVars, ChainOfApproval, StoredWereCreated,
     PendingWereMinted, RegistryNamesFaultAsset, CallsHoldTokens, AdmittedCallsAreBound,
     InflightWereAdmitted, HealsMatchCalls, AssetOf

LEMMA ClearConfirmedSafe ==
  ASSUME Inv, NEW c \in Call, ClearConfirmed(c)
  PROVE  Inv'
<1> USE DEF Inv
<1>1. CallMoved(c, "resolved", call[c].asset)
  BY CallPcUpdate DEF ClearConfirmed, CallPc
<1>2. NoTokenRevived
  BY ConsumeUpdate DEF ClearConfirmed, ChainOfApproval, AdmittedCallsAreBound,
     HealsMatchCalls
<1>3. TypeOK'
  BY <1>1, <1>2 DEF ClearConfirmed, CallMoved, NoTokenRevived, gatewayVars, worldVars,
     TypeOK
<1>4. TokensComeFromTasks'
  BY <1>2 DEF ClearConfirmed, NoTokenRevived, ChainOfApproval, TokensComeFromTasks
<1>5. PendingWereMinted'
  BY <1>2 DEF ClearConfirmed, NoTokenRevived, gatewayVars, TypeOK, ChainOfApproval,
     PendingWereMinted
<1>6. CallsHoldTokens'
  BY <1>2 DEF ClearConfirmed, NoTokenRevived, ChainOfApproval, CallsHoldTokens
<1>7. AdmittedCallsAreBound'
  BY <1>2 DEF ClearConfirmed, NoTokenRevived, gatewayVars, ChainOfApproval,
     AdmittedCallsAreBound, AssetOf
<1>8. InflightWereAdmitted'
  BY DEF ClearConfirmed, ChainOfApproval, InflightWereAdmitted
<1>9. HealsMatchCalls'
  BY DEF ClearConfirmed, ChainOfApproval, HealsMatchCalls
<1> QED
  BY <1>3, <1>4, <1>5, <1>6, <1>7, <1>8, <1>9 DEF ClearConfirmed, gatewayVars,
     ChainOfApproval, StoredWereCreated, TasksKnowTheirFault, RegistryNamesFaultAsset,
     AssetOf

LEMMA ClearFailedSafe ==
  ASSUME Inv, NEW c \in Call, ClearFailed(c)
  PROVE  Inv'
<1> USE DEF Inv
<1>1. CallMoved(c, "refused", call[c].asset)
  BY CallPcUpdate DEF ClearFailed, CallPc
<1>2. TypeOK'
  BY <1>1 DEF ClearFailed, CallMoved, gatewayVars, worldVars, TypeOK
<1>3. TokensComeFromTasks'
  BY DEF ClearFailed, ChainOfApproval, TokensComeFromTasks
<1>4. CallsHoldTokens'
  BY DEF ClearFailed, ChainOfApproval, CallsHoldTokens
<1>5. AdmittedCallsAreBound'
  BY DEF ClearFailed, gatewayVars, ChainOfApproval, AdmittedCallsAreBound, AssetOf
<1>6. InflightWereAdmitted'
  BY DEF ClearFailed, ChainOfApproval, InflightWereAdmitted
<1>7. HealsMatchCalls'
  BY DEF ClearFailed, ChainOfApproval, HealsMatchCalls
<1> QED
  BY <1>2, <1>3, <1>4, <1>5, <1>6, <1>7 DEF ClearFailed, gatewayVars, ChainOfApproval,
     StoredWereCreated, TasksKnowTheirFault, PendingWereMinted, RegistryNamesFaultAsset,
     AssetOf

LEMMA SimulatorClearSafe ==
  ASSUME Inv, NEW c \in Call, SimulatorClear(c)
  PROVE  Inv'
<1> USE DEF Inv
<1>1. /\ call[c].asset \in Asset /\ call[c].token \in Decision
      /\ call[c].fault \in FaultId /\ call[c].steps \in SUBSET Step
  BY DEF SimulatorClear, TypeOK, ChainOfApproval, InflightWereAdmitted,
         AdmittedCallsAreBound, Invocation
<1> DEFINE new == [call |-> c, token |-> call[c].token, fault |-> call[c].fault,
                   asset |-> call[c].asset, steps |-> call[c].steps]
<1>2. new \in Heal
  BY <1>1 DEF Heal
<1>3. healed' = healed \cup {new} /\ inflight' = inflight \ {c}
  BY DEF SimulatorClear
<1>4. TypeOK'
  BY <1>2 DEF SimulatorClear, gatewayVars, TypeOK
<1>5. InflightWereAdmitted'
  BY DEF SimulatorClear, ChainOfApproval, InflightWereAdmitted
<1>6. new.call = c /\ new.token = call[c].token /\ new.fault = call[c].fault
      /\ new.asset = call[c].asset /\ call[c].asset # None
  BY <1>1, ConstantsOK
<1>7. HealsMatchCalls'
  <2> HIDE DEF new
  <2>1. call' = call /\ HealsMatchCalls
    BY DEF SimulatorClear, ChainOfApproval
  <2>2. \A x \in Call : x \notin inflight' => x \notin inflight \/ x = c
    BY <1>3
  <2>3. \A h \in healed' : /\ call[h.call].asset # None
                           /\ h.token = call[h.call].token
                           /\ h.fault = call[h.call].fault
                           /\ h.asset = call[h.call].asset
    BY <1>3, <1>6, <2>1 DEF HealsMatchCalls
  <2>4. ASSUME NEW x \in Call, \/ call[x].pc = "resolved"
                               \/ call[x].pc = "clearing" /\ x \notin inflight'
        PROVE  \E h \in healed' : h.call = x
    BY <1>3, <1>6, <2>1, <2>4 DEF HealsMatchCalls
  <2> QED
    BY <2>1, <2>3, <2>4 DEF HealsMatchCalls
<1> QED
  BY <1>4, <1>5, <1>7 DEF SimulatorClear, gatewayVars, ChainOfApproval,
     StoredWereCreated, TasksKnowTheirFault, TokensComeFromTasks,
     PendingWereMinted, RegistryNamesFaultAsset, CallsHoldTokens,
     AdmittedCallsAreBound, AssetOf

LEMMA GetTokenSafe ==
  ASSUME Inv, NEW c \in Caller, NEW f \in FaultId, GetToken(c, f)
  PROVE  Inv'
<1> USE DEF Inv
<1>1. c \in Call /\ c \notin Decision
  BY ConstantsOK DEF Call
<1>2. pending[f] \in Decision /\ token[pending[f]].state # "none"
      /\ call[c].asset = None
  BY <1>1 DEF GetToken, TypeOK, ChainOfApproval, PendingWereMinted, CallsHoldTokens
<1>3. CallHolds(c, pending[f])
  BY <1>1, <1>2, HoldUpdate DEF GetToken
<1>4. TypeOK'
  BY <1>3 DEF GetToken, CallHolds, gatewayVars, worldVars, TypeOK
<1>5. TokensComeFromTasks'
  BY <1>1, <1>3 DEF GetToken, CallHolds, Call, ChainOfApproval, TokensComeFromTasks
<1>6. CallsHoldTokens'
  BY <1>2, <1>3 DEF GetToken, CallHolds, ChainOfApproval, CallsHoldTokens
<1>7. AdmittedCallsAreBound' /\ InflightWereAdmitted' /\ HealsMatchCalls'
  BY <1>2, <1>3, OpenCallsAreHarmless DEF GetToken, CallHolds, gatewayVars
<1> QED
  BY <1>4, <1>5, <1>6, <1>7 DEF GetToken, gatewayVars, ChainOfApproval,
     StoredWereCreated, TasksKnowTheirFault, PendingWereMinted,
     RegistryNamesFaultAsset, AssetOf

LEMMA CallerExecuteSafe ==
  ASSUME Inv, NEW c \in Caller, NEW f \in FaultId, NEW S \in SUBSET Step,
     CallerExecute(c, f, S)
  PROVE  Inv'
<1> USE DEF Inv
<1>1. c \in Call /\ c \notin Decision
  BY ConstantsOK DEF Call
<1>2. call[c].token \in Decision /\ token[call[c].token].state # "none"
      /\ call[c].asset = None
  BY <1>1 DEF CallerExecute, ChainOfApproval, CallsHoldTokens
<1>3. CallSent(c, f, call[c].token)
  BY <1>1, <1>2, SendUpdate DEF CallerExecute
<1>4. TypeOK'
  BY <1>3 DEF CallerExecute, CallSent, gatewayVars, worldVars, TypeOK
<1>5. TokensComeFromTasks'
  BY <1>3 DEF CallerExecute, CallSent, Call, ChainOfApproval, TokensComeFromTasks
<1>6. CallsHoldTokens'
  BY ZenonT(60), <1>3 DEF CallerExecute, CallSent, ChainOfApproval, CallsHoldTokens
<1>7. AdmittedCallsAreBound' /\ InflightWereAdmitted' /\ HealsMatchCalls'
  BY <1>1, <1>2, <1>3, OpenCallsAreHarmless DEF CallerExecute, CallSent, gatewayVars
<1> QED
  BY <1>4, <1>5, <1>6, <1>7 DEF CallerExecute, gatewayVars, ChainOfApproval,
     StoredWereCreated, TasksKnowTheirFault, PendingWereMinted,
     RegistryNamesFaultAsset, AssetOf

LEMMA ResetStoreSafe ==
  ASSUME Inv, ResetStore
  PROVE  Inv'
<1> USE DEF Inv
<1>1. TypeOK'
  BY DEF ResetStore, EmptyStore, Idle, mcpVars, TypeOK
<1>2. StoredWereCreated'
  BY DEF ResetStore, EmptyStore, StoredWereCreated
<1>3. PendingWereMinted'
  BY DEF ResetStore, EmptyStore, PendingWereMinted
<1> QED
  BY <1>1, <1>2, <1>3 DEF ResetStore, EmptyStore, mcpVars, ChainOfApproval,
     TasksKnowTheirFault, TokensComeFromTasks, RegistryNamesFaultAsset, CallsHoldTokens,
     AdmittedCallsAreBound, InflightWereAdmitted, HealsMatchCalls, AssetOf

LEMMA GatewayRestartSafe ==
  ASSUME Inv, GatewayRestart
  PROVE  Inv'
<1> USE DEF Inv
<1>1. task' \in [Decision -> Task]
  <2>1. task \in [Decision -> Task]
    BY DEF TypeOK
  <2>2. \A d \in Decision : [task[d] EXCEPT !.pc = "failed"] \in Task
    BY <2>1 DEF Task, TaskPc
  <2> QED
    BY <2>1, <2>2 DEF GatewayRestart
<1>2. TypeOK'
  BY <1>1, ConstantsOK DEF GatewayRestart, EmptyStore, Idle, mcpVars, TypeOK
<1>3. StoredWereCreated'
  BY DEF GatewayRestart, EmptyStore, StoredWereCreated
<1>4. TasksKnowTheirFault'
  BY DEF GatewayRestart, EmptyStore, Running, ChainOfApproval, TasksKnowTheirFault
<1>5. TokensComeFromTasks'
  BY DEF GatewayRestart, mcpVars, ChainOfApproval, TokensComeFromTasks, BeforeMint,
     BeforeCall
<1>6. PendingWereMinted'
  BY DEF GatewayRestart, EmptyStore, PendingWereMinted
<1> QED
  BY <1>2, <1>3, <1>4, <1>5, <1>6 DEF GatewayRestart, EmptyStore, mcpVars,
     ChainOfApproval, RegistryNamesFaultAsset, CallsHoldTokens, AdmittedCallsAreBound,
     InflightWereAdmitted, HealsMatchCalls, AssetOf

LEMMA McpRestartSafe ==
  ASSUME Inv, McpRestart
  PROVE  Inv'
<1> USE DEF Inv
<1>1. NoTokenRevived /\ registry' \in [FaultId -> Registration]
      /\ \A f \in FaultId : registry'[f].asset = None
  BY WipeUpdate DEF McpRestart
<1>2. /\ call' \in [Call -> Invocation]
      /\ \A c \in Call :
           /\ call'[c].pc = IF call[c].pc \in {"sent", "clearing"} THEN "refused"
                            ELSE call[c].pc
           /\ call'[c].fault = call[c].fault
           /\ call'[c].token = call[c].token
           /\ call'[c].asset = call[c].asset
           /\ call'[c].late = call[c].late
  <2> DEFINE dead(c) == [call[c] EXCEPT !.pc = "refused"]
  <2>1. \A c \in Call :
          /\ call[c] \in Invocation /\ dead(c) \in Invocation
          /\ dead(c).pc = "refused" /\ dead(c).fault = call[c].fault
          /\ dead(c).token = call[c].token /\ dead(c).asset = call[c].asset
          /\ dead(c).late = call[c].late
    BY DEF TypeOK, Invocation, CallPc
  <2>2. call' = [c \in Call |-> IF call[c].pc \in {"sent", "clearing"} THEN dead(c) ELSE call[c]]
    BY DEF McpRestart
  <2> HIDE DEF dead
  <2> QED
    BY <2>1, <2>2
<1>3. /\ TokensComeFromTasks /\ PendingWereMinted /\ CallsHoldTokens
      /\ AdmittedCallsAreBound /\ InflightWereAdmitted /\ HealsMatchCalls
  BY DEF ChainOfApproval
<1>4. UNCHANGED <<stored, status, about, link, pending, inflight, healed>>
  BY DEF McpRestart, gatewayVars
<1>13. /\ task' \in [Decision -> Task]
       /\ \A d \in Decision :
            /\ task'[d].fault = task[d].fault
            /\ task'[d].pc = task[d].pc \/ (task[d].pc = "executing" /\ task'[d].pc = "unanswered")
  <2> DEFINE lost(d) == [task[d] EXCEPT !.pc = "unanswered"]
  <2>1. \A d \in Decision :
          /\ task[d] \in Task /\ lost(d) \in Task
          /\ lost(d).pc = "unanswered" /\ lost(d).fault = task[d].fault
    BY DEF TypeOK, Task, TaskPc
  <2>2. task' = [d \in Decision |->
                   IF task[d].pc = "executing" /\ call[d].pc \in {"sent", "clearing"}
                   THEN lost(d) ELSE task[d]]
    BY DEF McpRestart
  <2> HIDE DEF lost
  <2> QED
    BY <2>1, <2>2
<1>5. TypeOK'
  BY <1>1, <1>2, <1>13 DEF McpRestart, NoTokenRevived, gatewayVars, worldVars, TypeOK
<1>6. TokensComeFromTasks'
  BY <1>1, <1>2, <1>3, <1>4, <1>13 DEF NoTokenRevived, TokensComeFromTasks, Call,
     BeforeMint, BeforeCall
<1>7. PendingWereMinted'
  BY <1>1, <1>3, <1>4 DEF NoTokenRevived, PendingWereMinted, TypeOK
<1>8. CallsHoldTokens'
  BY <1>1, <1>2, <1>3 DEF NoTokenRevived, CallsHoldTokens
<1>9. AdmittedCallsAreBound'
  BY <1>1, <1>2, <1>3, <1>4 DEF NoTokenRevived, AdmittedCallsAreBound, AssetOf
<1>10. InflightWereAdmitted'
  BY <1>2, <1>3, <1>4 DEF InflightWereAdmitted, TypeOK
<1>11. HealsMatchCalls'
  <2>1. \A h \in healed : h.call \in Call
    BY DEF TypeOK, Heal
  <2> QED
    BY <1>2, <1>3, <1>4, <2>1 DEF HealsMatchCalls
<1>12. StoredWereCreated' /\ TasksKnowTheirFault' /\ RegistryNamesFaultAsset'
  BY <1>1, <1>4, <1>13 DEF ChainOfApproval, StoredWereCreated, TasksKnowTheirFault,
     RegistryNamesFaultAsset
<1> QED
  BY <1>5, <1>6, <1>7, <1>8, <1>9, <1>10, <1>11, <1>12 DEF ChainOfApproval

LEMMA CheckCallSafe ==
  ASSUME Inv, NEW c \in Call, CheckCall(c)
  PROVE  Inv'
<1> USE DEF Inv
<1>1. UNCHANGED <<stored, status, about, link, pending, task, token, registry, healed>>
      /\ UNCHANGED worldVars
  BY DEF CheckCall, gatewayVars
<1>2. call[c].token \in Decision /\ token[call[c].token].state # "none"
      /\ call[c].fault \in FaultId /\ call[c].asset = None
      /\ (call[c].late => token[call[c].token].state # "live")
      /\ call[c].pc = "sent"
  BY DEF CheckCall, ChainOfApproval, CallsHoldTokens
<1>3. CASE /\ Permitted(c)
           /\ call' = [call EXCEPT ![c].pc = "clearing",
                                   ![c].asset = registry[call[c].fault].asset]
           /\ inflight' = inflight \cup {c}
  <2> DEFINE a == registry[call[c].fault].asset
  <2>1. a \in Asset /\ about[call[c].fault] # None /\ a = AssetOf(call[c].fault)
    BY <1>2, <1>3 DEF Permitted, TypeOK, Registration, ChainOfApproval,
       RegistryNamesFaultAsset
  <2>2. token[call[c].token].state = "live"
        /\ token[call[c].token].fault = call[c].fault
    BY <1>3 DEF Permitted
  <2>3. a # None
    BY <2>1, ConstantsOK
  <2> HIDE DEF a
  <2>4. CallMoved(c, "clearing", a)
    BY <1>3, <2>1, CallAdmitUpdate DEF a
  <2>5. TypeOK'
    BY <1>1, <1>3, <2>4 DEF CallMoved, worldVars, TypeOK
  <2>6. TokensComeFromTasks'
    BY <1>1, <1>2, <2>4 DEF CallMoved, Call, ChainOfApproval, TokensComeFromTasks
  <2>7. CallsHoldTokens'
    BY <1>1, <2>4 DEF CallMoved, ChainOfApproval, CallsHoldTokens
  <2>8. AdmittedCallsAreBound'
    BY <1>1, <1>2, <2>1, <2>2, <2>4 DEF CallMoved, AssetOf, ChainOfApproval,
       AdmittedCallsAreBound
  <2>9. InflightWereAdmitted'
    BY <1>3, <2>3, <2>4 DEF CallMoved, TypeOK, ChainOfApproval, InflightWereAdmitted
  <2>10. HealsMatchCalls'
    <3>1. \A h \in healed : h.call \in Call \ {c}
      BY <1>2 DEF TypeOK, Heal, ChainOfApproval, HealsMatchCalls
    <3>2. \A x \in Call : x \notin inflight' => x \notin inflight /\ x # c
      BY <1>3
    <3> QED
      BY <1>1, <2>4, <3>1, <3>2 DEF CallMoved, ChainOfApproval, HealsMatchCalls
  <2> QED
    BY <1>1, <2>5, <2>6, <2>7, <2>8, <2>9, <2>10 DEF ChainOfApproval,
       StoredWereCreated, TasksKnowTheirFault, PendingWereMinted,
       RegistryNamesFaultAsset, AssetOf
<1>4. CASE call' = [call EXCEPT ![c].pc = "refused"] /\ UNCHANGED inflight
  <2>1. CallMoved(c, "refused", call[c].asset)
    BY <1>4, CallPcUpdate DEF CallPc
  <2>2. TypeOK'
    BY <1>1, <1>4, <2>1 DEF CallMoved, worldVars, TypeOK
  <2>3. TokensComeFromTasks'
    BY <1>1, <1>2, <2>1 DEF CallMoved, Call, ChainOfApproval, TokensComeFromTasks
  <2>4. CallsHoldTokens'
    BY <1>1, <2>1 DEF CallMoved, ChainOfApproval, CallsHoldTokens
  <2>5. AdmittedCallsAreBound'
    BY <1>1, <2>1 DEF CallMoved, AssetOf, ChainOfApproval, AdmittedCallsAreBound
  <2>6. InflightWereAdmitted'
    BY <1>4 DEF ChainOfApproval, InflightWereAdmitted
  <2>7. HealsMatchCalls'
    <3>1. \A h \in healed : h.call \in Call
      BY DEF TypeOK, Heal
    <3> QED
      BY <1>1, <1>4 DEF ChainOfApproval, HealsMatchCalls
  <2> QED
    BY <1>1, <2>2, <2>3, <2>4, <2>5, <2>6, <2>7 DEF ChainOfApproval,
       StoredWereCreated, TasksKnowTheirFault, PendingWereMinted,
       RegistryNamesFaultAsset, AssetOf
<1> QED
  BY <1>3, <1>4 DEF CheckCall

LEMMA ResetMcpSafe ==
  ASSUME Inv, ResetMcp
  PROVE  Inv'
<1> USE DEF Inv
<1>1. UNCHANGED <<stored, status, about, link, pending, task, call, inflight,
                  healed, sim, active, seen>>
  BY DEF ResetMcp, gatewayVars
<1>2. presenter' = [presenter EXCEPT !.op = "purge"]
  BY DEF ResetMcp
<1>3. CASE WipeMcp
  <2>1. NoTokenRevived /\ registry' \in [FaultId -> Registration]
        /\ \A f \in FaultId : registry'[f].asset = None
    BY <1>3, WipeUpdate
  <2>2. TypeOK'
    BY <1>1, <1>2, <2>1 DEF NoTokenRevived, TypeOK
  <2>3. TokensComeFromTasks'
    BY <1>1, <2>1 DEF NoTokenRevived, ChainOfApproval, TokensComeFromTasks
  <2>4. PendingWereMinted'
    BY <1>1, <2>1 DEF NoTokenRevived, TypeOK, ChainOfApproval, PendingWereMinted
  <2>5. CallsHoldTokens'
    BY <1>1, <2>1 DEF NoTokenRevived, ChainOfApproval, CallsHoldTokens
  <2>6. AdmittedCallsAreBound'
    BY <1>1, <2>1 DEF NoTokenRevived, AssetOf, ChainOfApproval, AdmittedCallsAreBound
  <2>7. RegistryNamesFaultAsset'
    BY <2>1 DEF RegistryNamesFaultAsset
  <2> QED
    BY <1>1, <2>2, <2>3, <2>4, <2>5, <2>6, <2>7 DEF ChainOfApproval,
       StoredWereCreated, TasksKnowTheirFault, InflightWereAdmitted, HealsMatchCalls
<1>4. CASE UNCHANGED <<token, registry>>
  <2>1. TypeOK'
    BY <1>1, <1>2, <1>4 DEF TypeOK
  <2> QED
    BY <1>1, <1>4, <2>1 DEF ChainOfApproval, StoredWereCreated,
       TasksKnowTheirFault, TokensComeFromTasks, PendingWereMinted,
       RegistryNamesFaultAsset, CallsHoldTokens, AdmittedCallsAreBound,
       InflightWereAdmitted, HealsMatchCalls, AssetOf
<1> QED
  BY <1>3, <1>4 DEF ResetMcp

\* The steps that touch neither the approvals nor the calls.
WorldStep ==
  /\ UNCHANGED <<stored, about, pending, task, mcpVars>>
  /\ status' \in [FaultId -> Status]
  /\ link' \in [Asset -> FaultId \cup {None}]
  /\ sim' \in [Asset -> Scenario \cup {None}]
  /\ active' \in [Asset -> Scenario \cup {None}]
  /\ presenter' \in [op: {"idle", "run", "reset", "wipe", "purge"},
                     scenario: Scenario \cup {None}]
  /\ seen' \in Scenario \cup {None}

LEMMA WorldStepSafe ==
  ASSUME Inv, WorldStep
  PROVE  Inv'
<1>1. TypeOK'
  BY DEF Inv, TypeOK, WorldStep, mcpVars
<1> QED
  BY <1>1 DEF Inv, WorldStep, mcpVars, ChainOfApproval, StoredWereCreated,
     TasksKnowTheirFault, TokensComeFromTasks, PendingWereMinted,
     RegistryNamesFaultAsset, CallsHoldTokens, AdmittedCallsAreBound,
     InflightWereAdmitted, HealsMatchCalls, AssetOf

LEMMA WorldSafe ==
  ASSUME Inv,
         \/ \E a \in Asset : FetchLogs(a)
         \/ \E f \in FaultId, st \in PatchStatus : PatchFault(f, st)
         \/ \E f \in FaultId : Deny(f)
         \/ \E s \in Scenario : RunScenario(s)
         \/ ResetLab
         \/ \E a \in Asset : ClearActive(a)
         \/ Inject \/ OrchestratorFails \/ OrchestratorIdle
  PROVE  Inv'
<1> SUFFICES WorldStep
  BY WorldStepSafe
<1> USE ConstantsOK DEF Inv, TypeOK, WorldStep, gatewayVars, mcpVars, worldVars
<1>1. CASE \E a \in Asset : FetchLogs(a)
  BY <1>1 DEF FetchLogs
<1>2. CASE \E f \in FaultId, st \in PatchStatus : PatchFault(f, st)
  <2>1. PICK f \in FaultId, st \in PatchStatus : PatchFault(f, st)
    BY <1>2
  <2>2. status' \in [FaultId -> Status]
    BY <2>1 DEF PatchFault, StoreStatus
  <2>3. link' \in [Asset -> FaultId \cup {None}]
    BY <2>1 DEF PatchFault, ReleaseAsset
  <2> QED
    BY <2>1, <2>2, <2>3 DEF PatchFault
<1>3. CASE \E f \in FaultId : Deny(f)
  BY <1>3 DEF Deny, StoreStatus, Status
<1>4. CASE \E s \in Scenario : RunScenario(s)
  BY <1>4 DEF RunScenario
<1>5. CASE ResetLab
  BY <1>5 DEF ResetLab
<1>6. CASE \E a \in Asset : ClearActive(a)
  BY <1>6 DEF ClearActive
<1>7. CASE Inject
  BY <1>7 DEF Inject, Idle
<1>8. CASE OrchestratorFails
  BY <1>8 DEF OrchestratorFails, Idle
<1>9. CASE OrchestratorIdle
  BY <1>9 DEF OrchestratorIdle
<1> QED
  BY <1>1, <1>2, <1>3, <1>4, <1>5, <1>6, <1>7, <1>8, <1>9

-----------------------------------------------------------------------------
(* The invariant, and what follows from it.                                *)

LEMMA InitSafe ==
  ASSUME Init
  PROVE  Inv
<1>1. TypeOK
  BY ConstantsOK DEF Init, TypeOK, Status, Task, TaskPc, Token, Registration,
     Invocation, CallPc, Heal
<1>2. ChainOfApproval
  BY DEF Init, ChainOfApproval, StoredWereCreated, TasksKnowTheirFault,
     TokensComeFromTasks, PendingWereMinted, RegistryNamesFaultAsset,
     CallsHoldTokens, AdmittedCallsAreBound, InflightWereAdmitted,
     HealsMatchCalls, Call
<1> QED
  BY <1>1, <1>2 DEF Inv

LEMMA StutterSafe ==
  ASSUME Inv, UNCHANGED vars
  PROVE  Inv'
BY WorldStepSafe DEF vars, gatewayVars, worldVars, WorldStep, Inv, TypeOK

LEMMA StepSafe ==
  ASSUME Inv, [Next]_vars
  PROVE  Inv'
<1>1. CASE Agent
  BY <1>1, CreateFaultSafe, WorldSafe DEF Agent
<1>2. CASE Operator
  BY <1>2, ApproveSafe, WorldSafe DEF Operator
<1>3. ASSUME NEW d \in Decision, Serve(d) \/ ExecuteLost(d)
      PROVE  Inv'
  BY <1>3, FetchAllowlistSafe, RegisterFaultSafe, MintTokenSafe,
     RejectDecisionSafe, StartExecutorSafe, SetRemediatingSafe,
     SendExecuteSafe, ExecuteReturnsSafe, ExecuteLostSafe, SetResolvedSafe
     DEF Serve
<1>4. ASSUME NEW c \in Call, McpTools(c) \/ SimulatorClear(c)
      PROVE  Inv'
  BY <1>4, CheckCallSafe, ClearConfirmedSafe, ClearFailedSafe,
     SimulatorClearSafe DEF McpTools
<1>5. ASSUME NEW c \in Caller, Client(c)
      PROVE  Inv'
  BY <1>5, GetTokenSafe, CallerExecuteSafe DEF Client
<1>6. CASE Presenter
  BY <1>6, ResetMcpSafe, ResetStoreSafe, WorldSafe DEF Presenter
<1>7. CASE GatewayRestart
  BY <1>7, GatewayRestartSafe
<1>8. CASE McpRestart
  BY <1>8, McpRestartSafe
<1>9. CASE UNCHANGED vars
  BY <1>9, StutterSafe
<1> QED
  BY <1>1, <1>2, <1>3, <1>4, <1>5, <1>6, <1>7, <1>8, <1>9 DEF Next

LEMMA InvHolds == Spec => []Inv
<1>1. Init => Inv
  BY InitSafe
<1>2. Inv /\ [Next]_vars => Inv'
  BY StepSafe
<1> QED
  BY <1>1, <1>2, PTL DEF Spec

\* Every variable of the gate keeps its type, however requests, resets and
\* restarts interleave.
THEOREM TypeCorrect == Spec => []TypeOK
BY InvHolds, PTL DEF Inv

\* Every link of the chain stays sound: fault, approval, token, registration,
\* call and clear always agree on the fault, and the asset on its scenario.
THEOREM ChainHolds == Spec => []ChainOfApproval
BY InvHolds, PTL DEF Inv

\* Every clear that remediation.execute performs goes back to an approval of
\* that very fault and hits that fault's asset.
THEOREM ApprovedAssets == Spec => []OnlyApprovedAssetsCleared
<1>1. Inv => OnlyApprovedAssetsCleared
  <2> SUFFICES ASSUME Inv, NEW h \in healed
               PROVE  /\ task[h.token].pc # "idle"
                      /\ task[h.token].fault = h.fault
                      /\ about[h.fault] # None
                      /\ h.asset = AssetOf(h.fault)
    BY DEF OnlyApprovedAssetsCleared
  <2>1. h.call \in Call
    BY DEF Inv, TypeOK, Heal
  <2>2. /\ call[h.call].asset # None
        /\ h.token = call[h.call].token
        /\ h.fault = call[h.call].fault
        /\ h.asset = call[h.call].asset
    BY DEF Inv, ChainOfApproval, HealsMatchCalls
  <2>3. /\ h.token \in Decision
        /\ about[h.fault] # None
        /\ h.asset = AssetOf(h.fault)
        /\ token[h.token].state # "none"
        /\ token[h.token].fault = h.fault
    BY <2>1, <2>2 DEF Inv, ChainOfApproval, AdmittedCallsAreBound
  <2> QED
    BY <2>3 DEF Inv, ChainOfApproval, TokensComeFromTasks
<1> QED
  BY <1>1, InvHolds, PTL

\* A call sent with a token that was already consumed or wiped clears nothing.
THEOREM ReplaysClearNothing == Spec => []NoReplay
<1>1. Inv => NoReplay
  BY DEF Inv, TypeOK, Heal, ChainOfApproval, HealsMatchCalls,
     AdmittedCallsAreBound, NoReplay
<1> QED
  BY <1>1, InvHolds, PTL

\* No token becomes consumed, and no clear is forgotten.
NothingSpent ==
  /\ \A d \in Decision : token'[d].state = "consumed" => token[d].state = "consumed"
  /\ healed \subseteq healed'

LEMMA OnlyConfirmationSpends ==
  ASSUME Inv, [Next]_vars, ~ \E c \in Call : ClearConfirmed(c)
  PROVE  NothingSpent
<1> USE DEF NothingSpent, gatewayVars, mcpVars, worldVars
<1>1. CASE Agent \/ Operator \/ Presenter \/ GatewayRestart \/ McpRestart
  <2>1. UNCHANGED token \/ WipeMcp
    BY <1>1 DEF Agent, FetchLogs, CreateFault, PatchFault, Operator, Deny, Approve,
       Presenter, RunScenario, ResetLab, ClearActive, Inject, OrchestratorFails,
       OrchestratorIdle, ResetMcp, ResetStore, GatewayRestart, McpRestart
  <2>2. UNCHANGED healed
    BY <1>1 DEF Agent, FetchLogs, CreateFault, PatchFault, Operator, Deny, Approve,
       Presenter, RunScenario, ResetLab, ClearActive, Inject, OrchestratorFails,
       OrchestratorIdle, ResetMcp, ResetStore, GatewayRestart, McpRestart
  <2>3. CASE WipeMcp
    <3>1. token \in [Decision -> Token]
      BY DEF Inv, TypeOK
    <3> QED
      BY <2>2, <2>3 DEF WipeMcp
  <2> QED
    BY <2>1, <2>2, <2>3
<1>2. ASSUME NEW d \in Decision, Serve(d) \/ ExecuteLost(d)
      PROVE  NothingSpent
  <2>1. CASE MintToken(d)
    BY <2>1 DEF MintToken
  <2> QED
    BY <1>2, <2>1 DEF Serve, FetchAllowlist, RegisterFault, RejectDecision,
       StartExecutor, SetRemediating, SendExecute, ExecuteReturns, ExecuteLost,
       SetResolved
<1>3. ASSUME NEW c \in Call, McpTools(c) \/ SimulatorClear(c)
      PROVE  NothingSpent
  BY <1>3 DEF McpTools, CheckCall, ClearFailed, SimulatorClear
<1>4. ASSUME NEW c \in Caller, Client(c)
      PROVE  NothingSpent
  BY <1>4 DEF Client, GetToken, CallerExecute
<1>5. CASE UNCHANGED vars
  BY <1>5 DEF vars
<1> QED
  BY <1>1, <1>2, <1>3, <1>4, <1>5 DEF Next

\* A consumed token has a clear on the Simulator behind it, so a failed or
\* unconfirmed clear never burns the human's approval.
THEOREM ConsumedHasClear == Spec => []ConsumedMeansCleared
<1>1. Init => ConsumedMeansCleared
  BY DEF Init, ConsumedMeansCleared
<1>2. ASSUME Inv, ConsumedMeansCleared, [Next]_vars
      PROVE  ConsumedMeansCleared'
  <2>1. CASE \E c \in Call : ClearConfirmed(c)
    <3>1. PICK c \in Call : ClearConfirmed(c)
      BY <2>1
    <3>2. \E h \in healed : h.token = call[c].token
      BY <1>2, <3>1 DEF Inv, ChainOfApproval, HealsMatchCalls, ClearConfirmed
    <3>3. \A d \in Decision : token'[d].state = "consumed" =>
            token[d].state = "consumed" \/ d = call[c].token
      BY <3>1 DEF ClearConfirmed, ConsumeToken
    <3> QED
      BY <1>2, <3>1, <3>2, <3>3 DEF ConsumedMeansCleared, ClearConfirmed
  <2>2. CASE ~ \E c \in Call : ClearConfirmed(c)
    BY <1>2, <2>2, OnlyConfirmationSpends DEF NothingSpent, ConsumedMeansCleared
  <2> QED
    BY <2>1, <2>2
<1> QED
  BY <1>1, <1>2, InvHolds, PTL DEF Spec

-----------------------------------------------------------------------------
(* The asset records of the Gateway                                        *)

\* An id that was not issued yet has no history.
NewFaultsAreDetected == \A f \in FaultId : about[f] = None => status[f] = "detected"

RecordsInv == NewFaultsAreDetected /\ LinkNamesOpenFault

\* A handler gives f status st, and releases its asset if that is resolved.
StatusSet(f, st) ==
  /\ StoreStatus(f, st)
  /\ IF st = "resolved" THEN ReleaseAsset(f, st) ELSE UNCHANGED link
  /\ UNCHANGED <<stored, about>>

LEMMA CreateFaultRecords ==
  ASSUME Inv, RecordsInv, NEW f \in FaultId, CreateFault(f)
  PROVE  RecordsInv'
<1>1. /\ about[f] = None /\ seen \in Scenario /\ Target[seen] \in Asset
      /\ about' \in [FaultId -> Scenario \cup {None}] /\ about'[f] = seen
      /\ \A g \in FaultId \ {f} : about'[g] = about[g]
      /\ stored' = stored \cup {f} /\ UNCHANGED status
      /\ \A a \in Asset : link'[a] = IF a = Target[seen] THEN f ELSE link[a]
  BY ConstantsOK DEF CreateFault, Inv, TypeOK
<1>2. \A a \in Asset : link[a] # None => link[a] \in FaultId /\ link[a] # f
  BY <1>1 DEF RecordsInv, LinkNamesOpenFault, Inv, TypeOK, ChainOfApproval, StoredWereCreated
<1>3. NewFaultsAreDetected'
  BY <1>1, ConstantsOK DEF RecordsInv, NewFaultsAreDetected
<1>4. LinkNamesOpenFault'
  BY <1>1, <1>2 DEF RecordsInv, NewFaultsAreDetected, LinkNamesOpenFault, AssetOf
<1> QED
  BY <1>3, <1>4 DEF RecordsInv

LEMMA StatusSetRecords ==
  ASSUME Inv, RecordsInv, NEW f \in FaultId, NEW st \in Status, StatusSet(f, st)
  PROVE  RecordsInv'
<1>1. /\ \A g \in FaultId : status'[g] = IF g = f /\ f \in stored THEN st ELSE status[g]
      /\ UNCHANGED <<stored, about>>
  BY DEF StatusSet, StoreStatus, Inv, TypeOK
<1>2. \A a \in Asset :
        link'[a] = IF f \in stored /\ st = "resolved" /\ a = AssetOf(f) THEN None ELSE link[a]
  BY DEF StatusSet, ReleaseAsset, Inv, TypeOK
<1>3. NewFaultsAreDetected'
  BY <1>1 DEF RecordsInv, NewFaultsAreDetected, Inv, ChainOfApproval, StoredWereCreated
<1>4. \A a \in Asset : link[a] # None => link[a] \in FaultId
  BY DEF Inv, TypeOK
<1>5. LinkNamesOpenFault'
  BY <1>1, <1>2, <1>4 DEF RecordsInv, LinkNamesOpenFault, AssetOf
<1> QED
  BY <1>3, <1>5 DEF RecordsInv

LEMMA EmptyStoreRecords ==
  ASSUME RecordsInv, EmptyStore, UNCHANGED <<status, about>>
  PROVE  RecordsInv'
BY DEF EmptyStore, RecordsInv, NewFaultsAreDetected, LinkNamesOpenFault

RecordsAlone == UNCHANGED <<stored, status, about, link>>

LEMMA RecordsStep ==
  ASSUME Inv, RecordsInv, [Next]_vars
  PROVE  RecordsInv'
<1> USE DEF gatewayVars, mcpVars, worldVars
<1>1. ASSUME RecordsAlone
      PROVE  RecordsInv'
  BY <1>1 DEF RecordsAlone, RecordsInv, NewFaultsAreDetected, LinkNamesOpenFault, AssetOf
<1>2. CASE Agent
  <2>1. ASSUME NEW f \in FaultId, NEW st \in PatchStatus, PatchFault(f, st)
        PROVE  RecordsInv'
    <3>1. StatusSet(f, st) /\ st \in Status
      BY <2>1, ConstantsOK DEF PatchFault, StatusSet, ReleaseAsset
    <3> QED
      BY <3>1, StatusSetRecords
  <2> QED
    BY <1>1, <1>2, <2>1, CreateFaultRecords DEF Agent, FetchLogs, RecordsAlone
<1>3. CASE Operator
  <2>1. ASSUME NEW f \in FaultId, Deny(f)
        PROVE  RecordsInv'
    <3>1. StatusSet(f, "denied") /\ "denied" \in Status
      BY <2>1 DEF Deny, StatusSet, Status
    <3> QED
      BY <3>1, StatusSetRecords
  <2> QED
    BY <1>1, <1>3, <2>1 DEF Operator, Approve, RecordsAlone
<1>4. ASSUME NEW d \in Decision, Serve(d) \/ ExecuteLost(d)
      PROVE  RecordsInv'
  <2>1. CASE SetRemediating(d) \/ SetResolved(d)
    <3>1. task[d].fault \in FaultId
      BY <2>1 DEF SetRemediating, SetResolved, TaskStep, Inv, ChainOfApproval, TasksKnowTheirFault
    <3>2. \E st \in Status : StatusSet(task[d].fault, st)
      <4>1. CASE SetRemediating(d)
        BY <4>1 DEF SetRemediating, StatusSet, Status
      <4>2. CASE SetResolved(d)
        BY <4>2 DEF SetResolved, StatusSet, Status
      <4> QED
        BY <2>1, <4>1, <4>2
    <3> QED
      BY <3>1, <3>2, StatusSetRecords
  <2> QED
    BY <1>1, <1>4, <2>1 DEF Serve, FetchAllowlist, RegisterFault, MintToken, RejectDecision,
       StartExecutor, SendExecute, ExecuteReturns, ExecuteLost, RecordsAlone
<1>5. CASE (\E c \in Call : McpTools(c) \/ SimulatorClear(c)) \/ \E c \in Caller : Client(c)
  BY <1>1, <1>5 DEF McpTools, CheckCall, ClearConfirmed, ClearFailed, SimulatorClear, Client,
     GetToken, CallerExecute, RecordsAlone
<1>6. CASE Presenter
  BY <1>1, <1>6, EmptyStoreRecords DEF Presenter, RunScenario, ResetLab, ClearActive, Inject,
     OrchestratorFails, OrchestratorIdle, ResetMcp, ResetStore, RecordsAlone, EmptyStore
<1>7. CASE GatewayRestart
  BY <1>7, EmptyStoreRecords DEF GatewayRestart, EmptyStore
<1>8. CASE McpRestart \/ UNCHANGED vars
  BY <1>1, <1>8 DEF McpRestart, vars, RecordsAlone
<1> QED
  BY <1>2, <1>3, <1>4, <1>5, <1>6, <1>7, <1>8 DEF Next

-----------------------------------------------------------------------------
(* The allowlist on its way to execution                                   *)

Fit(S, a) == \E s \in Scenario : Target[s] = a /\ S \subseteq StepsOf[s]

\* Steps S were put up for approval of fault f on asset a.
PutUp(S, f, a) ==
  /\ Fit(S, a)
  /\ \E d \in Decision : task[d].pc # "idle" /\ task[d].fault = f /\ S \subseteq task[d].steps

ActiveOnTarget == \A a \in Asset : active[a] # None => Target[active[a]] = a
TasksFit ==
  \A d \in Decision :
    /\ task[d].pc # "idle" => Fit(task[d].steps, AssetOf(task[d].fault))
    /\ task[d].pc = "scenario" => task[d].steps = {}
RegistryFits ==
  \A f \in FaultId : registry[f].asset # None => PutUp(registry[f].steps, f, registry[f].asset)
CallsFit ==
  \A c \in Call : call[c].asset # None => PutUp(call[c].steps, call[c].fault, call[c].asset)
HealsFit == \A h \in healed : PutUp(h.steps, h.fault, h.asset)

StepsInv == ActiveOnTarget /\ TasksFit /\ RegistryFits /\ CallsFit /\ HealsFit

\* What is put up for approval stays so.
TasksGrow ==
  \A d \in Decision :
    task[d].pc # "idle" =>
      /\ task'[d].pc # "idle"
      /\ task'[d].fault = task[d].fault
      /\ task[d].steps \subseteq task'[d].steps

\* A task only moves on; nobody's fault or allowlist changes.
TasksMove ==
  \A d \in Decision :
    /\ task'[d].pc = "idle" <=> task[d].pc = "idle"
    /\ task'[d].pc = "scenario" => task[d].pc = "scenario"
    /\ task'[d].fault = task[d].fault /\ task'[d].steps = task[d].steps

FaultsStay == \A f \in FaultId : about[f] # None => about'[f] = about[f]

LEMMA TasksStayFit ==
  ASSUME Inv, TasksFit, TasksMove, FaultsStay
  PROVE  TasksFit'
<1> SUFFICES ASSUME NEW d \in Decision, task'[d].pc # "idle"
             PROVE  Fit(task[d].steps, Target[about'[task[d].fault]])
  BY DEF TasksFit, TasksMove, AssetOf, Fit
<1>1. task[d].pc # "idle" /\ task[d].fault \in FaultId /\ about[task[d].fault] # None
  BY DEF TasksMove, Inv, ChainOfApproval, TasksKnowTheirFault
<1> QED
  BY <1>1 DEF TasksFit, FaultsStay, AssetOf

\* Registrations, admitted calls and clears of before remain covered.
LEMMA CoveredStays ==
  ASSUME StepsInv, TasksGrow
  PROVE  /\ UNCHANGED registry => RegistryFits'
         /\ (\A c \in Call : call'[c].asset # None =>
               /\ call'[c].asset = call[c].asset /\ call'[c].steps = call[c].steps
               /\ call'[c].fault = call[c].fault) => CallsFit'
         /\ UNCHANGED healed => HealsFit'
BY DEF StepsInv, TasksGrow, RegistryFits, CallsFit, HealsFit, PutUp, Fit

LEMMA MovingIsGrowing ==
  ASSUME TasksMove
  PROVE  TasksGrow
BY DEF TasksMove, TasksGrow

\* The allowlist, registrations and calls stay as they are.
StepsStay == TasksMove /\ FaultsStay /\ UNCHANGED <<active, registry, healed>>

LEMMA StepsStayFit ==
  ASSUME Inv, StepsInv, StepsStay,
         \A c \in Call : call'[c].asset # None =>
           /\ call'[c].asset = call[c].asset /\ call'[c].steps = call[c].steps
           /\ call'[c].fault = call[c].fault
  PROVE  StepsInv'
<1>1. TasksFit'
  BY TasksStayFit DEF StepsInv, StepsStay
<1>2. TasksGrow
  BY MovingIsGrowing DEF StepsStay
<1>3. RegistryFits' /\ CallsFit' /\ HealsFit'
  BY <1>2, CoveredStays DEF StepsStay
<1> QED
  BY <1>1, <1>3 DEF StepsInv, StepsStay, ActiveOnTarget

LEMMA FetchAllowlistFits ==
  ASSUME Inv, StepsInv, NEW d \in Decision, FetchAllowlist(d)
  PROVE  StepsInv'
<1>1. PICK S \in Allowlists(task[d].fault) :
        task' = [task EXCEPT ![d].pc = "register", ![d].steps = S]
  BY DEF FetchAllowlist
<1>2. task[d].fault \in FaultId /\ AssetOf(task[d].fault) \in Asset
  BY ConstantsOK DEF FetchAllowlist, Inv, TypeOK, ChainOfApproval, TasksKnowTheirFault, AssetOf
<1>3. Fit(S, AssetOf(task[d].fault))
  <2>1. CASE S = {}
    BY <2>1 DEF FetchAllowlist, StepsInv, TasksFit, Fit
  <2>2. CASE S # {}
    BY <1>1, <1>2, <2>2 DEF Allowlists, StepsInv, ActiveOnTarget, Fit, Inv, TypeOK
  <2> QED
    BY <2>1, <2>2
<1>4. /\ task'[d].pc = "register" /\ task'[d].fault = task[d].fault /\ task'[d].steps = S
      /\ \A e \in Decision \ {d} : task'[e] = task[e]
  BY <1>1 DEF Inv, TypeOK, Task
<1>5. TasksFit'
  BY <1>3, <1>4 DEF FetchAllowlist, gatewayVars, StepsInv, TasksFit, AssetOf
<1>6. TasksGrow
  BY <1>4 DEF FetchAllowlist, StepsInv, TasksFit, TasksGrow
<1>7. RegistryFits' /\ CallsFit' /\ HealsFit'
  BY <1>6, CoveredStays DEF FetchAllowlist, mcpVars
<1> QED
  BY <1>5, <1>7 DEF FetchAllowlist, worldVars, StepsInv, ActiveOnTarget

LEMMA RegisterFaultFits ==
  ASSUME Inv, StepsInv, NEW d \in Decision, RegisterFault(d)
  PROVE  StepsInv'
<1>1. task[d].pc # "idle" /\ task[d].fault \in FaultId
  BY DEF RegisterFault, TaskStep, Inv, ChainOfApproval, TasksKnowTheirFault
<1>2. TasksMove /\ FaultsStay
  BY DEF RegisterFault, TaskStep, gatewayVars, TasksMove, FaultsStay, Inv, TypeOK, Task
<1>3. TasksFit' /\ TasksGrow
  BY <1>2, TasksStayFit, MovingIsGrowing DEF StepsInv
<1>4. CallsFit' /\ HealsFit'
  BY <1>3, CoveredStays DEF RegisterFault
<1>5. RegistryFits'
  <2>1. CASE UNCHANGED registry
    BY <1>3, <2>1, CoveredStays
  <2>2. CASE registry' = [registry EXCEPT ![task[d].fault] =
                            [asset |-> AssetOf(task[d].fault), steps |-> task[d].steps]]
    <3>1. /\ registry'[task[d].fault].asset = AssetOf(task[d].fault)
          /\ registry'[task[d].fault].steps = task[d].steps
          /\ \A f \in FaultId \ {task[d].fault} : registry'[f] = registry[f]
      BY <1>1, <2>2 DEF Inv, TypeOK, Registration
    <3>2. /\ Fit(task[d].steps, AssetOf(task[d].fault))
          /\ task'[d].pc # "idle" /\ task'[d].fault = task[d].fault
          /\ task'[d].steps = task[d].steps
      BY <1>1, <1>2 DEF StepsInv, TasksFit, TasksMove
    <3>3. PutUp(registry[task[d].fault].steps, task[d].fault, registry[task[d].fault].asset)'
      BY <3>1, <3>2 DEF PutUp, Fit
    <3>4. ASSUME NEW f \in FaultId \ {task[d].fault}, registry'[f].asset # None
          PROVE  PutUp(registry[f].steps, f, registry[f].asset)'
      BY <1>3, <3>1, <3>4 DEF StepsInv, RegistryFits, TasksGrow, PutUp, Fit
    <3> QED
      BY <3>2, <3>3, <3>4 DEF RegistryFits
  <2> QED
    BY <2>1, <2>2 DEF RegisterFault
<1> QED
  BY <1>3, <1>4, <1>5 DEF RegisterFault, worldVars, StepsInv, ActiveOnTarget

LEMMA CheckCallFits ==
  ASSUME Inv, StepsInv, NEW c \in Call, CheckCall(c)
  PROVE  StepsInv'
<1>1. /\ call \in [Call -> Invocation] /\ call[c].pc = "sent" /\ call[c].fault \in FaultId
  BY DEF CheckCall, Inv, TypeOK, ChainOfApproval, CallsHoldTokens
<1>2. TasksMove /\ FaultsStay
  BY DEF CheckCall, gatewayVars, TasksMove, FaultsStay
<1>0. TasksFit' /\ TasksGrow
  BY <1>2, TasksStayFit, MovingIsGrowing DEF StepsInv
<1>3. CallsFit'
  <2>1. CASE Permitted(c)
    <3>1. /\ registry[call[c].fault].asset # None
          /\ call[c].steps \subseteq registry[call[c].fault].steps
      BY <2>1 DEF Permitted
    <3>2. PutUp(call[c].steps, call[c].fault, registry[call[c].fault].asset)
      BY <1>1, <3>1 DEF StepsInv, RegistryFits, PutUp, Fit
    <3>3. call' = [call EXCEPT ![c].pc = "clearing", ![c].asset = registry[call[c].fault].asset]
      BY <2>1 DEF CheckCall
    <3>4. /\ call'[c].asset = registry[call[c].fault].asset /\ call'[c].steps = call[c].steps
          /\ call'[c].fault = call[c].fault
          /\ \A x \in Call \ {c} : call'[x] = call[x]
      BY <1>1, <3>3 DEF Invocation
    <3> QED
      BY <1>0, <3>2, <3>4 DEF StepsInv, CallsFit, TasksGrow, PutUp, Fit
  <2>2. CASE ~Permitted(c)
    <3>1. call' = [call EXCEPT ![c].pc = "refused"]
      BY <2>2 DEF CheckCall
    <3>2. \A x \in Call : /\ call'[x].asset = call[x].asset /\ call'[x].steps = call[x].steps
                           /\ call'[x].fault = call[x].fault
      BY <1>1, <3>1 DEF Invocation
    <3> QED
      BY <1>0, <3>2, CoveredStays
  <2> QED
    BY <2>1, <2>2
<1>4. RegistryFits' /\ HealsFit'
  BY <1>0, CoveredStays DEF CheckCall
<1> QED
  BY <1>0, <1>3, <1>4 DEF CheckCall, worldVars, StepsInv, ActiveOnTarget

LEMMA SimulatorClearFits ==
  ASSUME Inv, StepsInv, NEW c \in Call, SimulatorClear(c)
  PROVE  StepsInv'
<1>1. call[c].asset # None
  BY DEF SimulatorClear, Inv, ChainOfApproval, InflightWereAdmitted
<1>2. PutUp(call[c].steps, call[c].fault, call[c].asset)
  BY <1>1 DEF StepsInv, CallsFit
<1>3. HealsFit'
  BY <1>2 DEF SimulatorClear, StepsInv, HealsFit, PutUp
<1>4. TasksFit' /\ TasksGrow
  BY DEF SimulatorClear, gatewayVars, StepsInv, TasksFit, TasksGrow, AssetOf
<1>5. RegistryFits' /\ CallsFit'
  BY <1>4, CoveredStays DEF SimulatorClear
<1> QED
  BY <1>3, <1>4, <1>5 DEF SimulatorClear, StepsInv, ActiveOnTarget

LEMMA GatewayFits ==
  ASSUME Inv, StepsInv, NEW d \in Decision, Serve(d) \/ ExecuteLost(d)
  PROVE  StepsInv'
<1> USE DEF gatewayVars, mcpVars, worldVars
<1>1. CASE SendExecute(d)
  <2>1. TasksMove /\ FaultsStay
    BY <1>1 DEF SendExecute, TaskStep, TasksMove, FaultsStay, Inv, TypeOK, Task
  <2>2. \A c \in Call : call'[c].asset # None => call'[c] = call[c]
    BY <1>1 DEF SendExecute, Send, Inv, TypeOK, Invocation
  <2> QED
    BY <1>1, <2>1, <2>2, StepsStayFit DEF SendExecute, StepsStay
<1>2. CASE \/ MintToken(d) \/ RejectDecision(d) \/ StartExecutor(d) \/ SetRemediating(d)
           \/ ExecuteReturns(d) \/ ExecuteLost(d) \/ SetResolved(d)
  <2> USE DEF MintToken, RejectDecision, StartExecutor, SetRemediating, ExecuteReturns,
             ExecuteLost, SetResolved, TaskStep
  <2>1. \E p \in TaskPc \ {"idle", "scenario"} :
          task' = [task EXCEPT ![d].pc = p] /\ task[d].pc # "idle"
    BY <1>2 DEF TaskPc
  <2>2. TasksMove
    BY <2>1 DEF TasksMove, Inv, TypeOK, Task
  <2>3. FaultsStay /\ UNCHANGED <<active, registry, healed, call>>
    BY <1>2 DEF FaultsStay
  <2> QED
    BY <2>2, <2>3, StepsStayFit DEF StepsStay
<1> QED
  BY <1>1, <1>2, FetchAllowlistFits, RegisterFaultFits DEF Serve

LEMMA ApproveFits ==
  ASSUME Inv, StepsInv, NEW d \in Decision, NEW f \in FaultId, Approve(d, f)
  PROVE  StepsInv'
<1>1. /\ task[d].pc = "idle"
      /\ task'[d].steps = {} /\ task'[d].fault = f
      /\ \A e \in Decision \ {d} : task'[e] = task[e]
      /\ UNCHANGED about
  BY DEF Approve, gatewayVars, Inv, TypeOK
<1>2. about[f] \in Scenario
  BY DEF Approve, Inv, TypeOK, ChainOfApproval, StoredWereCreated
<1>3. TasksFit'
  BY <1>1, <1>2 DEF StepsInv, TasksFit, Fit, AssetOf
<1>4. TasksGrow
  BY <1>1 DEF TasksGrow
<1>5. RegistryFits' /\ CallsFit' /\ HealsFit'
  BY <1>4, CoveredStays DEF Approve, mcpVars
<1> QED
  BY <1>3, <1>5 DEF Approve, worldVars, StepsInv, ActiveOnTarget

LEMMA CallsMoveFit ==
  ASSUME Inv, StepsInv, NEW c \in Call,
         ClearConfirmed(c) \/ ClearFailed(c) \/ Client(c)
  PROVE  StepsInv'
<1> USE DEF ClearConfirmed, ClearFailed, Client, GetToken, CallerExecute, gatewayVars, worldVars
<1>1. call \in [Call -> Invocation]
  BY DEF Inv, TypeOK
<1>2. \A x \in Call : call'[x].asset # None =>
        /\ call'[x].asset = call[x].asset /\ call'[x].steps = call[x].steps
        /\ call'[x].fault = call[x].fault
  BY <1>1 DEF Send, Invocation
<1>3. StepsStay
  BY DEF StepsStay, TasksMove, FaultsStay
<1> QED
  BY <1>2, <1>3, StepsStayFit

LEMMA WorldFits ==
  ASSUME Inv, StepsInv,
         TasksMove, FaultsStay, ActiveOnTarget', UNCHANGED <<call, healed>>,
         UNCHANGED registry \/ \A f \in FaultId : registry'[f].asset = None
  PROVE  StepsInv'
<1>1. TasksFit' /\ TasksGrow
  BY TasksStayFit, MovingIsGrowing DEF StepsInv
<1>2. CallsFit' /\ HealsFit'
  BY <1>1, CoveredStays
<1>3. RegistryFits'
  <2>1. CASE UNCHANGED registry
    BY <1>1, <2>1, CoveredStays
  <2>2. CASE \A f \in FaultId : registry'[f].asset = None
    BY <2>2 DEF RegistryFits
  <2> QED
    BY <2>1, <2>2
<1> QED
  BY <1>1, <1>2, <1>3 DEF StepsInv

LEMMA PresenterFits ==
  ASSUME Inv, StepsInv, Presenter
  PROVE  StepsInv'
<1> USE DEF gatewayVars, mcpVars
<1>1. TasksMove /\ FaultsStay /\ UNCHANGED <<call, healed>>
  BY DEF TasksMove, FaultsStay, Presenter, RunScenario, ResetLab, ClearActive, Inject,
     OrchestratorFails, OrchestratorIdle, ResetMcp, ResetStore, EmptyStore
<1>2. ActiveOnTarget'
  <2>1. CASE \E a \in Asset : ClearActive(a)
    BY <2>1 DEF ClearActive, StepsInv, ActiveOnTarget, Inv, TypeOK
  <2>2. CASE Inject
    BY <2>2 DEF Inject, StepsInv, ActiveOnTarget, Inv, TypeOK
  <2>3. CASE UNCHANGED active
    BY <2>3 DEF StepsInv, ActiveOnTarget
  <2> QED
    BY <2>1, <2>2, <2>3 DEF Presenter, RunScenario, ResetLab, OrchestratorFails, OrchestratorIdle,
       ResetMcp, ResetStore
<1>3. UNCHANGED registry \/ \A f \in FaultId : registry'[f].asset = None
  BY DEF Presenter, RunScenario, ResetLab, ClearActive, Inject, OrchestratorFails,
     OrchestratorIdle, ResetMcp, ResetStore, WipeMcp
<1> QED
  BY <1>1, <1>2, <1>3, WorldFits

LEMMA RestartFits ==
  ASSUME Inv, StepsInv, GatewayRestart \/ McpRestart
  PROVE  StepsInv'
<1>1. CASE GatewayRestart
  <2>1. TasksMove /\ FaultsStay
    BY <1>1 DEF GatewayRestart, Running, EmptyStore, TasksMove, FaultsStay, Inv, TypeOK, Task
  <2> QED
    BY <1>1, <2>1, StepsStayFit DEF GatewayRestart, mcpVars, StepsStay
<1>2. CASE McpRestart
  <2>1. TasksMove /\ FaultsStay
    BY <1>2 DEF McpRestart, gatewayVars, TasksMove, FaultsStay, Inv, TypeOK, Task
  <2>2. \A c \in Call : /\ call'[c].asset = call[c].asset /\ call'[c].steps = call[c].steps
                         /\ call'[c].fault = call[c].fault
    BY <1>2 DEF McpRestart, Inv, TypeOK, Invocation
  <2>3. CallsFit' /\ HealsFit'
    BY <1>2, <2>1, <2>2, MovingIsGrowing, CoveredStays DEF McpRestart
  <2>4. RegistryFits'
    BY <1>2 DEF McpRestart, WipeMcp, RegistryFits
  <2> QED
    BY <1>2, <2>1, <2>3, <2>4, TasksStayFit DEF McpRestart, worldVars, StepsInv, ActiveOnTarget
<1> QED
  BY <1>1, <1>2

LEMMA StepsStep ==
  ASSUME Inv, StepsInv, [Next]_vars
  PROVE  StepsInv'
<1> USE DEF gatewayVars, mcpVars, worldVars
<1>1. CASE Agent
  <2>1. TasksMove /\ FaultsStay
    BY <1>1 DEF Agent, FetchLogs, CreateFault, PatchFault, TasksMove, FaultsStay, Inv, TypeOK
  <2> QED
    BY <1>1, <2>1, StepsStayFit DEF Agent, FetchLogs, CreateFault, PatchFault, StepsStay
<1>2. CASE Operator
  <2>1. ASSUME NEW f \in FaultId, Deny(f)
        PROVE  StepsInv'
    BY <2>1, StepsStayFit DEF Deny, TasksMove, FaultsStay, StepsStay
  <2> QED
    BY <1>2, <2>1, ApproveFits DEF Operator
<1>3. ASSUME NEW c \in Call, McpTools(c) \/ SimulatorClear(c)
      PROVE  StepsInv'
  <2>1. CASE ClearConfirmed(c) \/ ClearFailed(c)
    BY <2>1, CallsMoveFit
  <2> QED
    BY <1>3, <2>1, CheckCallFits, SimulatorClearFits DEF McpTools
<1>4. ASSUME NEW c \in Caller, Client(c)
      PROVE  StepsInv'
  BY <1>4, CallsMoveFit DEF Call
<1>5. CASE UNCHANGED vars
  BY <1>5, StepsStayFit DEF vars, TasksMove, FaultsStay, StepsStay
<1> QED
  BY <1>1, <1>2, <1>3, <1>4, <1>5, GatewayFits, PresenterFits, RestartFits DEF Next

-----------------------------------------------------------------------------
(* What a resolved fault has behind it                                     *)

\* A task only executes its own call, and only verifies after a clear.
CallsServeTasks ==
  \A d \in Decision : call[d].pc # "idle" => call[d].fault = task[d].fault
VerifyingWasCleared ==
  \A d \in Decision :
    task[d].pc = "verifying" => \E h \in healed : h.fault = task[d].fault

ResolvedInv == CallsServeTasks /\ VerifyingWasCleared /\ ResolvedMeansCleared

\* Between two states tasks and calls keep their fault, no task starts to
\* verify and no clear is forgotten.
NothingVerified ==
  /\ \A d \in Decision :
       /\ call'[d].pc # "idle" => call[d].pc # "idle" /\ call'[d].fault = call[d].fault
       /\ call[d].pc # "idle" => task'[d].fault = task[d].fault
       /\ task'[d].pc = "verifying" =>
            task[d].pc = "verifying" /\ task'[d].fault = task[d].fault
  /\ healed \subseteq healed'

LEMMA NothingVerifiedSafe ==
  ASSUME CallsServeTasks, VerifyingWasCleared, NothingVerified
  PROVE  CallsServeTasks' /\ VerifyingWasCleared'
BY DEF CallsServeTasks, VerifyingWasCleared, NothingVerified

\* No stored fault becomes resolved.
NothingResolved ==
  /\ \A f \in stored' : status'[f] = "resolved" => f \in stored /\ status[f] = "resolved"
  /\ healed \subseteq healed'

LEMMA NothingResolvedSafe ==
  ASSUME ResolvedMeansCleared, NothingResolved
  PROVE  ResolvedMeansCleared'
BY DEF ResolvedMeansCleared, NothingResolved

LEMMA SendExecuteResolved ==
  ASSUME Inv, CallsServeTasks, VerifyingWasCleared, NEW d \in Decision, SendExecute(d)
  PROVE  CallsServeTasks' /\ VerifyingWasCleared'
<1>1. TaskMoved(d, "executing")
  BY TaskPcUpdate DEF SendExecute, TaskStep, Inv, TaskPc
<1>2. task[d].fault \in FaultId
  BY DEF SendExecute, TaskStep, Inv, ChainOfApproval, TasksKnowTheirFault
<1>3. CallSent(d, task[d].fault, d)
  BY <1>2, SendUpdate DEF SendExecute, Inv, TypeOK, Task, Call
<1>4. UNCHANGED healed
  BY DEF SendExecute
<1> QED
  BY <1>1, <1>3, <1>4 DEF TaskMoved, CallSent, CallsServeTasks, VerifyingWasCleared, Call

LEMMA ExecuteReturnsResolved ==
  ASSUME Inv, CallsServeTasks, VerifyingWasCleared, NEW d \in Decision, ExecuteReturns(d)
  PROVE  CallsServeTasks' /\ VerifyingWasCleared'
<1>1. UNCHANGED <<call, healed>>
  BY DEF ExecuteReturns, mcpVars
<1>2. CASE call[d].pc = "resolved" /\ TaskStep(d, "executing", "verifying")
  <2>1. TaskMoved(d, "verifying")
    BY <1>2, TaskPcUpdate DEF TaskStep, Inv, TaskPc
  <2>2. PICK h \in healed : h.call = d
    BY <1>2 DEF Inv, ChainOfApproval, HealsMatchCalls, Call
  <2>3. h.fault = task[d].fault
    BY <1>2, <2>2 DEF Inv, ChainOfApproval, HealsMatchCalls, CallsServeTasks
  <2> QED
    BY <1>1, <2>1, <2>3 DEF TaskMoved, CallsServeTasks, VerifyingWasCleared
<1>3. CASE TaskStep(d, "executing", "failed")
  <2>1. TaskMoved(d, "failed")
    BY <1>3, TaskPcUpdate DEF TaskStep, Inv, TaskPc
  <2> QED
    BY <1>1, <2>1 DEF TaskMoved, CallsServeTasks, VerifyingWasCleared
<1> QED
  BY <1>2, <1>3 DEF ExecuteReturns

LEMMA TasksAndCallsResolved ==
  ASSUME Inv, CallsServeTasks, VerifyingWasCleared, [Next]_vars
  PROVE  CallsServeTasks' /\ VerifyingWasCleared'
<1> USE DEF gatewayVars, mcpVars, worldVars
<1>0. task \in [Decision -> Task] /\ call \in [Call -> Invocation] /\ Decision \subseteq Call
  BY DEF Inv, TypeOK, Call
<1>1. CASE UNCHANGED <<task, call, healed>>
  BY <1>1 DEF CallsServeTasks, VerifyingWasCleared
<1>2. ASSUME NEW d \in Decision, NEW f \in FaultId, Approve(d, f)
      PROVE  CallsServeTasks' /\ VerifyingWasCleared'
  <2>1. call[d].pc = "idle"
    BY <1>2 DEF Approve, Inv, ChainOfApproval, TokensComeFromTasks, BeforeCall, BeforeMint
  <2>2. task'[d].pc = "scenario" /\ \A e \in Decision \ {d} : task'[e] = task[e]
    BY <1>0, <1>2 DEF Approve
  <2> QED
    BY <1>2, <2>1, <2>2, NothingVerifiedSafe DEF Approve, NothingVerified
<1>3. ASSUME NEW d \in Decision, Serve(d) \/ ExecuteLost(d)
      PROVE  CallsServeTasks' /\ VerifyingWasCleared'
  <2>1. CASE FetchAllowlist(d)
    BY <1>0, <2>1, NothingVerifiedSafe DEF FetchAllowlist, NothingVerified, Task
  <2>2. CASE \/ RegisterFault(d) \/ MintToken(d) \/ RejectDecision(d) \/ StartExecutor(d)
             \/ SetRemediating(d) \/ ExecuteLost(d) \/ SetResolved(d)
    <3>1. \E p \in TaskPc \ {"verifying"} : task' = [task EXCEPT ![d].pc = p]
      BY <2>2 DEF RegisterFault, MintToken, RejectDecision, StartExecutor, SetRemediating,
         ExecuteLost, SetResolved, TaskStep, TaskPc
    <3>2. UNCHANGED <<call, healed>>
      BY <2>2 DEF RegisterFault, MintToken, RejectDecision, StartExecutor, SetRemediating,
         ExecuteLost, SetResolved
    <3> QED
      BY <1>0, <3>1, <3>2, NothingVerifiedSafe DEF NothingVerified, Task
  <2> QED
    BY <1>3, <2>1, <2>2, SendExecuteResolved, ExecuteReturnsResolved DEF Serve
<1>4. ASSUME NEW c \in Call, McpTools(c) \/ SimulatorClear(c)
      PROVE  CallsServeTasks' /\ VerifyingWasCleared'
  <2>1. \A x \in Call : call'[x].pc # "idle" => call[x].pc # "idle" /\ call'[x].fault = call[x].fault
    BY <1>0, <1>4 DEF McpTools, CheckCall, ClearConfirmed, ClearFailed, SimulatorClear, Invocation
  <2>2. UNCHANGED task /\ healed \subseteq healed'
    BY <1>4 DEF McpTools, CheckCall, ClearConfirmed, ClearFailed, SimulatorClear
  <2> QED
    BY <1>0, <2>1, <2>2, NothingVerifiedSafe DEF NothingVerified
<1>5. ASSUME NEW c \in Caller, Client(c)
      PROVE  CallsServeTasks' /\ VerifyingWasCleared'
  <2>1. c \notin Decision /\ \A x \in Call \ {c} : call'[x] = call[x]
    BY <1>0, <1>5, ConstantsOK DEF Client, GetToken, CallerExecute, Send
  <2>2. UNCHANGED <<task, healed>>
    BY <1>5 DEF Client, GetToken, CallerExecute
  <2> QED
    BY <1>0, <2>1, <2>2, NothingVerifiedSafe DEF NothingVerified
<1>6. CASE GatewayRestart
  BY <1>0, <1>6, NothingVerifiedSafe DEF GatewayRestart, Running, NothingVerified, Task
<1>7. CASE McpRestart
  <2>1. \A d \in Decision :
          /\ task'[d].fault = task[d].fault
          /\ task'[d].pc = "verifying" => task[d].pc = "verifying"
    BY <1>0, <1>7 DEF McpRestart, Task
  <2>2. \A c \in Call : call'[c].pc # "idle" => call[c].pc # "idle" /\ call'[c].fault = call[c].fault
    BY <1>0, <1>7 DEF McpRestart, Invocation
  <2> QED
    BY <1>0, <1>7, <2>1, <2>2, NothingVerifiedSafe DEF McpRestart, NothingVerified
<1>8. CASE Agent \/ Presenter \/ (\E f \in FaultId : Deny(f)) \/ UNCHANGED vars
  BY <1>1, <1>8 DEF Agent, FetchLogs, CreateFault, PatchFault, Deny, Presenter, RunScenario,
     ResetLab, ClearActive, Inject, OrchestratorFails, OrchestratorIdle, ResetMcp, ResetStore, vars
<1> QED
  BY <1>2, <1>3, <1>4, <1>5, <1>6, <1>7, <1>8 DEF Next, Operator

LEMMA SetResolvedResolved ==
  ASSUME Inv, VerifyingWasCleared, ResolvedMeansCleared, NEW d \in Decision, SetResolved(d)
  PROVE  ResolvedMeansCleared'
<1>1. PICK h \in healed : h.fault = task[d].fault
  BY DEF SetResolved, TaskStep, VerifyingWasCleared
<1>2. UNCHANGED <<stored, healed>> /\ \A f \in stored : f # task[d].fault => status'[f] = status[f]
  BY DEF SetResolved, StoreStatus, mcpVars, Inv, TypeOK
<1> QED
  BY <1>1, <1>2 DEF ResolvedMeansCleared

LEMMA ResolvedStep ==
  ASSUME Inv, RecordsInv, ResolvedInv, [Next]_vars
  PROVE  ResolvedInv'
<1> USE DEF gatewayVars, mcpVars, worldVars
<1>0. status \in [FaultId -> Status] /\ stored \subseteq FaultId
  BY DEF Inv, TypeOK
<1>1. CASE UNCHANGED <<stored, status>> /\ healed \subseteq healed'
  BY <1>1, NothingResolvedSafe, TasksAndCallsResolved DEF ResolvedInv, NothingResolved
<1>2. CASE Agent
  <2>1. ASSUME NEW f \in FaultId, CreateFault(f)
        PROVE  ResolvedMeansCleared'
    <3>1. status[f] = "detected"
      BY <2>1 DEF CreateFault, RecordsInv, NewFaultsAreDetected
    <3> QED
      BY <2>1, <3>1, NothingResolvedSafe DEF CreateFault, ResolvedInv, NothingResolved
  <2>2. ASSUME NEW f \in FaultId, NEW st \in PatchStatus, PatchFault(f, st)
        PROVE  ResolvedMeansCleared'
    <3>1. CASE st = "resolved"
      BY <3>1 DEF ResolvedMeansCleared
    <3>2. CASE st # "resolved"
      BY <1>0, <2>2, <3>2, NothingResolvedSafe DEF PatchFault, StoreStatus, ResolvedInv, NothingResolved
    <3> QED
      BY <3>1, <3>2
  <2>3. ResolvedMeansCleared'
    BY <1>1, <1>2, <2>1, <2>2 DEF Agent, FetchLogs, ResolvedInv
  <2> QED
    BY <2>3, TasksAndCallsResolved DEF ResolvedInv
<1>3. ResolvedMeansCleared'
  <2>1. ASSUME NEW f \in FaultId, Deny(f)
        PROVE  ResolvedMeansCleared'
    BY <1>0, <2>1, NothingResolvedSafe DEF Deny, StoreStatus, ResolvedInv, NothingResolved
  <2>2. ASSUME NEW d \in Decision, SetRemediating(d)
        PROVE  ResolvedMeansCleared'
    BY <1>0, <2>2, NothingResolvedSafe DEF SetRemediating, StoreStatus, ResolvedInv, NothingResolved
  <2>3. ASSUME NEW d \in Decision, Serve(d) \/ ExecuteLost(d)
        PROVE  ResolvedMeansCleared'
    BY <1>1, <2>2, <2>3, SetResolvedResolved DEF Serve, FetchAllowlist, RegisterFault, MintToken,
       RejectDecision, StartExecutor, SendExecute, ExecuteReturns, ExecuteLost, ResolvedInv
  <2>4. CASE ResetStore \/ GatewayRestart
    BY <2>4 DEF ResetStore, GatewayRestart, EmptyStore, ResolvedMeansCleared
  <2>5. ASSUME NEW c \in Call, McpTools(c) \/ SimulatorClear(c)
        PROVE  ResolvedMeansCleared'
    BY <1>1, <2>5 DEF McpTools, CheckCall, ClearConfirmed, ClearFailed, SimulatorClear, ResolvedInv
  <2>6. CASE (\E d \in Decision, f \in FaultId : Approve(d, f)) \/ (\E c \in Caller : Client(c))
             \/ McpRestart \/ UNCHANGED vars
    BY <1>1, <2>6 DEF Approve, Client, GetToken, CallerExecute, McpRestart, vars, ResolvedInv
  <2>7. CASE Presenter
    BY <1>1, <2>4, <2>7 DEF Presenter, RunScenario, ResetLab, ClearActive, Inject,
       OrchestratorFails, OrchestratorIdle, ResetMcp, ResolvedInv
  <2> QED
    BY <1>2, <2>1, <2>3, <2>4, <2>5, <2>6, <2>7 DEF Next, Operator, ResolvedInv
<1> QED
  BY <1>3, TasksAndCallsResolved DEF ResolvedInv

-----------------------------------------------------------------------------
\* An asset's fault link names a stored, unresolved fault of that asset,
\* through late executors, releases and resets (GatewayStore).
THEOREM LinksNameOpenFaults == Spec => []LinkNamesOpenFault
<1>1. Init => RecordsInv
  BY DEF Init, RecordsInv, NewFaultsAreDetected, LinkNamesOpenFault
<1>2. RecordsInv => LinkNamesOpenFault
  BY DEF RecordsInv
<1> QED
  BY <1>1, <1>2, RecordsStep, InvHolds, PTL DEF Spec

\* A clear only ever runs steps that one approval of its fault worked with and
\* that one scenario of its asset lists, from post_decision's allowlist through
\* the registry to remediation_execute, whatever a client sends.
THEOREM StepsAreOfOneScenario == Spec => []StepsFitAsset
<1>1. Init => StepsInv
  BY DEF Init, StepsInv, ActiveOnTarget, TasksFit, RegistryFits, CallsFit, HealsFit
<1>2. StepsInv => StepsFitAsset
  BY DEF StepsInv, HealsFit, PutUp, Fit, StepsFitAsset
<1> QED
  BY <1>1, <1>2, StepsStep, InvHolds, PTL DEF Spec

\* A stored fault that is shown resolved had a clear under an approval of
\* it, if the agent cannot set that status itself (RemediationExecutor).
THEOREM ResolvedHasClear == Spec => []ResolvedMeansCleared
<1>1. Init => RecordsInv /\ ResolvedInv
  BY DEF Init, RecordsInv, NewFaultsAreDetected, LinkNamesOpenFault, ResolvedInv, CallsServeTasks,
     VerifyingWasCleared, ResolvedMeansCleared, Call
<1>2. ResolvedInv => ResolvedMeansCleared
  BY DEF ResolvedInv
<1> QED
  BY <1>1, <1>2, RecordsStep, ResolvedStep, InvHolds, PTL DEF Spec

-----------------------------------------------------------------------------
(* The gate implements ApprovalGrant: every step grants, admits, repairs,  *)
(* spends or revokes as ApprovalGrant allows, or leaves its variables      *)
(* alone.                                                                  *)

AbstractStep == Grants!Next \/ UNCHANGED <<GrantOf, SubjectOf, UsingOf, RepairedOf>>

\* What an approval is for does not change while scenarios of other faults do.
LEMMA SubjectsStay ==
  ASSUME Inv, UNCHANGED token,
         \A f \in FaultId : about[f] # None => about'[f] = about[f]
  PROVE  UNCHANGED <<GrantOf, SubjectOf>>
<1>1. \A d \in Decision : token[d].state # "none" =>
        token[d].fault \in FaultId /\ about[token[d].fault] # None
  BY DEF Inv, ChainOfApproval, TokensComeFromTasks, TasksKnowTheirFault
<1>2. \A d \in Decision : token[d].state # "none" =>
        AssetOf(token[d].fault)' = AssetOf(token[d].fault)
  BY <1>1 DEF AssetOf
<1> QED
  BY <1>2 DEF GrantOf, SubjectOf

LEMMA UsingStays ==
  ASSUME \A c \in Call : call'[c].asset = call[c].asset,
         \A c \in Call : call[c].asset # None => call'[c].token = call[c].token
  PROVE  UNCHANGED UsingOf
BY DEF UsingOf

LEMMA MintGrants ==
  ASSUME Inv, NEW d \in Decision, MintToken(d)
  PROVE  AbstractStep
<1>1. /\ task[d].fault \in FaultId /\ about[task[d].fault] \in Scenario
      /\ token[d].state = "none"
  BY DEF MintToken, TaskStep, Inv, TypeOK, ChainOfApproval, TasksKnowTheirFault,
         TokensComeFromTasks, BeforeMint
<1> DEFINE a == AssetOf(task[d].fault)
<1>2. a \in Asset
  BY <1>1, ConstantsOK DEF AssetOf
<1>3. /\ token' = [token EXCEPT ![d] = [state |-> "live", fault |-> task[d].fault]]
      /\ UNCHANGED <<about, call, healed>>
  BY DEF MintToken, gatewayVars
<1>4. token \in [Decision -> Token]
  BY DEF Inv, TypeOK
<1>5. GrantOf[d] = "none"
  BY <1>1 DEF GrantOf
<1>6. GrantOf' = [GrantOf EXCEPT ![d] = "live"]
  BY <1>3, <1>4 DEF GrantOf
<1>7. SubjectOf' = [SubjectOf EXCEPT ![d] = a]
  BY <1>3, <1>4 DEF SubjectOf, AssetOf
<1>8. UNCHANGED <<UsingOf, RepairedOf>>
  BY <1>3 DEF UsingOf, RepairedOf
<1> HIDE DEF a
<1> QED
  BY <1>2, <1>5, <1>6, <1>7, <1>8 DEF AbstractStep, Grants!Next, Grants!Grant

LEMMA CheckAdmits ==
  ASSUME Inv, NEW c \in Call, CheckCall(c)
  PROVE  AbstractStep
<1>1. UNCHANGED <<token, about, healed>>
  BY DEF CheckCall, gatewayVars
<1>2. UNCHANGED <<GrantOf, SubjectOf, RepairedOf>>
  BY <1>1, SubjectsStay DEF RepairedOf
<1>3. /\ call[c].token \in Decision /\ call[c].fault \in FaultId
      /\ call[c].asset = None
  BY DEF CheckCall, Inv, ChainOfApproval, CallsHoldTokens
<1>4. CASE /\ Permitted(c)
           /\ call' = [call EXCEPT ![c].pc = "clearing",
                                   ![c].asset = registry[call[c].fault].asset]
  <2> DEFINE a == registry[call[c].fault].asset
  <2>1. a \in Asset /\ a # None
    BY <1>3, <1>4, ConstantsOK DEF Permitted, Inv, TypeOK, Registration
  <2>2. CallMoved(c, "clearing", a)
    BY <1>4, <2>1, CallAdmitUpdate DEF Inv
  <2> HIDE DEF a
  <2>3. GrantOf[call[c].token] = "live"
    BY <1>3, <1>4 DEF Permitted, GrantOf
  <2>4. UsingOf[c] = None
    BY <1>3 DEF UsingOf
  <2>5. UsingOf' = [UsingOf EXCEPT ![c] = call[c].token]
    BY <2>1, <2>2 DEF CallMoved, UsingOf
  <2> QED
    BY <1>2, <1>3, <2>3, <2>4, <2>5 DEF AbstractStep, Grants!Next, Grants!Admit
<1>5. CASE call' = [call EXCEPT ![c].pc = "refused"]
  <2>1. CallMoved(c, "refused", call[c].asset)
    BY <1>5, CallPcUpdate DEF CallPc, Inv
  <2>2. UNCHANGED UsingOf
    BY <2>1, UsingStays DEF CallMoved
  <2> QED
    BY <1>2, <2>2 DEF AbstractStep
<1> QED
  BY <1>4, <1>5 DEF CheckCall

LEMMA ClearRepairs ==
  ASSUME Inv, NEW c \in Call, SimulatorClear(c)
  PROVE  AbstractStep
<1>1. UNCHANGED <<token, about, call>>
  BY DEF SimulatorClear, gatewayVars
<1>2. UNCHANGED <<GrantOf, SubjectOf, UsingOf>>
  BY <1>1, SubjectsStay, UsingStays
<1>3. /\ call[c].asset # None
      /\ call[c].token \in Decision
      /\ call[c].asset = AssetOf(call[c].fault)
      /\ token[call[c].token].state # "none"
      /\ token[call[c].token].fault = call[c].fault
  BY DEF SimulatorClear, Inv, ChainOfApproval, InflightWereAdmitted, AdmittedCallsAreBound
<1>4. UsingOf[c] = call[c].token /\ SubjectOf[call[c].token] = call[c].asset
  BY <1>3 DEF UsingOf, SubjectOf
<1>5. UsingOf[c] # None
  BY <1>3, <1>4, ConstantsOK
<1>6. RepairedOf' = RepairedOf \cup {<<c, call[c].asset>>}
  <2> DEFINE new == [call |-> c, token |-> call[c].token, fault |-> call[c].fault,
                     asset |-> call[c].asset, steps |-> call[c].steps]
  <2>1. healed' = healed \cup {new}
    BY DEF SimulatorClear
  <2>2. new.call = c /\ new.asset = call[c].asset
    OBVIOUS
  <2> HIDE DEF new
  <2> QED
    BY <2>1, <2>2 DEF RepairedOf
<1> QED
  BY <1>2, <1>4, <1>5, <1>6 DEF AbstractStep, Grants!Next, Grants!Repair

LEMMA ConsumedState ==
  ASSUME TypeOK, NEW t \in Decision, ConsumeToken(t)
  PROVE  \A d \in Decision :
           /\ token'[d].fault = token[d].fault
           /\ token'[d].state = IF d = t /\ token[d].state = "live"
                                THEN "consumed" ELSE token[d].state
<1>1. token \in [Decision -> Token]
  BY DEF TypeOK
<1> QED
  BY <1>1 DEF ConsumeToken, Token

LEMMA ConfirmSpends ==
  ASSUME Inv, NEW c \in Call, ClearConfirmed(c)
  PROVE  AbstractStep
<1> DEFINE t == call[c].token
<1>1. PICK h \in healed : h.call = c
  BY DEF ClearConfirmed, Inv, ChainOfApproval, HealsMatchCalls
<1>2. /\ call[c].asset # None /\ h.asset = call[c].asset
      /\ t \in Decision
      /\ call[c].asset = AssetOf(call[c].fault)
      /\ token[t].state # "none"
      /\ token[t].fault = call[c].fault
  BY <1>1 DEF Inv, ChainOfApproval, HealsMatchCalls, AdmittedCallsAreBound
<1>3. /\ call' = [call EXCEPT ![c].pc = "resolved"]
      /\ UNCHANGED <<about, healed>>
  BY DEF ClearConfirmed, gatewayVars
<1>5. CallMoved(c, "resolved", call[c].asset)
  BY <1>3, CallPcUpdate DEF CallPc, Inv
<1>6. UNCHANGED <<UsingOf, RepairedOf>>
  BY <1>3, <1>5, UsingStays DEF CallMoved, RepairedOf
<1>7. UsingOf[c] = t /\ SubjectOf[t] = call[c].asset
  BY <1>2 DEF UsingOf, SubjectOf
<1>8. <<c, SubjectOf[t]>> \in RepairedOf
  BY <1>1, <1>2, <1>7 DEF RepairedOf
<1>9. \A d \in Decision :
        /\ token'[d].fault = token[d].fault
        /\ token'[d].state = IF d = t /\ token[d].state = "live"
                             THEN "consumed" ELSE token[d].state
  BY <1>2, ConsumedState DEF ClearConfirmed, Inv
<1>10. UNCHANGED SubjectOf
  BY <1>3, <1>9 DEF SubjectOf, AssetOf
<1>11. CASE token[t].state = "live"
  <2>1. GrantOf[t] = "live"
    BY <1>2, <1>11 DEF GrantOf
  <2>2. GrantOf' = [GrantOf EXCEPT ![t] = "spent"]
    BY <1>2, <1>9, <1>11 DEF GrantOf
  <2> HIDE DEF t
  <2> QED
    BY <1>2, <1>6, <1>7, <1>8, <1>10, <2>1, <2>2
       DEF AbstractStep, Grants!Next, Grants!Spend
<1>12. CASE token[t].state # "live"
  <2>1. UNCHANGED GrantOf
    BY <1>9, <1>12 DEF GrantOf
  <2> QED
    BY <1>6, <1>10, <2>1 DEF AbstractStep
<1> QED
  BY <1>11, <1>12

LEMMA WipeRevokes ==
  ASSUME Inv, WipeMcp, UNCHANGED <<about, healed>>,
         \A c \in Call : call'[c].asset = call[c].asset,
         \A c \in Call : call'[c].token = call[c].token
  PROVE  AbstractStep
<1>1. UNCHANGED <<UsingOf, RepairedOf>>
  BY UsingStays DEF RepairedOf
<1>2. token \in [Decision -> Token]
  BY DEF Inv, TypeOK
<1>3. \A d \in Decision :
        /\ token'[d].fault = token[d].fault
        /\ token'[d].state = IF token[d].state = "none" THEN "none" ELSE "wiped"
  BY <1>2 DEF WipeMcp, Token
<1>4. UNCHANGED SubjectOf
  BY <1>3 DEF SubjectOf, AssetOf
<1>5. \A d \in Decision : GrantOf[d] = "none" <=> token[d].state = "none"
  BY <1>2 DEF GrantOf, Token
<1>6. GrantOf' = [d \in Decision |-> IF GrantOf[d] = "none" THEN "none" ELSE "revoked"]
  BY <1>3, <1>5 DEF GrantOf
<1> QED
  BY <1>1, <1>4, <1>6 DEF AbstractStep, Grants!Next, Grants!Revoke

\* The steps of agent, operator, Gateway, clients and presenter that no
\* grant depends on.
Frame ==
  /\ UNCHANGED <<token, healed>>
  /\ \A f \in FaultId : about[f] # None => about'[f] = about[f]
  /\ \A c \in Call : call'[c].asset = call[c].asset
  /\ \A c \in Call : call[c].asset # None => call'[c].token = call[c].token

LEMMA FrameStutters ==
  ASSUME Inv, Frame
  PROVE  AbstractStep
BY SubjectsStay, UsingStays DEF Frame, AbstractStep, RepairedOf

LEMMA SendIsFrame ==
  ASSUME Inv, NEW c \in Call, NEW f \in FaultId, NEW t \in Decision,
         NEW S \in SUBSET Step, Send(c, f, t, S), call[c].asset = None,
         UNCHANGED <<token, healed, about>>
  PROVE  Frame
<1>1. CallSent(c, f, t)
  BY SendUpdate DEF Inv
<1> QED
  BY <1>1 DEF CallSent, Frame

-----------------------------------------------------------------------------
LEMMA GatewayMaps ==
  ASSUME Inv, NEW d \in Decision, Serve(d) \/ ExecuteLost(d)
  PROVE  AbstractStep
<1>1. CASE MintToken(d)
  BY <1>1, MintGrants
<1>2. CASE SendExecute(d)
  <2>1. /\ task[d].fault \in FaultId /\ task[d].steps \in SUBSET Step
        /\ call[d].asset = None /\ d \in Call
    BY <1>2 DEF SendExecute, TaskStep, Inv, TypeOK, Task, ChainOfApproval,
       TasksKnowTheirFault, TokensComeFromTasks, CallsHoldTokens, BeforeCall, Call
  <2> QED
    BY <1>2, <2>1, SendIsFrame, FrameStutters DEF SendExecute, gatewayVars
<1>3. CASE \/ FetchAllowlist(d) \/ RegisterFault(d) \/ RejectDecision(d)
           \/ StartExecutor(d) \/ SetRemediating(d) \/ ExecuteReturns(d)
           \/ ExecuteLost(d) \/ SetResolved(d)
  <2>1. UNCHANGED <<token, healed, about, call>>
    BY <1>3 DEF FetchAllowlist, RegisterFault, RejectDecision, StartExecutor,
       SetRemediating, ExecuteReturns, ExecuteLost, SetResolved, gatewayVars, mcpVars
  <2> QED
    BY <2>1, FrameStutters DEF Frame
<1> QED
  BY <1>1, <1>2, <1>3 DEF Serve

LEMMA ClientMaps ==
  ASSUME Inv, NEW c \in Caller, Client(c)
  PROVE  AbstractStep
<1>1. c \in Call
  BY DEF Call
<1>2. ASSUME NEW f \in FaultId, GetToken(c, f)
      PROVE  AbstractStep
  <2>1. /\ pending[f] \in Decision
        /\ call[c].asset = None
    BY <1>1, <1>2 DEF GetToken, Inv, TypeOK, ChainOfApproval, CallsHoldTokens
  <2>2. CallHolds(c, pending[f])
    BY <1>1, <1>2, <2>1, HoldUpdate DEF GetToken, Inv
  <2> QED
    BY <1>2, <2>1, <2>2, FrameStutters DEF GetToken, CallHolds, Frame, gatewayVars
<1>3. ASSUME NEW f \in FaultId, NEW S \in SUBSET Step, CallerExecute(c, f, S)
      PROVE  AbstractStep
  <2>1. call[c].token \in Decision /\ call[c].asset = None
    BY <1>1, <1>3 DEF CallerExecute, Inv, ChainOfApproval, CallsHoldTokens
  <2> QED
    BY <1>1, <1>3, <2>1, SendIsFrame, FrameStutters DEF CallerExecute, gatewayVars
<1> QED
  BY <1>2, <1>3 DEF Client

LEMMA PresenterMaps ==
  ASSUME Inv, Presenter
  PROVE  AbstractStep
<1>1. CASE ResetMcp
  <2>1. UNCHANGED <<about, healed, call>>
    BY <1>1 DEF ResetMcp, gatewayVars
  <2>2. CASE WipeMcp
    BY <2>1, <2>2, WipeRevokes
  <2>3. CASE UNCHANGED token
    BY <2>1, <2>3, FrameStutters DEF Frame
  <2> QED
    BY <1>1, <2>2, <2>3 DEF ResetMcp
<1>2. CASE ~ResetMcp
  <2>1. UNCHANGED <<token, healed, about, call>>
    BY <1>2 DEF Presenter, RunScenario, ResetLab, ClearActive, Inject,
       OrchestratorFails, OrchestratorIdle, ResetStore, EmptyStore,
       gatewayVars, mcpVars
  <2> QED
    BY <2>1, FrameStutters DEF Frame
<1> QED
  BY <1>1, <1>2

LEMMA StepMaps ==
  ASSUME Inv, [Next]_vars
  PROVE  AbstractStep
<1>1. CASE Agent \/ Operator \/ GatewayRestart \/ UNCHANGED vars
  <2>1. /\ UNCHANGED <<token, healed, call>>
        /\ \A f \in FaultId : about[f] # None => about'[f] = about[f]
    BY <1>1 DEF Agent, FetchLogs, CreateFault, PatchFault, Operator, Deny, Approve,
       GatewayRestart, EmptyStore, vars, gatewayVars, mcpVars, Inv, TypeOK
  <2> QED
    BY <2>1, FrameStutters DEF Frame
<1>2. ASSUME NEW c \in Call, ClearFailed(c)
      PROVE  AbstractStep
  <2>1. CallMoved(c, "refused", call[c].asset)
    BY <1>2, CallPcUpdate DEF ClearFailed, CallPc, Inv
  <2> QED
    BY <1>2, <2>1, FrameStutters DEF ClearFailed, CallMoved, Frame, gatewayVars
<1>3. CASE McpRestart
  <2>1. \A c \in Call : /\ call'[c].asset = call[c].asset
                        /\ call'[c].token = call[c].token
    BY <1>3 DEF McpRestart, Inv, TypeOK, Invocation
  <2> QED
    BY <1>3, <2>1, WipeRevokes DEF McpRestart, gatewayVars
<1> QED
  BY <1>1, <1>2, <1>3, GatewayMaps, ClientMaps, PresenterMaps, CheckAdmits,
     ClearRepairs, ConfirmSpends DEF Next, McpTools

LEMMA InitMaps ==
  ASSUME Init
  PROVE  Grants!Init
BY DEF Init, Grants!Init, GrantOf, SubjectOf, UsingOf, RepairedOf

\* The whole gate, whatever is lost, reset or restarted and whoever else
\* holds tokens, implements the abstract promise of ApprovalGrant.
THEOREM GateImplementsGrants == Spec => ImplementsGrants
<1>1. Init => Grants!Init
  BY InitMaps
<1>2. Inv /\ [Next]_vars => [Grants!Next]_(Grants!vars)
  BY StepMaps DEF AbstractStep, Grants!vars
<1> QED
  BY <1>1, <1>2, InvHolds, PTL DEF Spec, ImplementsGrants, Grants!Spec

Promise == INSTANCE ApprovalGrantProofs WITH
  grant <- GrantOf, subject <- SubjectOf, using <- UsingOf, repaired <- RepairedOf

\* Every clear the Simulator has performed is covered by the token it was
\* admitted under, minted for that very asset, through resets, restarts and
\* clients that hold other tokens: the gate keeps the promise of ApprovalGrant.
THEOREM GateKeepsPromise == Spec => []Grants!RepairsAreGranted
<1>1. Init => Promise!Inv
  BY InitMaps, Promise!InitSafe DEF Grants!Init, Promise!Init
<1>2. Inv /\ Promise!Inv /\ [Next]_vars => Promise!Inv'
  <2> SUFFICES ASSUME Inv, Promise!Inv, [Next]_vars
               PROVE  Promise!Inv'
    OBVIOUS
  <2>1. [Promise!Next]_(Promise!vars)
    BY StepMaps DEF AbstractStep, Promise!vars, Grants!Next, Promise!Next, Grants!Grant, Promise!Grant,
       Grants!Admit, Promise!Admit, Grants!Repair, Promise!Repair, Grants!Spend, Promise!Spend,
       Grants!Revoke, Promise!Revoke
  <2> QED
    BY <2>1, Promise!StepSafe
<1>3. Promise!Inv => Grants!RepairsAreGranted
  BY DEF Promise!Inv, Promise!RepairsAreGranted, Grants!RepairsAreGranted
<1> QED
  BY <1>1, <1>2, <1>3, InvHolds, PTL DEF Spec
=============================================================================
