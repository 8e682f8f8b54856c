--------------------------- MODULE RemediationGate ---------------------------
(***************************************************************************)
(* The human approval gate of the lab, end to end.  The Gateway keeps the  *)
(* faults and the operator's decisions, MCP Tools keeps approval tokens    *)
(* and the registry of allowed steps and runs remediation.execute, the     *)
(* Simulator holds the injected faults and the Orchestrator the scenario   *)
(* it believes active on each asset.  Every await of post_decision, of the *)
(* background executor and of remediation_execute is a point where the     *)
(* other processes may step; code between two awaits is one action.        *)
(*                                                                         *)
(* The Gateway's store is the in-memory GatewayStore, whose methods never  *)
(* suspend.  Simplifications that hold here: the presenter's console sends *)
(* one request at a time, and a fault is registered for the asset and the  *)
(* scenario that one log bundle named.                                     *)
(***************************************************************************)

CONSTANTS
  Asset,        \* assets of the content pack
  Scenario,     \* scenarios of the content pack
  Step,         \* remediation step ids
  Target,       \* Target[s]: the asset scenario s is injected on
  StepsOf,      \* StepsOf[s]: the remediation steps scenario s lists
  FaultId,      \* ids of fault events; an id is never issued twice
  Decision,     \* approvals posted by an operator, each naming one token
  Caller,       \* trusted clients that fetch a token and execute themselves
  PatchStatus,  \* statuses sent to PATCH /api/faults/{id}/status
  None

Status == {"detected", "diagnosing", "awaiting_approval", "remediating",
           "resolved", "denied"}

Call == Decision \cup Caller   \* invocations of remediation.execute

ASSUME ConstantsOK ==
  /\ Target \in [Scenario -> Asset]
  /\ StepsOf \in [Scenario -> SUBSET Step]
  /\ Decision \cap Caller = {}
  /\ PatchStatus \subseteq Status
  /\ None \notin Asset \cup Scenario \cup FaultId \cup Decision

VARIABLES
  stored,     \* Gateway: keys of _fault_events
  status,     \* Gateway: lifecycle status of each fault
  about,      \* scenario a fault was registered with; None: id not issued
  link,       \* Gateway: active_fault_event_id; the record is faulted iff set
  pending,    \* Gateway: _pending_tokens
  task,       \* Gateway: post_decision's approved path and its executor task
  token,      \* MCP Tools: ApprovalTokenStore
  registry,   \* MCP Tools: FaultEventRegistry; asset None: not registered
  call,       \* MCP Tools: invocations of remediation.execute
  inflight,   \* clear requests of calls still on their way to the Simulator
  sim,        \* Simulator: scenario injected on each asset, or None
  active,     \* Orchestrator: active_scenarios
  presenter,  \* the presenter's request in progress
  seen,       \* scenario of the log bundle the agent holds, unregistered yet
  healed      \* history: the clears that remediation calls performed

gatewayVars == <<stored, status, about, link, pending>>
mcpVars == <<token, registry, call, inflight, healed>>
worldVars == <<sim, active, presenter, seen>>
vars == <<gatewayVars, task, mcpVars, worldVars>>

AssetOf(f) == Target[about[f]]

TaskPc == {"idle", "scenario", "register", "mint", "minted", "started",
           "narrating", "executing", "unanswered", "verifying", "done",
           "failed", "rejected"}

CallPc == {"idle", "holding", "sent", "clearing", "resolved", "refused"}

Task == [pc: TaskPc, fault: FaultId \cup {None}, steps: SUBSET Step]

Token == [state: {"none", "live", "consumed", "wiped"},
          fault: FaultId \cup {None}]

Registration == [asset: Asset \cup {None}, steps: SUBSET Step]

Invocation == [pc: CallPc, fault: FaultId \cup {None},
               token: Decision \cup {None}, steps: SUBSET Step,
               asset: Asset \cup {None}, late: BOOLEAN]

Heal == [call: Call, token: Decision, fault: FaultId, asset: Asset,
         steps: SUBSET Step]

TypeOK ==
  /\ stored \subseteq FaultId
  /\ status \in [FaultId -> Status]
  /\ about \in [FaultId -> Scenario \cup {None}]
  /\ link \in [Asset -> FaultId \cup {None}]
  /\ pending \in [FaultId -> Decision \cup {None}]
  /\ task \in [Decision -> Task]
  /\ token \in [Decision -> Token]
  /\ registry \in [FaultId -> Registration]
  /\ call \in [Call -> Invocation]
  /\ inflight \subseteq Call
  /\ sim \in [Asset -> Scenario \cup {None}]
  /\ active \in [Asset -> Scenario \cup {None}]
  /\ presenter \in [op: {"idle", "run", "reset", "wipe", "purge"},
                    scenario: Scenario \cup {None}]
  /\ seen \in Scenario \cup {None}
  /\ healed \subseteq Heal

Init ==
  /\ stored = {}
  /\ status = [f \in FaultId |-> "detected"]
  /\ about = [f \in FaultId |-> None]
  /\ link = [a \in Asset |-> None]
  /\ pending = [f \in FaultId |-> None]
  /\ task = [d \in Decision |-> [pc |-> "idle", fault |-> None, steps |-> {}]]
  /\ token = [d \in Decision |-> [state |-> "none", fault |-> None]]
  /\ registry = [f \in FaultId |-> [asset |-> None, steps |-> {}]]
  /\ call = [c \in Call |-> [pc |-> "idle", fault |-> None, token |-> None,
                             steps |-> {}, asset |-> None, late |-> FALSE]]
  /\ inflight = {}
  /\ sim = [a \in Asset |-> None]
  /\ active = [a \in Asset |-> None]
  /\ presenter = [op |-> "idle", scenario |-> None]
  /\ seen = None
  /\ healed = {}

-----------------------------------------------------------------------------
(* The agent, and the fault lifecycle the Gateway exposes to it.           *)

\* logs.get_bundle answers with the Orchestrator's active scenario.
FetchLogs(a) ==
  /\ active[a] # None
  /\ seen' = active[a]
  /\ UNCHANGED <<gatewayVars, task, mcpVars, sim, active, presenter>>

\* POST /api/faults: new event, asset faulted and linked to it.
CreateFault(f) ==
  /\ seen # None
  /\ about[f] = None
  /\ about' = [about EXCEPT ![f] = seen]
  /\ stored' = stored \cup {f}
  /\ link' = [link EXCEPT ![Target[seen]] = f]
  /\ seen' = None
  /\ UNCHANGED <<status, pending, task, mcpVars, sim, active, presenter>>

\* A fault's status as the store keeps it: a status for an event that a
\* reset removed is dropped (update_fault_status returns None).
StoreStatus(f, st) ==
  status' = [status EXCEPT ![f] = IF f \in stored THEN st ELSE @]

\* The asset record after f got status st: resolved makes it healthy,
\* whichever fault the record is linked to.
ReleaseAsset(f, st) ==
  link' = IF f \in stored /\ st = "resolved"
          THEN [link EXCEPT ![AssetOf(f)] = None] ELSE link

\* PATCH /api/faults/{id}/status: no transition is refused.
PatchFault(f, st) ==
  /\ f \in stored
  /\ st \in PatchStatus
  /\ StoreStatus(f, st)
  /\ ReleaseAsset(f, st)
  /\ UNCHANGED <<stored, about, pending, task, mcpVars, worldVars>>

-----------------------------------------------------------------------------
(* The operator's decision, and the Gateway's work after an approval.      *)

Deny(f) ==
  /\ f \in stored
  /\ StoreStatus(f, "denied")
  /\ UNCHANGED <<stored, about, link, pending, task, mcpVars, worldVars>>

TaskStep(d, from, to) ==
  /\ task[d].pc = from
  /\ task' = [task EXCEPT ![d].pc = to]

\* Mutant of Approve: the decision works with the fault's scenario, not the fault.
ApproveScenario(d, f) ==
  /\ task[d].pc = "idle"
  /\ f \in stored
  /\ task' = [task EXCEPT ![d] = [pc |-> "scenario", fault |-> about[f], steps |-> {}]]
  /\ UNCHANGED <<gatewayVars, mcpVars, worldVars>>

Approve(d, f) ==
  /\ task[d].pc = "idle"
  /\ f \in stored
  /\ task' = [task EXCEPT ![d] = [pc |-> "scenario", fault |-> f, steps |-> {}]]
  /\ UNCHANGED <<gatewayVars, mcpVars, worldVars>>

\* The allowlist an approval of f works with: the steps of the scenario now
\* active on the asset; empty when none is, or when the request fails.
Allowlists(f) ==
  LET s == active[AssetOf(f)] IN
  {{}} \cup (IF s = None THEN {} ELSE {StepsOf[s]})

FetchAllowlist(d) ==
  /\ task[d].pc = "scenario"
  /\ \E S \in Allowlists(task[d].fault) :
       task' = [task EXCEPT ![d].pc = "register", ![d].steps = S]
  /\ UNCHANGED <<gatewayVars, mcpVars, worldVars>>

\* Mutant of RegisterFault: it registers an asset that is linked to some fault
\* instead of the asset of its own fault.
RegisterLinkedAsset(d) ==
  /\ TaskStep(d, "register", "mint")
  /\ \E a \in Asset :
       /\ link[a] # None
       /\ registry' = [registry EXCEPT ![task[d].fault] =
                         [asset |-> a, steps |-> task[d].steps]]
  /\ UNCHANGED <<gatewayVars, token, call, inflight, healed, worldVars>>

\* POST /internal/fault-events: the newest registration of a fault wins.  An
\* error status in the answer is not looked at.
RegisterFault(d) ==
  /\ TaskStep(d, "register", "mint")
  /\ \/ registry' = [registry EXCEPT ![task[d].fault] =
                       [asset |-> AssetOf(task[d].fault), steps |-> task[d].steps]]
     \/ UNCHANGED registry
  /\ UNCHANGED <<gatewayVars, token, call, inflight, healed, worldVars>>

\* POST /internal/tokens: the approval d becomes a live token.
MintToken(d) ==
  /\ TaskStep(d, "mint", "minted")
  /\ token' = [token EXCEPT ![d] = [state |-> "live", fault |-> task[d].fault]]
  /\ UNCHANGED <<gatewayVars, registry, call, inflight, healed, worldVars>>

\* MCP Tools unreachable, or its answer lost: the operator gets a 502.
RejectDecision(d) ==
  /\ task[d].pc \in {"register", "mint", "minted"}
  /\ task' = [task EXCEPT ![d].pc = "rejected"]
  /\ UNCHANGED <<gatewayVars, mcpVars, worldVars>>

StartExecutor(d) ==
  /\ TaskStep(d, "minted", "started")
  /\ pending' = [pending EXCEPT ![task[d].fault] = d]
  /\ UNCHANGED <<stored, status, about, link, mcpVars, worldVars>>

SetRemediating(d) ==
  /\ TaskStep(d, "started", "narrating")
  /\ StoreStatus(task[d].fault, "remediating")
  /\ UNCHANGED <<stored, about, link, pending, mcpVars, worldVars>>

Send(c, f, t, S) ==
  call' = [call EXCEPT ![c] =
             [pc |-> "sent", fault |-> f, token |-> t, steps |-> S,
              asset |-> None, late |-> token[t].state # "live"]]

SendExecute(d) ==
  /\ TaskStep(d, "narrating", "executing")
  /\ Send(d, task[d].fault, d, task[d].steps)
  /\ UNCHANGED <<gatewayVars, token, registry, inflight, healed, worldVars>>

\* Mutant of ExecuteReturns: the status in the answer is not looked at.
ExecuteIgnoresRefusal(d) ==
  /\ call[d].pc \in {"resolved", "refused"}
  /\ TaskStep(d, "executing", "verifying")
  /\ UNCHANGED <<gatewayVars, mcpVars, worldVars>>

\* Mutant of ExecuteReturns: a refused call is tried again.
ExecuteRetries(d) ==
  /\ \/ call[d].pc = "resolved" /\ TaskStep(d, "executing", "verifying")
     \/ call[d].pc = "refused" /\ TaskStep(d, "executing", "started")
  /\ UNCHANGED <<gatewayVars, mcpVars, worldVars>>

ExecuteReturns(d) ==
  /\ \/ call[d].pc = "resolved" /\ TaskStep(d, "executing", "verifying")
     \/ call[d].pc = "refused" /\ TaskStep(d, "executing", "failed")
  /\ UNCHANGED <<gatewayVars, mcpVars, worldVars>>

\* The connection to MCP Tools breaks, whatever became of the call; the fault
\* keeps the status it has.  The session raises, or it has not noticed yet and
\* may never: ClientSession and call_tool are given no read timeout.
ExecuteLost(d) ==
  /\ \/ TaskStep(d, "executing", "failed")
     \/ TaskStep(d, "executing", "unanswered")
     \/ TaskStep(d, "unanswered", "failed")
  /\ UNCHANGED <<gatewayVars, mcpVars, worldVars>>

\* Mutant of SetResolved: the asset record is left as it is.
SetResolvedOnly(d) ==
  /\ TaskStep(d, "verifying", "done")
  /\ StoreStatus(task[d].fault, "resolved")
  /\ UNCHANGED <<stored, about, link, pending, mcpVars, worldVars>>

SetResolved(d) ==
  /\ TaskStep(d, "verifying", "done")
  /\ StoreStatus(task[d].fault, "resolved")
  /\ ReleaseAsset(task[d].fault, "resolved")
  /\ UNCHANGED <<stored, about, pending, mcpVars, worldVars>>

-----------------------------------------------------------------------------
(* remediation.execute in MCP Tools, and trusted clients that call it with *)
(* the token they fetched from GET /api/faults/{id}/token.                 *)

GetToken(c, f) ==
  /\ call[c].pc = "idle"
  /\ f \in stored
  /\ pending[f] # None
  /\ call' = [call EXCEPT ![c].pc = "holding", ![c].token = pending[f]]
  /\ UNCHANGED <<gatewayVars, task, token, registry, inflight, healed, worldVars>>

CallerExecute(c, f, S) ==
  /\ call[c].pc = "holding"
  /\ Send(c, f, call[c].token, S)
  /\ UNCHANGED <<gatewayVars, task, token, registry, inflight, healed, worldVars>>

\* Mutant of Permitted: SEC-03 is gone, a consumed token is accepted.
PermittedTwice(c) ==
  LET t == token[call[c].token]
      r == registry[call[c].fault]
  IN /\ t.state \in {"live", "consumed"}
     /\ t.fault = call[c].fault
     /\ r.asset # None
     /\ call[c].steps \subseteq r.steps

\* Mutant of Permitted: a fault that is not registered is let through.
PermittedUnregistered(c) ==
  LET t == token[call[c].token]
      r == registry[call[c].fault]
  IN /\ t.state = "live"
     /\ t.fault = call[c].fault
     /\ call[c].steps \subseteq r.steps

\* Mutant of Permitted: SEC-05 is gone, any steps are let through.
PermittedAnySteps(c) ==
  LET t == token[call[c].token]
      r == registry[call[c].fault]
  IN /\ t.state = "live"
     /\ t.fault = call[c].fault
     /\ r.asset # None

\* SEC-02 .. SEC-05: a stored, unconsumed token bound to this fault, and
\* steps within the allowlist registered for it.
Permitted(c) ==
  LET t == token[call[c].token]
      r == registry[call[c].fault]
  IN /\ t.state = "live"
     /\ t.fault = call[c].fault
     /\ r.asset # None
     /\ call[c].steps \subseteq r.steps

CheckCall(c) ==
  /\ call[c].pc = "sent"
  /\ \/ /\ Permitted(c)
        /\ call' = [call EXCEPT ![c].pc = "clearing",
                                ![c].asset = registry[call[c].fault].asset]
        /\ inflight' = inflight \cup {c}
     \/ /\ ~Permitted(c)
        /\ call' = [call EXCEPT ![c].pc = "refused"]
        /\ UNCHANGED inflight
  /\ UNCHANGED <<gatewayVars, task, token, registry, healed, worldVars>>

\* The Simulator performs a clear request, maybe after its sender gave up.
SimulatorClear(c) ==
  /\ c \in inflight
  /\ inflight' = inflight \ {c}
  /\ sim' = [sim EXCEPT ![call[c].asset] = None]
  /\ healed' = healed \cup
       {[call |-> c, token |-> call[c].token, fault |-> call[c].fault,
         asset |-> call[c].asset, steps |-> call[c].steps]}
  /\ UNCHANGED <<gatewayVars, task, token, registry, call, active, presenter, seen>>

ConsumeToken(t) ==
  token' = [token EXCEPT ![t].state = IF @ = "live" THEN "consumed" ELSE @]

\* The Simulator confirmed: only now is the token consumed.
ClearConfirmed(c) ==
  /\ call[c].pc = "clearing"
  /\ c \notin inflight
  /\ ConsumeToken(call[c].token)
  /\ call' = [call EXCEPT ![c].pc = "resolved"]
  /\ UNCHANGED <<gatewayVars, task, registry, inflight, healed, worldVars>>

\* Mutant of ClearFailed: the token is consumed before the result is known.
ClearFailedConsumes(c) ==
  /\ call[c].pc = "clearing"
  /\ ConsumeToken(call[c].token)
  /\ call' = [call EXCEPT ![c].pc = "refused"]
  /\ UNCHANGED <<gatewayVars, task, registry, inflight, healed, worldVars>>

\* simulator_clear_failed: an error or a timeout; the token stays live.
ClearFailed(c) ==
  /\ call[c].pc = "clearing"
  /\ call' = [call EXCEPT ![c].pc = "refused"]
  /\ UNCHANGED <<gatewayVars, task, token, registry, inflight, healed, worldVars>>

-----------------------------------------------------------------------------
(* The presenter: run a scenario, reset everything.                        *)

RunScenario(s) ==
  /\ presenter.op = "idle"
  /\ presenter' = [op |-> "run", scenario |-> s]
  /\ UNCHANGED <<gatewayVars, task, mcpVars, sim, active, seen>>

ResetLab ==
  /\ presenter.op = "idle"
  /\ presenter' = [op |-> "reset", scenario |-> None]
  /\ UNCHANGED <<gatewayVars, task, mcpVars, sim, active, seen>>

Idle == presenter' = [op |-> "idle", scenario |-> None]

AllInactive == \A a \in Asset : active[a] = None

\* One turn of the Orchestrator's loop over the active assets.
ClearActive(a) ==
  /\ presenter.op \in {"run", "reset"}
  /\ active[a] # None
  /\ sim' = [sim EXCEPT ![a] = None]
  /\ active' = [active EXCEPT ![a] = None]
  /\ UNCHANGED <<gatewayVars, task, mcpVars, presenter, seen>>

Inject ==
  /\ presenter.op = "run"
  /\ AllInactive
  /\ LET s == presenter.scenario IN
       /\ sim' = [sim EXCEPT ![Target[s]] = s]
       /\ active' = [active EXCEPT ![Target[s]] = s]
  /\ Idle
  /\ UNCHANGED <<gatewayVars, task, mcpVars, seen>>

\* A Simulator request fails, with or without its effect: the Orchestrator's
\* handler raises before it updates active_scenarios.
OrchestratorFails ==
  /\ presenter.op \in {"run", "reset"}
  /\ \/ UNCHANGED sim
     \/ \E a \in Asset : active[a] # None /\ sim' = [sim EXCEPT ![a] = None]
     \/ /\ presenter.op = "run"
        /\ AllInactive
        /\ sim' = [sim EXCEPT ![Target[presenter.scenario]] = presenter.scenario]
  /\ Idle
  /\ UNCHANGED <<gatewayVars, task, mcpVars, active, seen>>

OrchestratorIdle ==
  /\ presenter.op = "reset"
  /\ AllInactive
  /\ presenter' = [presenter EXCEPT !.op = "wipe"]
  /\ UNCHANGED <<gatewayVars, task, mcpVars, sim, active, seen>>

WipeMcp ==
  /\ token' = [d \in Decision |->
                 IF token[d].state = "none" THEN token[d]
                 ELSE [token[d] EXCEPT !.state = "wiped"]]
  /\ registry' = [f \in FaultId |-> [asset |-> None, steps |-> {}]]

\* POST /internal/reset, best effort: a failure is suppressed.
ResetMcp ==
  /\ presenter.op = "wipe"
  /\ presenter' = [presenter EXCEPT !.op = "purge"]
  /\ WipeMcp \/ UNCHANGED <<token, registry>>
  /\ UNCHANGED <<gatewayVars, task, call, inflight, healed, sim, active, seen>>

EmptyStore ==
  /\ stored' = {}
  /\ link' = [a \in Asset |-> None]
  /\ pending' = [f \in FaultId |-> None]
  /\ UNCHANGED <<status, about>>

\* GatewayStore.reset: running decisions and executors are not stopped.
ResetStore ==
  /\ presenter.op = "purge"
  /\ EmptyStore
  /\ Idle
  /\ UNCHANGED <<task, mcpVars, sim, active, seen>>

-----------------------------------------------------------------------------
(* Crashes: both services keep their state in memory only.                 *)

Running(d) == task[d].pc \notin {"idle", "done", "failed", "rejected"}

GatewayRestart ==
  /\ EmptyStore
  /\ task' = [d \in Decision |-> IF Running(d)
                                 THEN [task[d] EXCEPT !.pc = "failed"]
                                 ELSE task[d]]
  /\ IF presenter.op \in {"wipe", "purge"} THEN Idle ELSE UNCHANGED presenter
  /\ UNCHANGED <<mcpVars, sim, active, seen>>

\* Calls in progress die with the process, and their executors get no answer.
McpRestart ==
  /\ WipeMcp
  /\ call' = [c \in Call |-> IF call[c].pc \in {"sent", "clearing"}
                             THEN [call[c] EXCEPT !.pc = "refused"]
                             ELSE call[c]]
  /\ task' = [d \in Decision |->
                IF task[d].pc = "executing" /\ call[d].pc \in {"sent", "clearing"}
                THEN [task[d] EXCEPT !.pc = "unanswered"]
                ELSE task[d]]
  /\ UNCHANGED <<gatewayVars, inflight, healed, worldVars>>

-----------------------------------------------------------------------------
Agent ==
  \/ \E a \in Asset : FetchLogs(a)
  \/ \E f \in FaultId : CreateFault(f)
  \/ \E f \in FaultId, st \in PatchStatus : PatchFault(f, st)

Operator ==
  \/ \E f \in FaultId : Deny(f)
  \/ \E d \in Decision, f \in FaultId : Approve(d, f)

Serve(d) ==
  \/ FetchAllowlist(d) \/ RegisterFault(d) \/ MintToken(d)
  \/ RejectDecision(d) \/ StartExecutor(d) \/ SetRemediating(d)
  \/ SendExecute(d) \/ ExecuteReturns(d) \/ SetResolved(d)

McpTools(c) == CheckCall(c) \/ ClearConfirmed(c) \/ ClearFailed(c)

Client(c) ==
  \/ \E f \in FaultId : GetToken(c, f)
  \/ \E f \in FaultId, S \in SUBSET Step : CallerExecute(c, f, S)

Presenter ==
  \/ \E s \in Scenario : RunScenario(s)
  \/ ResetLab
  \/ \E a \in Asset : ClearActive(a)
  \/ Inject \/ OrchestratorFails \/ OrchestratorIdle
  \/ ResetMcp \/ ResetStore

Next ==
  \/ Agent
  \/ Operator
  \/ \E d \in Decision : Serve(d) \/ ExecuteLost(d)
  \/ \E c \in Call : McpTools(c) \/ SimulatorClear(c)
  \/ \E c \in Caller : Client(c)
  \/ Presenter
  \/ GatewayRestart
  \/ McpRestart

Spec == Init /\ [][Next]_vars

\* asyncio runs every ready task, and every plain HTTP request of the two
\* services carries the timeout httpx gives it, so a decision and a received
\* call move on.  Nothing makes a session notice that its connection broke:
\* ExecuteLost is not fair.  People and agents owe nothing.
Fairness ==
  /\ \A d \in Decision : WF_vars(Serve(d))
  /\ \A c \in Call : WF_vars(McpTools(c))

FairSpec == Spec /\ Fairness

-----------------------------------------------------------------------------
(* What the gate guarantees.                                               *)

\* Every clear that remediation.execute performs goes back to an approval a
\* human posted for that very fault, and hits the asset of that fault: the
\* asset id travels from the fault through post_decision, the registry and
\* the call, and newer approvals, resets and other clients may intervene.
OnlyApprovedAssetsCleared ==
  \A h \in healed :
    /\ task[h.token].pc # "idle"
    /\ task[h.token].fault = h.fault
    /\ about[h.fault] # None
    /\ h.asset = AssetOf(h.fault)

\* What a clear runs was put up for approval: its steps are among those one
\* decision on that very fault worked with, and belong to one scenario of the
\* cleared asset.  The allowlist is read from what the Orchestrator has active
\* at approval time, a later approval overwrites it in the registry while
\* calls are under way, and a client names steps of its own.
StepsFitAsset ==
  \A h \in healed :
    \E d \in Decision, s \in Scenario :
      /\ task[d].fault = h.fault
      /\ h.steps \subseteq task[d].steps
      /\ Target[s] = h.asset
      /\ h.steps \subseteq StepsOf[s]

\* A failed or unconfirmed clear never burns the human's approval: a
\* consumed token has a clear on the Simulator behind it.
ConsumedMeansCleared ==
  \A d \in Decision :
    token[d].state = "consumed" => \E h \in healed : h.token = d

\* A call that was sent when its token was already consumed, or gone after
\* a reset or a restart of MCP Tools, clears nothing.
NoReplay == \A h \in healed : ~call[h.call].late

\* A fault is shown resolved only if a clear under an approval of that
\* fault did reach the Simulator (unless the agent itself may patch the
\* status to resolved).
ResolvedMeansCleared ==
  "resolved" \notin PatchStatus =>
    \A f \in stored :
      status[f] = "resolved" => \E h \in healed : h.fault = f

\* The fault link of an asset record never dangles: it names a stored fault
\* of that asset, and not one that is already resolved, across the two
\* copies of the release code (PATCH handler and executor), late executors
\* of faults a reset removed, and restarts.
LinkNamesOpenFault ==
  \A a \in Asset :
    link[a] # None =>
      /\ link[a] \in stored
      /\ AssetOf(link[a]) = a
      /\ status[link[a]] # "resolved"

\* Every approval comes to an end for the operator (an error answer, a failed
\* execution or a resolved fault), whatever is refused, late, reset or
\* restarted; only an executor whose connection broke unnoticed may wait on.
DecisionSettles ==
  \A d \in Decision : Running(d) ~> (~Running(d) \/ task[d].pc = "unanswered")

-----------------------------------------------------------------------------
(* The inductive invariant behind the safety properties, part by part.     *)

BeforeMint == {"idle", "scenario", "register", "mint"}
BeforeCall == BeforeMint \cup {"minted", "started", "narrating"}

StoredWereCreated == \A f \in stored : about[f] # None

TasksKnowTheirFault ==
  \A d \in Decision :
    task[d].pc # "idle" => task[d].fault \in FaultId /\ about[task[d].fault] # None

TokensComeFromTasks ==
  \A d \in Decision :
    /\ task[d].pc \in BeforeMint => token[d].state = "none"
    /\ task[d].pc \in BeforeCall => call[d].pc = "idle"
    /\ task[d].pc \in {"minted", "started", "narrating"} => token[d].state # "none"
    /\ token[d].state # "none" => task[d].pc # "idle" /\ token[d].fault = task[d].fault

PendingWereMinted ==
  \A f \in FaultId : pending[f] # None => token[pending[f]].state # "none"

RegistryNamesFaultAsset ==
  \A f \in FaultId :
    registry[f].asset # None => about[f] # None /\ registry[f].asset = AssetOf(f)

CallsHoldTokens ==
  \A c \in Call :
    /\ call[c].pc \in {"holding", "sent"} =>
         call[c].token \in Decision /\ token[call[c].token].state # "none"
    /\ call[c].pc = "sent" =>
         /\ call[c].fault \in FaultId
         /\ call[c].late => token[call[c].token].state # "live"
    /\ call[c].pc \in {"idle", "holding", "sent"} => call[c].asset = None

\* An admitted call: its token was minted for its fault, on that fault's asset.
AdmittedCallsAreBound ==
  \A c \in Call :
    call[c].asset # None =>
      /\ call[c].token \in Decision
      /\ call[c].fault \in FaultId
      /\ about[call[c].fault] # None
      /\ call[c].asset = AssetOf(call[c].fault)
      /\ token[call[c].token].state # "none"
      /\ token[call[c].token].fault = call[c].fault
      /\ ~call[c].late

InflightWereAdmitted == \A c \in inflight : call[c].asset # None

HealsMatchCalls ==
  /\ \A h \in healed :
       /\ call[h.call].asset # None
       /\ h.token = call[h.call].token
       /\ h.fault = call[h.call].fault
       /\ h.asset = call[h.call].asset
  /\ \A c \in Call :
       call[c].pc = "resolved" \/ (call[c].pc = "clearing" /\ c \notin inflight)
         => \E h \in healed : h.call = c

\* Every link of the chain from a human's approval to a clear is sound.
ChainOfApproval ==
  /\ StoredWereCreated
  /\ TasksKnowTheirFault
  /\ TokensComeFromTasks
  /\ PendingWereMinted
  /\ RegistryNamesFaultAsset
  /\ CallsHoldTokens
  /\ AdmittedCallsAreBound
  /\ InflightWereAdmitted
  /\ HealsMatchCalls

-----------------------------------------------------------------------------
(* The gate implements ApprovalGrant: a grant is a token in MCP Tools.     *)

GrantOf ==
  [d \in Decision |-> CASE token[d].state = "consumed" -> "spent"
                        [] token[d].state = "wiped" -> "revoked"
                        [] OTHER -> token[d].state]

SubjectOf ==
  [d \in Decision |-> IF token[d].state = "none" THEN None
                      ELSE AssetOf(token[d].fault)]

UsingOf ==
  [c \in Call |-> IF call[c].asset = None THEN None ELSE call[c].token]

RepairedOf == {<<h.call, h.asset>> : h \in healed}

Grants == INSTANCE ApprovalGrant WITH
  grant <- GrantOf, subject <- SubjectOf, using <- UsingOf, repaired <- RepairedOf

\* The whole gate, with lost answers, resets, restarts and clients that hold
\* other tokens, only ever does what ApprovalGrant allows.
ImplementsGrants == Grants!Spec

-----------------------------------------------------------------------------
(* What the documents promise and the code does not keep.                  *)

\* docs/adr/ADR-004.md:18: the token is "consumed on first use".  The check
\* of the token and its consumption are separated by the await of the clear,
\* so two calls may both run on one token.
TokenUsedOnce ==
  \A h, g \in healed : h.token = g.token => h.call = g.call
=============================================================================
