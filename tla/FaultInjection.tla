---------------------------- MODULE FaultInjection ----------------------------
(***************************************************************************)
(* Scenario selection and fault injection: the Orchestrator's /api/run,    *)
(* /api/run/{id} and /api/reset handlers over the Simulator's control API. *)
(*                                                                         *)
(* A handler awaits every Simulator request, so handlers of overlapping    *)
(* requests interleave between the requests they send.  The Simulator's    *)
(* own handlers never suspend: a control request takes effect in one step. *)
(* A sender that times out or loses the connection raises and leaves its   *)
(* request behind, which the Simulator may still perform.                  *)
(***************************************************************************)

CONSTANTS
  Scenario,   \* scenarios of the content pack
  Asset,      \* assets of the content pack
  Target,     \* Target[s]: the asset scenario s is injected on
  Request,    \* slots for requests the Orchestrator serves at one time
  None

ASSUME InjectionAssumption ==
  /\ Target \in [Scenario -> Asset]
  /\ None \notin Scenario \cup Asset

VARIABLES
  last,    \* Orchestrator: RotationPolicy._last
  active,  \* Orchestrator: active_scenarios
  req,     \* Orchestrator: handlers of the requests
  wire,    \* the control request each handler sent, until it is performed
  sim,     \* Simulator: scenario of the fault held for each asset, or None
  held,        \* history: <<asset, scenario>> of every fault the Simulator held
  overlapped,  \* history: a request came while another was being served
  disturbed    \* history: a Simulator request failed, or a service restarted

history == <<held, overlapped, disturbed>>
vars == <<last, active, req, wire, sim, history>>

Handler == [pc: {"idle", "clearing", "injecting", "done", "failed"},
            op: {"run", "reset"}, scenario: Scenario \cup {None},
            at: Asset \cup {None}, todo: SUBSET Asset]

Control == [asset: Asset, fault: Scenario \cup {None}]

NoControl == [asset |-> None, fault |-> None]

TypeOK ==
  /\ last \in Scenario \cup {None}
  /\ active \in [Asset -> Scenario \cup {None}]
  /\ req \in [Request -> Handler]
  /\ wire \in [Request -> Control \cup {NoControl}]
  /\ sim \in [Asset -> Scenario \cup {None}]
  /\ held \subseteq Asset \X Scenario
  /\ {overlapped, disturbed} \subseteq BOOLEAN

Init ==
  /\ last = None
  /\ active = [a \in Asset |-> None]
  /\ req = [r \in Request |-> [pc |-> "idle", op |-> "run", scenario |-> None,
                               at |-> None, todo |-> {}]]
  /\ wire = [r \in Request |-> NoControl]
  /\ sim = [a \in Asset |-> None]
  /\ held = {}
  /\ overlapped = FALSE
  /\ disturbed = FALSE

Busy(r) == req[r].pc \in {"clearing", "injecting"}

\* list(active.items()): the loop works on a snapshot of the active assets.
Snapshot == {a \in Asset : active[a] # None}

\* The handler goes on with the assets in todo: it sends the next clear (in
\* the order of the pack, which nothing here depends on), or the injection,
\* or a reset ends.
Proceed(r, op, s, todo) ==
  \/ \E a \in todo :
       /\ req' = [req EXCEPT ![r] = [pc |-> "clearing", op |-> op, scenario |-> s,
                                     at |-> a, todo |-> todo \ {a}]]
       /\ wire' = [wire EXCEPT ![r] = [asset |-> a, fault |-> None]]
  \/ /\ todo = {} /\ op = "run"
     /\ req' = [req EXCEPT ![r] = [pc |-> "injecting", op |-> op, scenario |-> s,
                                   at |-> Target[s], todo |-> {}]]
     /\ wire' = [wire EXCEPT ![r] = [asset |-> Target[s], fault |-> s]]
  \/ /\ todo = {} /\ op = "reset"
     /\ req' = [req EXCEPT ![r] = [pc |-> "done", op |-> op, scenario |-> s,
                                   at |-> None, todo |-> {}]]
     /\ UNCHANGED wire

\* A slot is free once its last control request is gone.
Accept(r) ==
  /\ ~Busy(r) /\ wire[r] = NoControl
  /\ overlapped' = (overlapped \/ \E q \in Request : Busy(q))
  /\ UNCHANGED <<active, sim, held, disturbed>>

\* RotationPolicy.next: never the last id again, unless it is the only one.
Candidates == IF Scenario = {last} THEN Scenario ELSE Scenario \ {last}

RunNext(r) ==
  /\ Accept(r)
  /\ \E s \in Candidates :
       /\ last' = s
       /\ Proceed(r, "run", s, Snapshot)

RunSpecific(r, s) ==
  /\ Accept(r)
  /\ last' = s
  /\ Proceed(r, "run", s, Snapshot)

\* RotationPolicy.reset runs after the last clear, so an idle reset ends here.
Reset(r) ==
  /\ Accept(r)
  /\ Proceed(r, "reset", None, Snapshot)
  /\ last' = IF Snapshot = {} THEN None ELSE last

\* SimulatorEngine.inject or clear.
Perform(r) ==
  /\ wire[r] # NoControl
  /\ sim' = [sim EXCEPT ![wire[r].asset] = wire[r].fault]
  /\ wire' = [wire EXCEPT ![r] = NoControl]
  /\ held' = IF wire[r].fault = None THEN held
             ELSE held \cup {<<wire[r].asset, wire[r].fault>>}
  /\ UNCHANGED <<last, active, req, overlapped, disturbed>>

\* Mutant of Cleared: the asset stays active after it was cleared.
ClearedStaysActive(r) ==
  /\ req[r].pc = "clearing"
  /\ wire[r] = NoControl
  /\ Proceed(r, req[r].op, req[r].scenario, req[r].todo)
  /\ last' = IF req[r].op = "reset" /\ req[r].todo = {} THEN None ELSE last
  /\ UNCHANGED <<active, sim, history>>

\* Mutant of Cleared: the clear is not awaited.
ClearedUnawaited(r) ==
  /\ req[r].pc = "clearing"
  /\ active' = [active EXCEPT ![req[r].at] = None]
  /\ Proceed(r, req[r].op, req[r].scenario, req[r].todo)
  /\ last' = IF req[r].op = "reset" /\ req[r].todo = {} THEN None ELSE last
  /\ UNCHANGED <<sim, history>>

\* Mutant of Cleared: the loop takes up the asset it has cleared again.
ClearedAgain(r) ==
  /\ req[r].pc = "clearing"
  /\ wire[r] = NoControl
  /\ active' = [active EXCEPT ![req[r].at] = None]
  /\ Proceed(r, req[r].op, req[r].scenario, req[r].todo \cup {req[r].at})
  /\ UNCHANGED <<last, sim, history>>

Cleared(r) ==
  /\ req[r].pc = "clearing"
  /\ wire[r] = NoControl
  /\ active' = [active EXCEPT ![req[r].at] = None]
  /\ Proceed(r, req[r].op, req[r].scenario, req[r].todo)
  /\ last' = IF req[r].op = "reset" /\ req[r].todo = {} THEN None ELSE last
  /\ UNCHANGED <<sim, history>>

\* Mutant of Injected: the asset's own id is noted as its scenario.
InjectedNotesAsset(r) ==
  /\ req[r].pc = "injecting"
  /\ wire[r] = NoControl
  /\ active' = [active EXCEPT ![req[r].at] = req[r].at]
  /\ req' = [req EXCEPT ![r].pc = "done"]
  /\ UNCHANGED <<last, wire, sim, history>>

\* Mutant of Injected: the injection is noted before it is awaited.
InjectedUnawaited(r) ==
  /\ req[r].pc = "injecting"
  /\ active' = [active EXCEPT ![req[r].at] = req[r].scenario]
  /\ req' = [req EXCEPT ![r].pc = "done"]
  /\ UNCHANGED <<last, wire, sim, history>>

Injected(r) ==
  /\ req[r].pc = "injecting"
  /\ wire[r] = NoControl
  /\ active' = [active EXCEPT ![req[r].at] = req[r].scenario]
  /\ req' = [req EXCEPT ![r].pc = "done"]
  /\ UNCHANGED <<last, wire, sim, history>>

\* The Simulator's answer is an error or does not come within 10 s: the
\* handler raises.  Its request is lost, still on its way, or performed.
Raise(r) ==
  /\ Busy(r)
  /\ req' = [req EXCEPT ![r].pc = "failed"]
  /\ wire' \in {wire, [wire EXCEPT ![r] = NoControl]}
  /\ disturbed' = TRUE
  /\ UNCHANGED <<last, active, sim, held, overlapped>>

\* MCP Tools clears an asset on the Simulator; the Orchestrator is not told.
Remediate(a) ==
  /\ sim[a] # None
  /\ sim' = [sim EXCEPT ![a] = None]
  /\ UNCHANGED <<last, active, req, wire, history>>

OrchestratorRestart ==
  /\ last' = None
  /\ active' = [a \in Asset |-> None]
  /\ req' = [r \in Request |-> IF Busy(r) THEN [req[r] EXCEPT !.pc = "failed"]
                               ELSE req[r]]
  /\ disturbed' = TRUE
  /\ UNCHANGED <<wire, sim, held, overlapped>>

SimulatorRestart ==
  /\ sim' = [a \in Asset |-> None]
  /\ wire' = [r \in Request |-> NoControl]
  /\ req' = [r \in Request |-> IF Busy(r) THEN [req[r] EXCEPT !.pc = "failed"]
                               ELSE req[r]]
  /\ disturbed' = TRUE
  /\ UNCHANGED <<last, active, held, overlapped>>

Handle(r) == Cleared(r) \/ Injected(r) \/ Raise(r)

Next ==
  \/ \E r \in Request :
       \/ RunNext(r)
       \/ \E s \in Scenario : RunSpecific(r, s)
       \/ Reset(r)
       \/ Perform(r)
       \/ Handle(r)
  \/ \E a \in Asset : Remediate(a)
  \/ OrchestratorRestart
  \/ SimulatorRestart

Spec == Init /\ [][Next]_vars

\* The event loops run: the Simulator serves what reaches it and a handler
\* goes on with its answer.  Nothing is owed by presenters or crashes.
Fairness == \A r \in Request : WF_vars(Perform(r)) /\ WF_vars(Handle(r))

FairSpec == Spec /\ Fairness

-----------------------------------------------------------------------------
(* The handlers implement LabIncidents.                                    *)

\* Injections that were performed and whose handler has not resumed.
Unnoted ==
  {req[r].scenario : r \in {q \in Request : req[q].pc = "injecting" /\ wire[q] = NoControl}}

Incidents == INSTANCE LabIncidents WITH
  truth <- sim, unnoted <- Unnoted, belief <- active,
  excused <- overlapped \/ disturbed

\* Handlers that suspend at every request to the Simulator, with losses,
\* restarts and remedies of the agent in between, keep the lab to one
\* incident that is injected before it is noted and cleared before it is
\* dropped (/api/run, /api/run/{id}, /api/reset).
ImplementsIncidents == Incidents!Spec

-----------------------------------------------------------------------------
(* What the handlers guarantee.                                            *)

Quiet == \A r \in Request : ~Busy(r) /\ wire[r] = NoControl

\* As long as requests come one at a time, the lab never believes in two
\* faults, nor injects a second one while it believes in a first: all of the
\* snapshot is cleared, whichever requests failed or services restarted.
OneFaultAtATime ==
  ~overlapped =>
    /\ \A a, b \in Asset : active[a] # None /\ active[b] # None => a = b
    /\ \A r \in Request : req[r].pc = "injecting" => \A a \in Asset : active[a] = None

\* What the Orchestrator believes, and serves logs and remedies from, did
\* happen: an asset is active with a scenario the Simulator held on it,
\* however handlers overlap and whatever they lose.
BeliefWasHeld ==
  \A a \in Asset : active[a] # None => <<a, active[a]>> \in held

\* Before any overlap, loss or restart, whenever the lab is quiet the
\* Simulator holds no fault the Orchestrator does not know; what it knows may
\* have been remediated meanwhile.
KnownFaultsOnly ==
  ~overlapped /\ ~disturbed /\ Quiet =>
    \A a \in Asset : sim[a] \in {None, active[a]}

\* Every request the Orchestrator takes is answered, by success or failure.
RequestsAnswered == \A r \in Request : Busy(r) ~> ~Busy(r)
=============================================================================
