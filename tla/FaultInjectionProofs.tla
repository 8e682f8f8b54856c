------------------------- MODULE FaultInjectionProofs -------------------------
(***************************************************************************)
(* Proofs about FaultInjection, for any number of scenarios, assets and    *)
(* request slots.  The inductive invariant says what a busy handler has    *)
(* sent (CommandsMatch) and, when requests come one at a time, that the    *)
(* assets its loop still has to clear are all that are active.             *)
(***************************************************************************)
EXTENDS FaultInjection, TLAPS

\* A handler that injects has sent its own scenario for its own asset; once
\* the request is off the wire the Simulator has held that fault.
CommandsMatch ==
  \A r \in Request :
    /\ Busy(r) => req[r].at \in Asset
    /\ Busy(r) /\ req[r].op = "run" => req[r].scenario \in Scenario
    /\ req[r].pc = "injecting" =>
         /\ req[r].op = "run"
         /\ wire[r] # NoControl =>
              wire[r] = [asset |-> req[r].at, fault |-> req[r].scenario]
         /\ wire[r] = NoControl => <<req[r].at, req[r].scenario>> \in held

OneHandler == ~overlapped => \A q, r \in Request : Busy(q) /\ Busy(r) => q = r

LoopCoversActive ==
  ~overlapped =>
    \A r \in Request, a \in Asset :
      req[r].pc = "clearing" /\ active[a] # None => a = req[r].at \/ a \in req[r].todo

Inv ==
  /\ TypeOK
  /\ CommandsMatch
  /\ BeliefWasHeld
  /\ OneHandler
  /\ LoopCoversActive
  /\ OneFaultAtATime

\* The handler in slot r now serves op for scenario s, with todo to clear.
Proceeded(r, op, s, todo) ==
  /\ req' \in [Request -> Handler]
  /\ wire' \in [Request -> Control \cup {NoControl}]
  /\ \A q \in Request \ {r} : req'[q] = req[q] /\ wire'[q] = wire[q]
  /\ req'[r].op = op
  /\ req'[r].scenario = s
  /\ \/ /\ req'[r].pc = "clearing"
        /\ req'[r].at \in todo
        /\ req'[r].todo = todo \ {req'[r].at}
        /\ wire'[r] = [asset |-> req'[r].at, fault |-> None]
     \/ /\ req'[r].pc = "injecting"
        /\ op = "run" /\ todo = {}
        /\ req'[r].at = Target[s]
        /\ wire'[r] = [asset |-> Target[s], fault |-> s]
        /\ wire'[r] # NoControl
     \/ /\ req'[r].pc = "done"
        /\ todo = {} /\ wire'[r] = wire[r]

LEMMA ProceedUpdate ==
  ASSUME TypeOK, NEW r \in Request, NEW op \in {"run", "reset"},
         NEW s \in Scenario \cup {None}, op = "run" => s \in Scenario,
         NEW todo \in SUBSET Asset, Proceed(r, op, s, todo)
  PROVE  Proceeded(r, op, s, todo)
<1> USE DEF Proceeded, TypeOK
<1>1. ASSUME NEW a \in todo,
             req' = [req EXCEPT ![r] = [pc |-> "clearing", op |-> op, scenario |-> s,
                                        at |-> a, todo |-> todo \ {a}]],
             wire' = [wire EXCEPT ![r] = [asset |-> a, fault |-> None]]
      PROVE  Proceeded(r, op, s, todo)
  BY <1>1 DEF Handler, Control
<1>2. CASE /\ todo = {} /\ op = "run"
           /\ req' = [req EXCEPT ![r] = [pc |-> "injecting", op |-> op, scenario |-> s,
                                         at |-> Target[s], todo |-> {}]]
           /\ wire' = [wire EXCEPT ![r] = [asset |-> Target[s], fault |-> s]]
  <2>1. s \in Scenario /\ Target[s] \in Asset /\ s # None
    BY <1>2, InjectionAssumption
  <2>2. [asset |-> Target[s], fault |-> s] # NoControl
    BY <2>1 DEF NoControl
  <2> QED
    BY <1>2, <2>1, <2>2 DEF Handler, Control
<1>3. CASE /\ todo = {} /\ op = "reset"
           /\ req' = [req EXCEPT ![r] = [pc |-> "done", op |-> op, scenario |-> s,
                                         at |-> None, todo |-> {}]]
           /\ UNCHANGED wire
  BY <1>3 DEF Handler
<1> QED
  BY <1>1, <1>2, <1>3 DEF Proceed

-----------------------------------------------------------------------------
\* A request is taken: the rotation moves, the handler starts.
LEMMA StartSafe ==
  ASSUME Inv, NEW r \in Request, Accept(r), NEW op \in {"run", "reset"},
         NEW s \in Scenario \cup {None}, op = "run" => s \in Scenario,
         Proceed(r, op, s, Snapshot), last' \in Scenario \cup {None}
  PROVE  Inv'
<1> USE DEF Inv
<1>1. Snapshot \in SUBSET Asset
  BY DEF Snapshot
<1>2. Proceeded(r, op, s, Snapshot)
  BY <1>1, ProceedUpdate
<1>3. TypeOK'
  BY <1>2 DEF Accept, TypeOK, Proceeded
<1>4. CommandsMatch'
  BY ZenonT(60), <1>1, <1>2, InjectionAssumption DEF Accept, Proceeded, CommandsMatch, Busy
<1>5. BeliefWasHeld'
  BY DEF Accept, BeliefWasHeld
<1>6. ~overlapped' => ~overlapped /\ \A q \in Request : ~Busy(q)
  BY DEF Accept
<1>7. OneHandler'
  BY <1>2, <1>6 DEF OneHandler, Proceeded, Busy
<1>8. LoopCoversActive'
  BY <1>2, <1>6 DEF Accept, LoopCoversActive, Proceeded, Snapshot, Busy
<1>9. OneFaultAtATime'
  BY <1>2, <1>6 DEF Accept, OneFaultAtATime, Proceeded, Snapshot, Busy
<1> QED
  BY <1>3, <1>4, <1>5, <1>7, <1>8, <1>9

LEMMA ClearedSafe ==
  ASSUME Inv, NEW r \in Request, Cleared(r)
  PROVE  Inv'
<1> USE DEF Inv, history
<1>1. /\ req[r].op \in {"run", "reset"} /\ req[r].scenario \in Scenario \cup {None}
      /\ req[r].todo \in SUBSET Asset
      /\ (req[r].op = "run" => req[r].scenario \in Scenario)
  BY DEF Cleared, TypeOK, Handler, CommandsMatch, Busy
<1>2. Proceeded(r, req[r].op, req[r].scenario, req[r].todo)
  BY <1>1, ProceedUpdate DEF Cleared
<1>3. /\ active' \in [Asset -> Scenario \cup {None}]
      /\ \A a \in Asset : active'[a] # None => active'[a] = active[a] /\ a # req[r].at
  BY DEF Cleared, TypeOK
<1>4. TypeOK'
  BY <1>2, <1>3 DEF Cleared, TypeOK, Proceeded
<1>5. CommandsMatch'
  BY ZenonT(60), <1>1, <1>2, InjectionAssumption DEF Cleared, Proceeded, CommandsMatch, Busy
<1>6. BeliefWasHeld'
  BY <1>3 DEF Cleared, BeliefWasHeld
<1>7. OneHandler'
  BY <1>2 DEF Cleared, OneHandler, Proceeded, Busy
<1>8. LoopCoversActive'
  BY <1>2, <1>3 DEF Cleared, LoopCoversActive, OneHandler, Proceeded, Busy
<1>9. OneFaultAtATime'
  <2> SUFFICES ASSUME ~overlapped
               PROVE  OneFaultAtATime'
    BY DEF Cleared, OneFaultAtATime
  <2>1. \A q \in Request \ {r} : req'[q].pc # "injecting"
    BY <1>2 DEF Cleared, OneHandler, Proceeded, Busy
  <2>2. req'[r].pc = "injecting" => \A a \in Asset : active'[a] = None
    BY <1>2, <1>3 DEF Cleared, LoopCoversActive, Proceeded
  <2> QED
    BY <1>3, <2>1, <2>2 DEF OneFaultAtATime
<1> QED
  BY <1>4, <1>5, <1>6, <1>7, <1>8, <1>9

\* Handlers may end, and nothing else changes but wires of ended handlers.
LEMMA EndSafe ==
  ASSUME Inv, NEW R \in SUBSET Request,
         req' \in [Request -> Handler],
         \A q \in R : ~Busy(q)',
         \A q \in Request \ R : req'[q] = req[q] /\ wire'[q] = wire[q],
         wire' \in [Request -> Control \cup {NoControl}],
         \A a \in Asset : active'[a] \in {active[a], None},
         TypeOK', UNCHANGED <<held, overlapped>>
  PROVE  Inv'
<1> USE DEF Inv
<1>1. CommandsMatch'
  BY DEF CommandsMatch, Busy
<1>2. BeliefWasHeld'
  BY DEF BeliefWasHeld
<1>3. OneHandler'
  BY DEF OneHandler, Busy
<1>4. LoopCoversActive'
  BY DEF LoopCoversActive, Busy
<1>5. OneFaultAtATime'
  BY DEF OneFaultAtATime, Busy
<1> QED
  BY <1>1, <1>2, <1>3, <1>4, <1>5

LEMMA InjectedSafe ==
  ASSUME Inv, NEW r \in Request, Injected(r)
  PROVE  Inv'
<1> USE DEF Inv, history
<1>1. /\ req[r].at \in Asset /\ req[r].scenario \in Scenario
      /\ <<req[r].at, req[r].scenario>> \in held
      /\ req[r].pc = "injecting"
  BY DEF Injected, CommandsMatch, Busy
<1>2. /\ req' \in [Request -> Handler]
      /\ req'[r].pc = "done"
      /\ \A q \in Request \ {r} : req'[q] = req[q]
  BY DEF Injected, TypeOK, Handler
<1>3. active' = [active EXCEPT ![req[r].at] = req[r].scenario]
      /\ UNCHANGED <<last, wire, sim, history>>
  BY DEF Injected
<1>4. TypeOK'
  BY <1>1, <1>2, <1>3 DEF TypeOK
<1>5. CommandsMatch'
  BY <1>2, <1>3 DEF CommandsMatch, Busy
<1>6. BeliefWasHeld'
  BY <1>1, <1>3 DEF BeliefWasHeld, TypeOK
<1>7. OneHandler'
  BY <1>2, <1>3 DEF OneHandler, Busy
<1>8. ~overlapped => \A q \in Request : ~Busy(q)'
  BY <1>1, <1>2 DEF OneHandler, Busy
<1>9. LoopCoversActive'
  BY <1>3, <1>8 DEF LoopCoversActive, Busy
<1>10. OneFaultAtATime'
  BY <1>1, <1>3, <1>8 DEF OneFaultAtATime, Busy, TypeOK
<1> QED
  BY <1>4, <1>5, <1>6, <1>7, <1>9, <1>10

LEMMA PerformSafe ==
  ASSUME Inv, NEW r \in Request, Perform(r)
  PROVE  Inv'
<1> USE DEF Inv
<1>1. wire[r] \in Control
  BY DEF Perform, TypeOK
<1>2. TypeOK'
  BY <1>1 DEF Perform, TypeOK, Control
<1>3. held \subseteq held' /\ UNCHANGED <<active, req, overlapped>>
  BY DEF Perform
<1>4. req[r].pc = "injecting" => <<req[r].at, req[r].scenario>> \in held'
  <2> SUFFICES ASSUME req[r].pc = "injecting"
               PROVE  <<req[r].at, req[r].scenario>> \in held'
    OBVIOUS
  <2>1. wire[r] = [asset |-> req[r].at, fault |-> req[r].scenario]
        /\ req[r].scenario \in Scenario
    BY DEF Perform, CommandsMatch, Busy
  <2>2. wire[r].asset = req[r].at /\ wire[r].fault = req[r].scenario
        /\ wire[r].fault # None
    BY <2>1, InjectionAssumption
  <2> QED
    BY <2>2 DEF Perform
<1>5. wire'[r] = NoControl /\ \A q \in Request \ {r} : wire'[q] = wire[q]
  BY DEF Perform, TypeOK
<1>6. CommandsMatch'
  BY <1>3, <1>4, <1>5 DEF CommandsMatch, Busy
<1>7. BeliefWasHeld'
  BY <1>3 DEF BeliefWasHeld
<1>8. OneHandler' /\ LoopCoversActive' /\ OneFaultAtATime'
  BY <1>3 DEF OneHandler, LoopCoversActive, OneFaultAtATime, Busy
<1> QED
  BY <1>2, <1>6, <1>7, <1>8

LEMMA CrashSafe ==
  ASSUME Inv,
         \/ \E r \in Request : Raise(r)
         \/ \E a \in Asset : Remediate(a)
         \/ OrchestratorRestart
         \/ SimulatorRestart
  PROVE  Inv'
<1> USE DEF Inv, history
<1> DEFINE Ended == [r \in Request |-> IF Busy(r) THEN [req[r] EXCEPT !.pc = "failed"]
                                       ELSE req[r]]
<1>1. /\ Ended \in [Request -> Handler]
      /\ \A q \in Request : Ended[q].pc \notin {"clearing", "injecting"}
  BY DEF TypeOK, Handler, Busy
<1> HIDE DEF Ended
<1>2. ASSUME NEW r \in Request, Raise(r)
      PROVE  Inv'
  <2>1. /\ req' \in [Request -> Handler]
        /\ req'[r].pc = "failed"
        /\ \A q \in Request \ {r} : req'[q] = req[q] /\ wire'[q] = wire[q]
        /\ wire' \in [Request -> Control \cup {NoControl}]
    BY <1>2 DEF Raise, TypeOK, Handler
  <2>2. TypeOK' /\ UNCHANGED <<active, held, overlapped>>
    BY <1>2, <2>1 DEF Raise, TypeOK
  <2> QED
    BY <2>1, <2>2, EndSafe, {r} \in SUBSET Request DEF Busy
<1>3. ASSUME NEW a \in Asset, Remediate(a)
      PROVE  Inv'
  <2>1. TypeOK' /\ UNCHANGED <<active, req, wire, held, overlapped>>
    BY <1>3 DEF Remediate, TypeOK
  <2> QED
    BY <2>1, EndSafe, {} \in SUBSET Request DEF TypeOK
<1>4. CASE OrchestratorRestart
  <2>1. req' = Ended /\ UNCHANGED <<wire, held, overlapped>>
    BY <1>4 DEF OrchestratorRestart, Ended
  <2>2. TypeOK'
    BY <1>1, <1>4, <2>1 DEF OrchestratorRestart, TypeOK
  <2>3. \A a \in Asset : active'[a] = None
    BY <1>4 DEF OrchestratorRestart
  <2> QED
    BY <1>1, <2>1, <2>2, <2>3, EndSafe, Request \in SUBSET Request DEF Busy, TypeOK
<1>5. CASE SimulatorRestart
  <2>1. req' = Ended /\ UNCHANGED <<active, held, overlapped>>
    BY <1>5 DEF SimulatorRestart, Ended
  <2>2. wire' \in [Request -> Control \cup {NoControl}]
    BY <1>5 DEF SimulatorRestart
  <2>3. TypeOK'
    BY <1>1, <1>5, <2>1, <2>2 DEF SimulatorRestart, TypeOK
  <2> QED
    BY <1>1, <2>1, <2>2, <2>3, EndSafe, Request \in SUBSET Request DEF Busy
<1> QED
  BY <1>2, <1>3, <1>4, <1>5

-----------------------------------------------------------------------------
LEMMA InitSafe ==
  ASSUME Init
  PROVE  Inv
<1>1. TypeOK
  BY DEF Init, TypeOK, Handler
<1> QED
  BY <1>1 DEF Init, Inv, CommandsMatch, BeliefWasHeld, OneHandler,
     LoopCoversActive, OneFaultAtATime, Busy

LEMMA StepSafe ==
  ASSUME Inv, [Next]_vars
  PROVE  Inv'
<1>1. ASSUME NEW r \in Request, RunNext(r)
      PROVE  Inv'
  <2>1. PICK s \in Candidates : last' = s /\ Proceed(r, "run", s, Snapshot)
    BY <1>1 DEF RunNext
  <2>2. s \in Scenario
    BY <2>1 DEF Candidates
  <2> QED
    BY <1>1, <2>1, <2>2, StartSafe DEF RunNext
<1>2. ASSUME NEW r \in Request, NEW s \in Scenario, RunSpecific(r, s)
      PROVE  Inv'
  BY <1>2, StartSafe DEF RunSpecific
<1>3. ASSUME NEW r \in Request, Reset(r)
      PROVE  Inv'
  BY <1>3, StartSafe DEF Reset, Inv, TypeOK
<1>4. CASE UNCHANGED vars
  <2>1. TypeOK'
    BY <1>4 DEF vars, history, Inv, TypeOK
  <2> QED
    BY <1>4, <2>1, EndSafe, {} \in SUBSET Request DEF vars, history, Inv, TypeOK
<1> QED
  BY <1>1, <1>2, <1>3, <1>4, ClearedSafe, InjectedSafe, PerformSafe, CrashSafe
     DEF Next, Handle

LEMMA InvHolds == Spec => []Inv
<1>1. Init => Inv
  BY InitSafe
<1>2. Inv /\ [Next]_vars => Inv'
  BY StepSafe
<1> QED
  BY <1>1, <1>2, PTL DEF Spec

-----------------------------------------------------------------------------
(* What the Simulator holds, before any overlap, loss or restart           *)

\* Only a busy handler has a request on the wire: its clear or injection.
WiresAreServed ==
  \A r \in Request : wire[r] # NoControl =>
    /\ Busy(r)
    /\ req[r].pc = "clearing" => wire[r] = [asset |-> req[r].at, fault |-> None]

\* The Simulator is ahead of the Orchestrator only by the injection whose
\* answer has not been noted, and an asset is cleared before it is dropped.
SimulatorKnown ==
  /\ \A a \in Asset :
       \/ sim[a] \in {None, active[a]}
       \/ \E r \in Request : /\ req[r].pc = "injecting" /\ wire[r] = NoControl
                             /\ req[r].at = a /\ sim[a] = req[r].scenario
  /\ \A r \in Request : req[r].pc = "clearing" /\ wire[r] = NoControl => sim[req[r].at] = None

Undisturbed == ~overlapped /\ ~disturbed => WiresAreServed /\ SimulatorKnown

LEMMA StartKnown ==
  ASSUME Inv, Undisturbed, NEW r \in Request, Accept(r), NEW op \in {"run", "reset"},
         NEW s \in Scenario \cup {None}, op = "run" => s \in Scenario,
         Proceed(r, op, s, Snapshot)
  PROVE  Undisturbed'
<1> SUFFICES ASSUME ~overlapped', ~disturbed'
             PROVE  WiresAreServed' /\ SimulatorKnown'
  BY DEF Undisturbed
<1>1. /\ \A q \in Request : ~Busy(q)
      /\ wire[r] = NoControl /\ UNCHANGED <<active, sim>>
      /\ WiresAreServed /\ SimulatorKnown
  BY DEF Accept, Undisturbed
<1>2. Snapshot \in SUBSET Asset
  BY DEF Snapshot
<1>3. Proceeded(r, op, s, Snapshot)
  BY <1>2, ProceedUpdate DEF Inv
<1>4. \A q \in Request : wire[q] = NoControl
  BY <1>1 DEF WiresAreServed
<1>5. WiresAreServed'
  BY <1>1, <1>3, <1>4 DEF Proceeded, WiresAreServed, Busy
<1>6. \A a \in Asset : sim[a] \in {None, active[a]}
  BY <1>1 DEF SimulatorKnown, Busy
<1>7. \A q \in Request : req'[q].pc = "clearing" => wire'[q] # NoControl
  <2>1. req'[r].pc = "clearing" => req'[r].at # None /\ wire'[r].asset = req'[r].at
    BY <1>2, <1>3, InjectionAssumption DEF Proceeded
  <2>2. NoControl.asset = None
    BY DEF NoControl
  <2> QED
    BY <2>1, <2>2, <1>1, <1>3 DEF Proceeded, Busy
<1> QED
  BY <1>1, <1>5, <1>6, <1>7 DEF SimulatorKnown

LEMMA ClearedKnown ==
  ASSUME Inv, Undisturbed, NEW r \in Request, Cleared(r)
  PROVE  Undisturbed'
<1> USE DEF Inv, history
<1> SUFFICES ASSUME ~overlapped, ~disturbed
             PROVE  WiresAreServed' /\ SimulatorKnown'
  BY DEF Undisturbed, Cleared
<1>1. /\ req[r].op \in {"run", "reset"} /\ req[r].scenario \in Scenario \cup {None}
      /\ req[r].todo \in SUBSET Asset /\ req[r].at \in Asset
      /\ (req[r].op = "run" => req[r].scenario \in Scenario)
  BY DEF Cleared, TypeOK, Handler, CommandsMatch, Busy
<1>2. Proceeded(r, req[r].op, req[r].scenario, req[r].todo)
  BY <1>1, ProceedUpdate DEF Cleared
<1>3. /\ req[r].pc = "clearing" /\ wire[r] = NoControl /\ UNCHANGED sim
      /\ \A a \in Asset : active'[a] = IF a = req[r].at THEN None ELSE active[a]
      /\ WiresAreServed /\ SimulatorKnown
  BY DEF Cleared, TypeOK, Undisturbed
<1>4. \A q \in Request \ {r} : ~Busy(q) /\ wire[q] = NoControl
  BY <1>3 DEF OneHandler, WiresAreServed, Busy
<1>5. WiresAreServed'
  BY <1>2, <1>3, <1>4 DEF Proceeded, WiresAreServed, Busy
<1>6. \A a \in Asset : sim[a] \in {None, active'[a]}
  <2>1. sim[req[r].at] = None
    BY <1>3 DEF SimulatorKnown
  <2>2. \A a \in Asset : sim[a] \in {None, active[a]}
    BY <1>3, <1>4 DEF SimulatorKnown, Busy
  <2> QED
    BY <2>1, <2>2, <1>3
<1>7. \A q \in Request : req'[q].pc = "clearing" => wire'[q] # NoControl
  <2>1. req'[r].pc = "clearing" => req'[r].at # None /\ wire'[r].asset = req'[r].at
    BY <1>1, <1>2, InjectionAssumption DEF Proceeded
  <2>2. NoControl.asset = None
    BY DEF NoControl
  <2> QED
    BY <2>1, <2>2, <1>2, <1>4 DEF Proceeded, Busy
<1> QED
  BY <1>3, <1>5, <1>6, <1>7 DEF SimulatorKnown

LEMMA InjectedKnown ==
  ASSUME Inv, Undisturbed, NEW r \in Request, Injected(r)
  PROVE  Undisturbed'
<1> USE DEF Inv, history
<1> SUFFICES ASSUME ~overlapped, ~disturbed
             PROVE  WiresAreServed' /\ SimulatorKnown'
  BY DEF Undisturbed, Injected
<1>1. /\ req[r].pc = "injecting" /\ wire[r] = NoControl /\ UNCHANGED <<wire, sim>>
      /\ active' = [active EXCEPT ![req[r].at] = req[r].scenario]
      /\ WiresAreServed /\ SimulatorKnown
  BY DEF Injected, Undisturbed
<1>2. /\ req'[r].pc = "done"
      /\ \A q \in Request \ {r} : req'[q] = req[q] /\ ~Busy(q) /\ wire[q] = NoControl
  BY <1>1 DEF Injected, TypeOK, Handler, OneHandler, WiresAreServed, Busy
<1>3. \A a \in Asset : active[a] = None
  BY <1>1 DEF OneFaultAtATime
<1>4. \A a \in Asset : sim[a] = None \/ (a = req[r].at /\ sim[a] = req[r].scenario)
  BY <1>1, <1>2, <1>3 DEF SimulatorKnown, Busy
<1>5. \A a \in Asset : sim[a] \in {None, active'[a]}
  BY <1>1, <1>4 DEF TypeOK
<1>6. WiresAreServed'
  BY <1>1, <1>2 DEF WiresAreServed
<1> QED
  BY <1>1, <1>2, <1>5, <1>6 DEF SimulatorKnown, Busy

LEMMA PerformKnown ==
  ASSUME Inv, Undisturbed, NEW r \in Request, Perform(r)
  PROVE  Undisturbed'
<1> USE DEF Inv
<1> SUFFICES ASSUME ~overlapped, ~disturbed
             PROVE  WiresAreServed' /\ SimulatorKnown'
  BY DEF Undisturbed, Perform
<1>1. /\ wire[r] # NoControl /\ Busy(r) /\ UNCHANGED <<active, req>>
      /\ wire'[r] = NoControl /\ \A q \in Request \ {r} : wire'[q] = wire[q]
      /\ sim' = [sim EXCEPT ![wire[r].asset] = wire[r].fault]
      /\ WiresAreServed /\ SimulatorKnown
  BY DEF Perform, TypeOK, Undisturbed, WiresAreServed
<1>2. \A q \in Request \ {r} : ~Busy(q) /\ wire[q] = NoControl
  BY <1>1 DEF OneHandler, WiresAreServed
<1>3. WiresAreServed'
  BY <1>1, <1>2 DEF WiresAreServed
<1>4. req[r].at \in Asset /\ \A a \in Asset : sim[a] \in {None, active[a]}
  BY <1>1, <1>2 DEF CommandsMatch, SimulatorKnown, Busy
<1>5. CASE req[r].pc = "clearing"
  <2> DEFINE w == [asset |-> req[r].at, fault |-> None]
  <2>0. wire[r] = w
    BY <1>1, <1>5 DEF WiresAreServed
  <2>1. wire[r].asset = req[r].at /\ wire[r].fault = None
    BY <2>0
  <2>2. \A a \in Asset : sim'[a] = IF a = req[r].at THEN None ELSE sim[a]
    BY <1>1, <2>1 DEF TypeOK
  <2> QED
    BY <1>1, <1>2, <1>3, <1>4, <2>2 DEF SimulatorKnown, Busy
<1>6. CASE req[r].pc = "injecting"
  <2> DEFINE w == [asset |-> req[r].at, fault |-> req[r].scenario]
  <2>0. wire[r] = w
    BY <1>1, <1>6 DEF CommandsMatch
  <2>1. wire[r].asset = req[r].at /\ wire[r].fault = req[r].scenario
    BY <2>0
  <2>2. \A a \in Asset : sim'[a] = IF a = req[r].at THEN req[r].scenario ELSE sim[a]
    BY <1>1, <2>1 DEF TypeOK
  <2>3. \A q \in Request : req'[q].pc # "clearing"
    BY <1>1, <1>2, <1>6 DEF Busy
  <2> QED
    BY <1>1, <1>3, <1>4, <1>6, <2>2, <2>3 DEF SimulatorKnown
<1> QED
  BY <1>1, <1>5, <1>6 DEF Busy

LEMMA StepKnown ==
  ASSUME Inv, Undisturbed, [Next]_vars
  PROVE  Undisturbed'
<1>1. ASSUME NEW r \in Request, RunNext(r)
      PROVE  Undisturbed'
  <2>1. PICK s \in Candidates : Proceed(r, "run", s, Snapshot)
    BY <1>1 DEF RunNext
  <2>2. s \in Scenario
    BY <2>1 DEF Candidates
  <2> QED
    BY <1>1, <2>1, <2>2, StartKnown DEF RunNext
<1>2. ASSUME NEW r \in Request, \/ Reset(r)
                                \/ \E s \in Scenario : RunSpecific(r, s)
      PROVE  Undisturbed'
  BY <1>2, StartKnown DEF RunSpecific, Reset
<1>3. ASSUME NEW a \in Asset, Remediate(a)
      PROVE  Undisturbed'
  <2>1. /\ UNCHANGED <<active, req, wire, overlapped, disturbed>>
        /\ \A b \in Asset : sim'[b] \in {sim[b], None}
    BY <1>3 DEF Remediate, history, Inv, TypeOK
  <2>2. \A r \in Request : Busy(r) => req[r].at \in Asset
    BY DEF Inv, CommandsMatch
  <2> QED
    BY <2>1, <2>2 DEF Undisturbed, WiresAreServed, SimulatorKnown, Busy
<1>4. CASE OrchestratorRestart \/ SimulatorRestart \/ \E r \in Request : Raise(r)
  BY <1>4 DEF OrchestratorRestart, SimulatorRestart, Raise, Undisturbed
<1>5. CASE UNCHANGED vars
  BY <1>5 DEF vars, history, Undisturbed, WiresAreServed, SimulatorKnown, Busy
<1> QED
  BY <1>1, <1>2, <1>3, <1>4, <1>5, ClearedKnown, InjectedKnown, PerformKnown DEF Next, Handle

-----------------------------------------------------------------------------
(* The handlers implement LabIncidents                                     *)

\* A fault is on the wire, and is injected, for its own scenario's asset.
OnTarget ==
  \A r \in Request :
    /\ req[r].pc = "injecting" => req[r].at = Target[req[r].scenario]
    /\ wire[r].fault # None => wire[r].asset = Target[wire[r].fault]

LabInv == Inv /\ Undisturbed /\ OnTarget

LEMMA ProceedOnTarget ==
  ASSUME Inv, OnTarget, NEW r \in Request, NEW op, NEW s, NEW todo,
         Proceeded(r, op, s, todo)
  PROVE  OnTarget'
<1>1. ASSUME NEW q \in Request \ {r}
      PROVE  /\ req'[q].pc = "injecting" => req'[q].at = Target[req'[q].scenario]
             /\ wire'[q].fault # None => wire'[q].asset = Target[wire'[q].fault]
  BY DEF Proceeded, OnTarget
<1>2. req'[r].pc = "injecting" => req'[r].at = Target[req'[r].scenario]
  BY DEF Proceeded
<1>3. wire'[r].fault # None => wire'[r].asset = Target[wire'[r].fault]
  <2>1. CASE wire'[r] = wire[r]
    BY <2>1 DEF OnTarget
  <2>2. CASE wire'[r] = [asset |-> req'[r].at, fault |-> None]
    BY <2>2
  <2>3. CASE wire'[r] = [asset |-> Target[s], fault |-> s]
    BY <2>3
  <2> QED
    BY <2>1, <2>2, <2>3 DEF Proceeded
<1> QED
  BY <1>1, <1>2, <1>3 DEF OnTarget

LEMMA StepOnTarget ==
  ASSUME Inv, OnTarget, [Next]_vars
  PROVE  OnTarget'
<1> USE DEF Inv
<1>1. ASSUME NEW r \in Request, Accept(r), NEW op \in {"run", "reset"},
             NEW s \in Scenario \cup {None}, op = "run" => s \in Scenario,
             Proceed(r, op, s, Snapshot)
      PROVE  OnTarget'
  BY <1>1, ProceedUpdate, ProceedOnTarget DEF Snapshot
<1>2. ASSUME NEW r \in Request, RunNext(r)
      PROVE  OnTarget'
  BY <1>2, <1>1 DEF RunNext, Candidates
<1>3. ASSUME NEW r \in Request, Cleared(r)
      PROVE  OnTarget'
  <2>1. /\ req[r].op \in {"run", "reset"} /\ req[r].scenario \in Scenario \cup {None}
        /\ req[r].todo \in SUBSET Asset
        /\ (req[r].op = "run" => req[r].scenario \in Scenario)
    BY <1>3 DEF Cleared, TypeOK, Handler, CommandsMatch, Busy
  <2> QED
    BY <1>3, <2>1, ProceedUpdate, ProceedOnTarget DEF Cleared
<1>4. ASSUME \A q \in Request : req'[q] = req[q] \/ req'[q].pc # "injecting",
             \A q \in Request : wire'[q] \in {wire[q], NoControl}
      PROVE  OnTarget'
  BY <1>4 DEF OnTarget, NoControl
<1>5. ASSUME NEW r \in Request, Injected(r) \/ Raise(r) \/ Perform(r)
      PROVE  OnTarget'
  BY <1>4, <1>5 DEF Injected, Raise, Perform, TypeOK, Handler
<1>6. ASSUME NEW a \in Asset, Remediate(a)
      PROVE  OnTarget'
  BY <1>4, <1>6 DEF Remediate
<1>7. CASE OrchestratorRestart \/ SimulatorRestart
  BY <1>4, <1>7 DEF OrchestratorRestart, SimulatorRestart, TypeOK, Handler, Busy
<1>8. CASE UNCHANGED vars
  BY <1>4, <1>8 DEF vars
<1> QED
  BY <1>1, <1>2, <1>3, <1>5, <1>6, <1>7, <1>8
     DEF Next, Handle, RunSpecific, Reset

LEMMA LabInvHolds == Spec => []LabInv
<1>1. Init => Undisturbed /\ OnTarget
  BY DEF Init, Undisturbed, WiresAreServed, SimulatorKnown, OnTarget, NoControl
<1>2. Inv /\ Undisturbed /\ OnTarget /\ [Next]_vars => Undisturbed' /\ OnTarget'
  BY StepKnown, StepOnTarget
<1> QED
  BY <1>1, <1>2, InvHolds, PTL DEF Spec, LabInv

Calm == ~(overlapped \/ disturbed)

\* In a calm lab the one handler that injects finds no other fault.
LEMMA CalmInjection ==
  ASSUME LabInv, Calm, NEW r \in Request, req[r].pc = "injecting"
  PROVE  /\ \A q \in Request \ {r} : ~Busy(q)
         /\ \A a \in Asset : active[a] = None
         /\ wire[r] # NoControl => \A a \in Asset : sim[a] = None
         /\ \A a \in Asset : sim[a] \in {None, req[r].scenario}
<1>1. /\ OneHandler /\ OneFaultAtATime /\ SimulatorKnown /\ ~overlapped
  BY DEF LabInv, Calm, Inv, Undisturbed
<1>2. \A q \in Request \ {r} : ~Busy(q)
  BY <1>1 DEF OneHandler, Busy
<1>3. \A a \in Asset : active[a] = None
  BY <1>1 DEF OneFaultAtATime
<1> QED
  BY <1>1, <1>2, <1>3 DEF SimulatorKnown, Busy

\* A step that leaves faults, beliefs and unnoted injections alone at most
\* excuses the lab.
LEMMA OnlyExcuses ==
  ASSUME UNCHANGED <<sim, active>>, Unnoted' = Unnoted,
         overlapped \/ disturbed => overlapped' \/ disturbed',
         overlapped \in BOOLEAN, disturbed \in BOOLEAN,
         overlapped' \in BOOLEAN, disturbed' \in BOOLEAN
  PROVE  [Incidents!Next]_(Incidents!vars)
<1>1. CASE overlapped' \/ disturbed'
  BY <1>1 DEF Incidents!Next, Incidents!Excuse
<1>2. CASE ~(overlapped' \/ disturbed')
  BY <1>2 DEF Incidents!vars
<1> QED
  BY <1>1, <1>2

LEMMA StartExcuses ==
  ASSUME LabInv, NEW r \in Request, Accept(r), NEW op \in {"run", "reset"},
         NEW s \in Scenario \cup {None}, op = "run" => s \in Scenario,
         Proceed(r, op, s, Snapshot)
  PROVE  [Incidents!Next]_(Incidents!vars)
<1>1. Proceeded(r, op, s, Snapshot)
  BY ProceedUpdate DEF Snapshot, LabInv, Inv
<1>2. Unnoted' = Unnoted
  BY <1>1 DEF Unnoted, Proceeded, Accept, Busy
<1> QED
  BY <1>2, OnlyExcuses DEF Accept, LabInv, Inv, TypeOK

LEMMA ClearedForgets ==
  ASSUME LabInv, NEW r \in Request, Cleared(r)
  PROVE  [Incidents!Next]_(Incidents!vars)
<1>1. /\ req[r].op \in {"run", "reset"} /\ req[r].scenario \in Scenario \cup {None}
      /\ req[r].todo \in SUBSET Asset /\ req[r].at \in Asset
      /\ (req[r].op = "run" => req[r].scenario \in Scenario)
      /\ req[r].pc = "clearing" /\ wire[r] = NoControl
  BY DEF Cleared, LabInv, Inv, TypeOK, Handler, CommandsMatch, Busy
<1>2. Proceeded(r, req[r].op, req[r].scenario, req[r].todo)
  BY <1>1, ProceedUpdate DEF Cleared, LabInv, Inv
<1>3. Unnoted' = Unnoted
  BY <1>1, <1>2 DEF Unnoted, Proceeded
<1>4. Calm => sim[req[r].at] = None
  BY <1>1 DEF Calm, LabInv, Undisturbed, SimulatorKnown
<1>5. Incidents!Forget(req[r].at)
  BY <1>1, <1>3, <1>4 DEF Incidents!Forget, Cleared, Calm, history
<1> QED
  BY <1>1, <1>5 DEF Incidents!Next

LEMMA PerformStrikesOrHeals ==
  ASSUME LabInv, NEW r \in Request, Perform(r)
  PROVE  [Incidents!Next]_(Incidents!vars)
<1>1. /\ wire[r] # NoControl /\ wire[r].asset \in Asset
      /\ wire[r].fault \in Scenario \cup {None}
      /\ UNCHANGED <<active, req, overlapped, disturbed>>
      /\ wire'[r] = NoControl /\ \A q \in Request \ {r} : wire'[q] = wire[q]
      /\ sim' = [sim EXCEPT ![wire[r].asset] = wire[r].fault]
  BY DEF Perform, LabInv, Inv, TypeOK, Control
<1>2. CASE req[r].pc = "injecting"
  <2> DEFINE w == [asset |-> req[r].at, fault |-> req[r].scenario]
             s == req[r].scenario
  <2>1. wire[r] = w /\ req[r].at = Target[s] /\ s \in Scenario
    BY <1>1, <1>2 DEF LabInv, Inv, CommandsMatch, OnTarget, Busy
  <2>2. wire[r].asset = Target[s] /\ wire[r].fault = s
    BY <2>1
  <2>3. Unnoted' = Unnoted \cup {s}
    BY <1>1, <1>2 DEF Unnoted
  <2>4. ASSUME Calm
        PROVE  sim = Incidents!Nothing /\ active = Incidents!Nothing /\ Unnoted = {}
    <3>1. /\ \A a \in Asset : active[a] = None /\ sim[a] = None
          /\ \A q \in Request \ {r} : ~Busy(q)
      BY <1>1, <1>2, <2>4, CalmInjection
    <3>2. sim = Incidents!Nothing /\ active = Incidents!Nothing
      BY <3>1 DEF Incidents!Nothing, LabInv, Inv, TypeOK
    <3>3. Unnoted = {}
      BY <1>1, <3>1 DEF Unnoted, Busy
    <3> QED
      BY <3>2, <3>3
  <2>5. Incidents!Strike(s)
    BY <1>1, <2>2, <2>3, <2>4 DEF Incidents!Strike, Calm
  <2> QED
    BY <2>1, <2>5 DEF Incidents!Next
<1>3. CASE req[r].pc # "injecting"
  <2>1. Unnoted' = Unnoted
    BY <1>1, <1>3 DEF Unnoted
  <2>2. CASE wire[r].fault = None
    <3>1. Incidents!Heal(wire[r].asset)
      BY <1>1, <2>1, <2>2 DEF Incidents!Heal
    <3> QED
      BY <1>1, <3>1 DEF Incidents!Next
  <2>3. CASE wire[r].fault # None
    <3>1. wire[r].fault \in Scenario /\ wire[r].asset = Target[wire[r].fault]
      BY <1>1, <2>3 DEF LabInv, OnTarget
    <3>2. ~Calm
      <4> SUFFICES ASSUME Calm
                   PROVE  FALSE
        OBVIOUS
      <4> DEFINE w == [asset |-> req[r].at, fault |-> None]
      <4>1. wire[r] = w
        BY <1>1, <1>3 DEF LabInv, Undisturbed, Calm, WiresAreServed, Busy
      <4> QED
        BY <2>3, <4>1
    <3>3. Incidents!Strike(wire[r].fault)
      BY <1>1, <2>1, <3>1, <3>2 DEF Incidents!Strike, Calm
    <3> QED
      BY <3>1, <3>3 DEF Incidents!Next
  <2> QED
    BY <2>2, <2>3
<1> QED
  BY <1>2, <1>3

LEMMA InjectedNotes ==
  ASSUME LabInv, NEW r \in Request, Injected(r)
  PROVE  [Incidents!Next]_(Incidents!vars)
<1> DEFINE s == req[r].scenario
<1>1. /\ req[r].pc = "injecting" /\ wire[r] = NoControl
      /\ active' = [active EXCEPT ![req[r].at] = s]
      /\ UNCHANGED <<wire, sim, overlapped, disturbed>>
      /\ req'[r].pc = "done" /\ \A q \in Request \ {r} : req'[q] = req[q]
  BY DEF Injected, history, LabInv, Inv, TypeOK, Handler
<1>2. s \in Scenario /\ req[r].at = Target[s] /\ s \in Unnoted
  BY <1>1 DEF LabInv, Inv, CommandsMatch, OnTarget, Busy, Unnoted
<1>3. Unnoted' = Unnoted \ {s} \/ Unnoted' = Unnoted
  <2>1. CASE \E q \in Request \ {r} : req[q].pc = "injecting" /\ wire[q] = NoControl
                                      /\ req[q].scenario = s
    <3>1. Unnoted' = Unnoted
      BY <1>1, <2>1 DEF Unnoted
    <3> QED
      BY <3>1
  <2>2. CASE ~\E q \in Request \ {r} : req[q].pc = "injecting" /\ wire[q] = NoControl
                                       /\ req[q].scenario = s
    <3>1. Unnoted' = Unnoted \ {s}
      BY <1>1, <2>2 DEF Unnoted
    <3> QED
      BY <3>1
  <2> QED
    BY <2>1, <2>2
<1>4. ASSUME Calm
      PROVE  active = Incidents!Nothing /\ Unnoted' = Unnoted \ {s}
  <2>1. (\A a \in Asset : active[a] = None) /\ (\A q \in Request \ {r} : ~Busy(q))
    BY <1>1, <1>4, CalmInjection
  <2>2. active = Incidents!Nothing
    BY <2>1 DEF Incidents!Nothing, LabInv, Inv, TypeOK
  <2>3. Unnoted = {s} /\ Unnoted' = {}
    BY <1>1, <2>1 DEF Unnoted, Busy
  <2> QED
    BY <2>2, <2>3
<1>5. Incidents!Note(s)
  BY <1>1, <1>2, <1>3, <1>4 DEF Incidents!Note, Calm
<1> QED
  BY <1>2, <1>5 DEF Incidents!Next

LEMMA FailureExcuses ==
  ASSUME LabInv,
         \/ \E r \in Request : Raise(r)
         \/ OrchestratorRestart
         \/ SimulatorRestart
  PROVE  [Incidents!Next]_(Incidents!vars)
<1> USE DEF LabInv, Inv, TypeOK
<1>1. /\ Unnoted' \subseteq Unnoted
      /\ sim' \in {sim, Incidents!Nothing} /\ active' \in {active, Incidents!Nothing}
  <2>1. ASSUME NEW r \in Request, Raise(r)
        PROVE  Unnoted' \subseteq Unnoted /\ UNCHANGED <<sim, active>>
    <3>1. /\ req'[r].pc = "failed"
          /\ \A q \in Request \ {r} : req'[q] = req[q] /\ wire'[q] = wire[q]
      BY <2>1 DEF Raise, Handler
    <3> QED
      BY <2>1, <3>1 DEF Raise, Unnoted
  <2>2. CASE OrchestratorRestart \/ SimulatorRestart
    <3>1. \A r \in Request : req'[r].pc # "injecting"
      BY <2>2 DEF OrchestratorRestart, SimulatorRestart, Handler, Busy
    <3>2. Unnoted' = {}
      BY <3>1 DEF Unnoted
    <3> QED
      BY <2>2, <3>2 DEF OrchestratorRestart, SimulatorRestart, Incidents!Nothing
  <2> QED
    BY <2>1, <2>2
<1>2. (overlapped' \/ disturbed') = TRUE
  BY DEF Raise, OrchestratorRestart, SimulatorRestart
<1>3. Incidents!Excuse
  BY <1>1, <1>2 DEF Incidents!Excuse
<1> QED
  BY <1>3 DEF Incidents!Next

LEMMA StepImplements ==
  ASSUME LabInv, [Next]_vars
  PROVE  [Incidents!Next]_(Incidents!vars)
<1>1. ASSUME NEW r \in Request, RunNext(r)
      PROVE  [Incidents!Next]_(Incidents!vars)
  BY <1>1, StartExcuses DEF RunNext, Candidates
<1>2. ASSUME NEW r \in Request, \/ Reset(r)
                                \/ \E s \in Scenario : RunSpecific(r, s)
      PROVE  [Incidents!Next]_(Incidents!vars)
  BY <1>2, StartExcuses DEF RunSpecific, Reset
<1>3. ASSUME NEW a \in Asset, Remediate(a)
      PROVE  [Incidents!Next]_(Incidents!vars)
  <2>1. Unnoted' = Unnoted
    BY <1>3 DEF Remediate, Unnoted
  <2>2. Incidents!Heal(a)
    BY <1>3, <2>1 DEF Remediate, history, Incidents!Heal
  <2> QED
    BY <2>2 DEF Incidents!Next
<1>4. CASE UNCHANGED vars
  <2>1. Unnoted' = Unnoted
    BY <1>4 DEF vars, Unnoted
  <2> QED
    BY <1>4, <2>1 DEF vars, history, Incidents!vars
<1> QED
  BY <1>1, <1>2, <1>3, <1>4, ClearedForgets, InjectedNotes, PerformStrikesOrHeals,
     FailureExcuses DEF Next, Handle

LEMMA KnownIsOneIncident ==
  ASSUME LabInv
  PROVE  Incidents!OneIncident
<1> SUFFICES ASSUME Calm, NEW s \in Scenario, NEW t \in Scenario,
                    Incidents!Named(s), Incidents!Named(t)
             PROVE  s = t
  BY DEF Incidents!OneIncident, Calm
<1>1. Target[s] \in Asset /\ Target[t] \in Asset /\ s # None /\ t # None
  BY InjectionAssumption
<1>2. CASE \E r \in Request : req[r].pc = "injecting"
  <2>1. PICK r \in Request : req[r].pc = "injecting"
    BY <1>2
  <2>2. /\ \A q \in Request \ {r} : ~Busy(q)
        /\ \A a \in Asset : active[a] = None
        /\ \A a \in Asset : sim[a] \in {None, req[r].scenario}
    BY <2>1, CalmInjection
  <2>3. Unnoted \subseteq {req[r].scenario}
    BY <2>2 DEF Unnoted, Busy
  <2>4. ASSUME NEW u \in Scenario, Incidents!Named(u)
        PROVE  u = req[r].scenario
    BY <2>2, <2>3, <2>4, InjectionAssumption DEF Incidents!Named
  <2> QED
    BY <2>4
<1>3. CASE \A r \in Request : req[r].pc # "injecting"
  <2>1. Unnoted = {}
    BY <1>3 DEF Unnoted
  <2>2. \A a \in Asset : sim[a] \in {None, active[a]}
    BY <1>3 DEF LabInv, Undisturbed, Calm, SimulatorKnown
  <2>3. ASSUME NEW u \in Scenario, Incidents!Named(u)
        PROVE  active[Target[u]] = u
    BY <2>1, <2>2, <2>3, InjectionAssumption DEF Incidents!Named
  <2>4. active[Target[s]] = s /\ active[Target[t]] = t
    BY <2>3
  <2>5. Target[s] = Target[t]
    BY <1>1, <2>4 DEF LabInv, Inv, OneFaultAtATime, Calm
  <2> QED
    BY <2>4, <2>5
<1> QED
  BY <1>2, <1>3

-----------------------------------------------------------------------------
\* The variables of Orchestrator and Simulator keep their types.
THEOREM TypeCorrect == Spec => []TypeOK
BY InvHolds, PTL DEF Inv

\* With requests one at a time the lab never believes in two faults, nor
\* injects a second while one is active, for any pack, any number of failed
\* requests and restarts.
THEOREM SequentialRunsKeepOneFault == Spec => []OneFaultAtATime
BY InvHolds, PTL DEF Inv

\* What the Orchestrator believes active was held by the Simulator, however
\* requests overlap and whatever is lost.
THEOREM BeliefIsJustified == Spec => []BeliefWasHeld
BY InvHolds, PTL DEF Inv

\* Before any overlap, loss or restart the Simulator never holds a fault
\* that the quiet Orchestrator does not know, for any pack and number of
\* requests.
THEOREM SimulatorIsKnown == Spec => []KnownFaultsOnly
<1>1. Init => Undisturbed
  BY DEF Init, Undisturbed, WiresAreServed, SimulatorKnown
<1>2. Inv /\ Undisturbed /\ [Next]_vars => Undisturbed'
  BY StepKnown
<1>3. Undisturbed => KnownFaultsOnly
  BY DEF Undisturbed, SimulatorKnown, KnownFaultsOnly, Quiet, Busy
<1> QED
  BY <1>1, <1>2, <1>3, InvHolds, PTL DEF Spec

\* Handlers that interleave, are lost and are restarted implement the
\* abstract lab, where an incident is one step and comes after the last.
THEOREM IncidentsImplemented == Spec => ImplementsIncidents
<1>1. Init => Incidents!Init
  BY DEF Init, Incidents!Init, Incidents!Nothing, Unnoted
<1>2. LabInv /\ [Next]_vars => [Incidents!Next]_(Incidents!vars)
  BY StepImplements
<1> QED
  BY <1>1, <1>2, LabInvHolds, PTL DEF Spec, ImplementsIncidents, Incidents!Spec

\* The abstract lab's promise, for the handlers: before any overlap, loss or
\* restart no two scenarios are ever held, being noted, or believed active.
THEOREM LabHasOneIncident == Spec => []Incidents!OneIncident
BY LabInvHolds, KnownIsOneIncident, PTL
=============================================================================
