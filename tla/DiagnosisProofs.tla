--------------------------- MODULE DiagnosisProofs ---------------------------
(***************************************************************************)
(* Proofs about Diagnosis, for any number of scenarios, assets, request    *)
(* slots and directories.  What the services do keeps the invariants of    *)
(* FaultInjectionProofs; on top of them NewsFits says that the scenario    *)
(* the Orchestrator names, or is about to name, on an asset the turn saw   *)
(* faulted was held by the Simulator during the turn.  The theorems on    *)
(* the knowledge base rest on the last of a set of files being one of it.  *)
(***************************************************************************)
EXTENDS Diagnosis, WellFoundedInduction, TLAPS

Known == INSTANCE FaultInjectionProofs

Calm == ~overlapped /\ ~disturbed

\* What a turn has read, and the moments it is about.
Watched == turn.step # "idle" => \A a \in Asset : sim[a] \in was[a]

ReadingsHeld ==
  /\ turn.step = "idle" => turn = Idle
  /\ \A a \in Asset :
       /\ turn.seen[a] = "faulted" => \E s \in was[a] : s # None
       /\ turn.seen[a] = "healthy" => None \in was[a]

\* The Simulator has performed the injection, its answer is not noted yet.
Performed(r) == req[r].pc = "injecting" /\ wire[r] = Lab!NoControl

NewsFits ==
  Calm =>
    \A a \in Asset : turn.seen[a] = "faulted" =>
      /\ active[a] # None => active[a] \in was[a]
      /\ \A r \in Request : Performed(r) /\ req[r].at = a => req[r].scenario \in was[a]

LogsOfTurn == turn.logs # None => turn.asset \in Asset /\ turn.step \notin {"idle", "assets"}

LabInv == Known!Inv /\ Known!Undisturbed

Inv == TypeOK /\ LabInv /\ Watched /\ ReadingsHeld /\ NewsFits /\ LogsOfTurn /\ LogsFitFault

-----------------------------------------------------------------------------
(* What the services do, as FaultInjectionProofs knows it                  *)

LEMMA SameLab ==
  /\ Lab!Init = Known!Init
  /\ Lab!Next = Known!Next
  /\ Lab!TypeOK = Known!TypeOK
  /\ Lab!TypeOK' = Known!TypeOK'
<1>1. Lab!Init = Known!Init
  BY DEF Lab!Init, Known!Init, Lab!NoControl, Known!NoControl
<1>2. Lab!TypeOK = Known!TypeOK /\ Lab!TypeOK' = Known!TypeOK'
  BY DEF Lab!TypeOK, Known!TypeOK, Lab!Handler, Known!Handler, Lab!Control, Known!Control,
     Lab!NoControl, Known!NoControl
<1>3. Lab!Next = Known!Next
  BY DEF Lab!Next, Known!Next, Lab!RunNext, Known!RunNext, Lab!RunSpecific, Known!RunSpecific,
     Lab!Reset, Known!Reset, Lab!Perform, Known!Perform, Lab!Handle, Known!Handle,
     Lab!Remediate, Known!Remediate, Lab!OrchestratorRestart, Known!OrchestratorRestart,
     Lab!SimulatorRestart, Known!SimulatorRestart, Lab!Accept, Known!Accept,
     Lab!Proceed, Known!Proceed, Lab!Cleared, Known!Cleared, Lab!Injected, Known!Injected,
     Lab!Raise, Known!Raise, Lab!Candidates, Known!Candidates, Lab!Busy, Known!Busy,
     Lab!Snapshot, Known!Snapshot, Lab!history, Known!history, Lab!NoControl, Known!NoControl
<1> QED
  BY <1>1, <1>2, <1>3

LEMMA LabKeeps ==
  ASSUME LabInv, LabStep \/ UNCHANGED labVars
  PROVE  LabInv'
<1>1. [Known!Next]_(Known!vars)
  <2>1. CASE LabStep
    BY <2>1, SameLab DEF LabStep
  <2>2. CASE UNCHANGED labVars
    BY <2>2 DEF labVars, Known!vars, Known!history
  <2> QED
    BY <2>1, <2>2
<1>2. Known!InjectionAssumption
  BY LabAssumption DEF Lab!InjectionAssumption, Known!InjectionAssumption
<1>3. Known!Inv'
  BY <1>1, <1>2, Known!StepSafe DEF LabInv
<1>4. Known!Undisturbed'
  BY <1>1, <1>2, Known!StepKnown DEF LabInv
<1> QED
  BY <1>3, <1>4 DEF LabInv

-----------------------------------------------------------------------------
(* The news of a scenario reach the Orchestrator while the turn goes on    *)

\* After a step of the services that names or performs nothing new.
LEMMA NoNews ==
  ASSUME NewsFits, LabStep, Calm' => Calm,
         \A a \in Asset : active'[a] # None => active'[a] = active[a],
         \A r \in Request : Performed(r)' => Performed(r) /\ req'[r].at = req[r].at
                                                          /\ req'[r].scenario = req[r].scenario
  PROVE  NewsFits'
BY DEF NewsFits, LabStep

LEMMA StartTellsNothing ==
  ASSUME Inv, LabStep, NEW r \in Request, Known!Accept(r), NEW op \in {"run", "reset"},
         NEW s \in Scenario \cup {None}, op = "run" => s \in Scenario,
         Known!Proceed(r, op, s, Known!Snapshot)
  PROVE  NewsFits'
<1>1. Known!Proceeded(r, op, s, Known!Snapshot)
  <2>1. Known!Snapshot \in SUBSET Asset
    BY DEF Known!Snapshot
  <2> QED
    BY <2>1, Known!ProceedUpdate, LabAssumption
       DEF Inv, LabInv, Known!Inv, Lab!InjectionAssumption, Known!InjectionAssumption
<1>2. /\ UNCHANGED active /\ (Calm' => Calm)
      /\ \A q \in Request \ {r} : req'[q] = req[q] /\ wire'[q] = wire[q]
  BY <1>1 DEF Known!Accept, Known!Proceeded, Calm, Inv, LabInv, Known!Inv, Known!TypeOK
<1>3. ~Performed(r)'
  BY <1>1 DEF Known!Proceeded, Performed, Lab!NoControl, Known!NoControl
<1> QED
  BY <1>2, <1>3, NoNews DEF Performed, Inv

LEMMA ClearedTellsNothing ==
  ASSUME Inv, LabStep, NEW r \in Request, Known!Cleared(r)
  PROVE  NewsFits'
<1>1. /\ req[r].op \in {"run", "reset"} /\ req[r].scenario \in Scenario \cup {None}
      /\ req[r].todo \in SUBSET Asset /\ req[r].at \in Asset
      /\ (req[r].op = "run" => req[r].scenario \in Scenario)
  BY DEF Known!Cleared, Inv, LabInv, Known!Inv, Known!TypeOK, Known!Handler,
     Known!CommandsMatch, Known!Busy
<1>2. Known!Proceeded(r, req[r].op, req[r].scenario, req[r].todo)
  BY <1>1, Known!ProceedUpdate, LabAssumption
     DEF Inv, LabInv, Known!Inv, Known!Cleared, Lab!InjectionAssumption, Known!InjectionAssumption
<1>3. /\ \A a \in Asset : active'[a] # None => active'[a] = active[a]
      /\ Calm' => Calm
      /\ \A q \in Request \ {r} : req'[q] = req[q] /\ wire'[q] = wire[q]
  BY <1>2 DEF Known!Cleared, Known!Proceeded, Known!history, Calm, Inv, LabInv, Known!Inv,
     Known!TypeOK
<1>4. ~Performed(r)'
  BY <1>2 DEF Known!Proceeded, Performed, Lab!NoControl, Known!NoControl
<1> QED
  BY <1>3, <1>4, NoNews DEF Performed, Inv

\* What the Orchestrator notes was performed before.
LEMMA InjectedTellsPerformed ==
  ASSUME Inv, LabStep, NEW r \in Request, Known!Injected(r)
  PROVE  NewsFits'
<1> SUFFICES ASSUME Calm', NEW a \in Asset, turn.seen[a] = "faulted"
             PROVE  /\ active'[a] # None => active'[a] \in was'[a]
                    /\ \A q \in Request : Performed(q)' /\ req'[q].at = a =>
                         req'[q].scenario \in was'[a]
  BY DEF NewsFits, LabStep
<1>1. /\ Performed(r) /\ Calm
      /\ active'[a] = IF a = req[r].at THEN req[r].scenario ELSE active[a]
      /\ req'[r].pc = "done" /\ \A q \in Request \ {r} : req'[q] = req[q]
      /\ UNCHANGED wire
  BY DEF Known!Injected, Known!history, Performed, Calm, Inv, LabInv, Known!Inv, Known!TypeOK,
     Known!Handler, Lab!NoControl, Known!NoControl
<1>2. was[a] \subseteq was'[a]
  BY DEF LabStep
<1>3. /\ active[a] # None => active[a] \in was[a]
      /\ \A q \in Request : Performed(q) /\ req[q].at = a => req[q].scenario \in was[a]
  BY <1>1 DEF Inv, NewsFits
<1>4. \A q \in Request : Performed(q)' => Performed(q) /\ req'[q] = req[q]
  BY <1>1 DEF Performed
<1> QED
  BY <1>1, <1>2, <1>3, <1>4

\* What the Simulator performs it holds, during the turn.
LEMMA PerformHeld ==
  ASSUME Inv, LabStep, NEW r \in Request, Known!Perform(r)
  PROVE  NewsFits'
<1> SUFFICES ASSUME Calm', NEW a \in Asset, turn.seen[a] = "faulted"
             PROVE  /\ active'[a] # None => active'[a] \in was'[a]
                    /\ \A q \in Request : Performed(q)' /\ req'[q].at = a =>
                         req'[q].scenario \in was'[a]
  BY DEF NewsFits, LabStep
<1>1. /\ Calm /\ UNCHANGED <<active, req>>
      /\ \A q \in Request \ {r} : wire'[q] = wire[q]
      /\ sim' = [sim EXCEPT ![wire[r].asset] = wire[r].fault]
      /\ wire[r] # Known!NoControl
  BY DEF Known!Perform, Calm, Inv, LabInv, Known!Inv, Known!TypeOK
<1>5. turn.step # "idle"
  BY DEF Inv, ReadingsHeld, Idle
<1>2. was[a] \subseteq was'[a] /\ sim'[a] \in was'[a]
  BY <1>5 DEF LabStep
<1>3. /\ active[a] # None => active[a] \in was[a]
      /\ \A q \in Request : Performed(q) /\ req[q].at = a => req[q].scenario \in was[a]
  BY <1>1 DEF Inv, NewsFits
<1>4. ASSUME req[r].pc = "injecting", req[r].at = a
      PROVE  sim'[a] = req[r].scenario
  <2> DEFINE w == [asset |-> req[r].at, fault |-> req[r].scenario]
  <2>1. wire[r] = w
    BY <1>1, <1>4 DEF Inv, LabInv, Known!Inv, Known!CommandsMatch
  <2>2. wire[r].asset = a /\ wire[r].fault = req[r].scenario
    BY <2>1, <1>4
  <2> QED
    BY <1>1, <2>2 DEF Inv, LabInv, Known!Inv, Known!TypeOK
<1> QED
  BY <1>1, <1>2, <1>3, <1>4 DEF Performed

LEMMA NewsStay ==
  ASSUME Inv, LabStep
  PROVE  NewsFits'
<1>0. Known!Next
  BY SameLab DEF LabStep
<1>1. ASSUME NEW r \in Request, Known!RunNext(r)
      PROVE  NewsFits'
  <2>1. PICK s \in Known!Candidates : Known!Proceed(r, "run", s, Known!Snapshot)
    BY <1>1 DEF Known!RunNext
  <2>2. s \in Scenario
    BY <2>1 DEF Known!Candidates
  <2> QED
    BY <1>1, <2>1, <2>2, StartTellsNothing DEF Known!RunNext
<1>2. ASSUME NEW r \in Request, \/ Known!Reset(r)
                                \/ \E s \in Scenario : Known!RunSpecific(r, s)
      PROVE  NewsFits'
  BY <1>2, StartTellsNothing DEF Known!RunSpecific, Known!Reset
<1>3. ASSUME NEW a \in Asset, Known!Remediate(a)
      PROVE  NewsFits'
  BY <1>3, NoNews DEF Known!Remediate, Known!history, Performed, Calm, Inv
<1>4. CASE \/ Known!OrchestratorRestart \/ Known!SimulatorRestart
           \/ \E r \in Request : Known!Raise(r)
  BY <1>4 DEF Known!OrchestratorRestart, Known!SimulatorRestart, Known!Raise, NewsFits, Calm
<1> QED
  BY <1>0, <1>1, <1>2, <1>3, <1>4, ClearedTellsNothing, InjectedTellsPerformed, PerformHeld
     DEF Known!Next, Known!Handle

-----------------------------------------------------------------------------
(* What the turn does                                                      *)

\* In a calm run whatever the Simulator holds is what the Orchestrator names
\* on that asset, or is about to name.
LEMMA NewsAtStart ==
  ASSUME LabInv, Calm, NEW a \in Asset, sim[a] # None
  PROVE  /\ active[a] # None => active[a] = sim[a]
         /\ \A r \in Request : Performed(r) /\ req[r].at = a => req[r].scenario = sim[a]
<1>1. Known!SimulatorKnown
  BY DEF LabInv, Calm, Known!Undisturbed
<1>2. \A q, r \in Request : Performed(q) /\ Performed(r) => q = r
  BY DEF LabInv, Known!Inv, Known!OneHandler, Known!Busy, Performed, Calm
<1>3. \A r \in Request : Performed(r) => active[a] = None
  BY DEF LabInv, Known!Inv, Known!OneFaultAtATime, Performed, Calm
<1>4. \/ sim[a] = active[a]
      \/ \E r \in Request : Performed(r) /\ req[r].at = a /\ sim[a] = req[r].scenario
  BY <1>1 DEF Known!SimulatorKnown, Performed, Lab!NoControl, Known!NoControl
<1> QED
  BY <1>2, <1>3, <1>4

LEMMA CalmBefore ==
  ASSUME Inv, LabStep, Calm'
  PROVE  Calm
<1>1. Known!Next
  BY SameLab DEF LabStep
<1>2. overlapped \in BOOLEAN /\ disturbed \in BOOLEAN
  BY DEF Inv, LabInv, Known!Inv, Known!TypeOK
<1>3. ASSUME NEW r \in Request, Known!Accept(r)
      PROVE  Calm
  BY <1>2, <1>3 DEF Known!Accept, Calm
<1>4. ASSUME NEW r \in Request, Known!Perform(r) \/ Known!Cleared(r) \/ Known!Injected(r)
      PROVE  Calm
  BY <1>4 DEF Known!Perform, Known!Cleared, Known!Injected, Known!history, Calm
<1>5. ASSUME NEW a \in Asset, Known!Remediate(a)
      PROVE  Calm
  BY <1>5 DEF Known!Remediate, Known!history, Calm
<1> QED
  BY <1>1, <1>3, <1>4, <1>5
     DEF Known!Next, Known!RunNext, Known!RunSpecific, Known!Reset, Known!Handle, Known!Raise,
         Known!OrchestratorRestart, Known!SimulatorRestart, Calm

\* What the Simulator has held it has held, and the turn remembers.
LEMMA HistoryGrows ==
  ASSUME LabStep
  PROVE  held \subseteq held' /\ \A a \in Asset : was[a] \subseteq was'[a]
<1>1. held \subseteq held'
  <2>1. Known!Next
    BY SameLab DEF LabStep
  <2> QED
    BY <2>1 DEF Known!Next, Known!RunNext, Known!RunSpecific, Known!Reset, Known!Accept,
       Known!Perform, Known!Handle, Known!Cleared, Known!Injected, Known!Raise, Known!Remediate,
       Known!OrchestratorRestart, Known!SimulatorRestart, Known!history
<1> QED
  BY <1>1 DEF LabStep

LEMMA ServicesKeep ==
  ASSUME Inv, LabStep
  PROVE  Inv'
<1>1. LabInv'
  BY LabKeeps DEF Inv
<1>2. TypeOK'
  <2>1. Lab!TypeOK'
    BY <1>1, SameLab DEF LabInv, Known!Inv
  <2>2. sim' \in [Asset -> Scenario \cup {None}]
    BY <2>1 DEF Lab!TypeOK
  <2> QED
    BY <2>1, <2>2 DEF Inv, TypeOK, LabStep, Turn
<1>3. Watched' /\ ReadingsHeld' /\ LogsOfTurn'
  BY DEF Inv, Watched, ReadingsHeld, LogsOfTurn, LabStep
<1>4. LogsFitFault'
  <2>1. SUFFICES ASSUME turn.logs # None
                 PROVE  /\ <<turn.asset, turn.logs>> \in held'
                        /\ Calm' /\ turn.seen[turn.asset] = "faulted" =>
                             turn.logs \in was'[turn.asset]
    BY DEF LogsFitFault, LabStep, Calm
  <2>2. turn.asset \in Asset
    BY <2>1 DEF Inv, LogsOfTurn
  <2> QED
    BY <2>1, <2>2, CalmBefore, HistoryGrows DEF Inv, LogsFitFault, Calm
<1> QED
  BY <1>1, <1>2, <1>3, <1>4, NewsStay DEF Inv

LEMMA TurnTyped ==
  ASSUME Inv, turn' \in Turn, UNCHANGED <<labVars, dir, stack>>,
         \/ UNCHANGED was
         \/ was' = [a \in Asset |-> {sim[a]}]
  PROVE  TypeOK'
<1>1. Lab!TypeOK'
  BY LabKeeps, SameLab DEF Inv, LabInv, Known!Inv
<1>2. sim \in [Asset -> Scenario \cup {None}]
  BY DEF Inv, TypeOK, Lab!TypeOK
<1> QED
  BY <1>1, <1>2 DEF Inv, TypeOK, Turn

LEMMA IdleIsTurn == Idle \in Turn
BY DEF Idle, Turn

\* A turn begins with what the Simulator holds at that moment.
LEMMA BeginKeeps ==
  ASSUME Inv, NEW next, Begin(next), next.step \notin {"idle"}, next.logs = None,
         TypeOK',
         \A a \in Asset : /\ next.seen[a] = "faulted" => sim[a] # None
                          /\ next.seen[a] = "healthy" => sim[a] = None
  PROVE  Inv'
<1>1. /\ turn' = next /\ UNCHANGED labVars
      /\ \A a \in Asset : was'[a] = {sim[a]}
  BY DEF Begin
<1>2. LabInv'
  BY <1>1, LabKeeps DEF Inv
<1>3. Watched' /\ ReadingsHeld' /\ LogsOfTurn' /\ LogsFitFault'
  BY <1>1 DEF Watched, ReadingsHeld, LogsOfTurn, LogsFitFault, labVars
<1>4. NewsFits'
  <2> SUFFICES ASSUME Calm, NEW a \in Asset, sim[a] # None
               PROVE  /\ active[a] # None => active[a] = sim[a]
                      /\ \A r \in Request :
                           Performed(r) /\ req[r].at = a => req[r].scenario = sim[a]
    BY <1>1 DEF NewsFits, Performed, Calm, labVars
  <2> QED
    BY NewsAtStart DEF Inv
<1> QED
  BY <1>2, <1>3, <1>4 DEF Inv

\* Another tool answers within the turn, or as its first one.
LEMMA AnswerKeeps ==
  ASSUME Inv, NEW next, Answer(next), next.step \notin {"idle", "assets"},
         next.seen = turn.seen, TypeOK',
         next.logs # None =>
           /\ next.asset \in Asset /\ <<next.asset, next.logs>> \in held
           /\ Calm /\ turn.seen[next.asset] = "faulted" => next.logs \in was[next.asset]
  PROVE  Inv'
<1>1. turn' = next /\ UNCHANGED labVars
  BY DEF Answer
<1>2. LabInv'
  BY <1>1, LabKeeps DEF Inv
<1>3. \A a \in Asset : turn.seen[a] # "unread" => turn.step # "idle"
  BY DEF Inv, ReadingsHeld, Idle
<1>4. \A a \in Asset : /\ sim[a] \in was'[a]
                       /\ turn.seen[a] # "unread" => was'[a] = was[a]
  BY <1>3 DEF Answer, Inv, Watched
<1>5. Watched' /\ ReadingsHeld'
  BY <1>1, <1>4 DEF Inv, Watched, ReadingsHeld, labVars
<1>6. NewsFits'
  BY <1>1, <1>4 DEF Inv, NewsFits, Performed, Calm, labVars
<1>7. LogsOfTurn' /\ LogsFitFault'
  BY <1>1, <1>4 DEF LogsOfTurn, LogsFitFault, Calm, labVars
<1> QED
  BY <1>2, <1>5, <1>6, <1>7 DEF Inv

LEMMA ListAssetsKeeps ==
  ASSUME Inv, ListAssets
  PROVE  Inv'
<1> DEFINE next == IF dir.adapter = "generic"
                   THEN [Idle EXCEPT !.step = "viewed", !.seen = [a \in Asset |-> Health(a)]]
                   ELSE [Idle EXCEPT !.step = "assets", !.todo = Asset]
<1>1. Begin(next)
  BY DEF ListAssets
<1>2. /\ next.step \in {"viewed", "assets"} /\ next.logs = None
      /\ \A a \in Asset : /\ next.seen[a] = "faulted" => sim[a] # None
                          /\ next.seen[a] = "healthy" => sim[a] = None
  BY DEF Idle, Health
<1>3. next \in Turn
  BY IdleIsTurn DEF Turn, Idle, Health
<1>4. TypeOK'
  BY <1>1, <1>3, TurnTyped DEF Begin
<1> QED
  BY <1>1, <1>2, <1>4, BeginKeeps

LEMMA GetAssetKeeps ==
  ASSUME Inv, NEW a \in Asset, GetAsset(a)
  PROVE  Inv'
<1> DEFINE next == [Idle EXCEPT !.step = "viewed", !.seen[a] = Health(a)]
<1>1. Begin(next)
  BY DEF GetAsset
<1>2. /\ next.step = "viewed" /\ next.logs = None
      /\ \A b \in Asset : /\ next.seen[b] = "faulted" => sim[b] # None
                          /\ next.seen[b] = "healthy" => sim[b] = None
  BY DEF Idle, Health
<1>3. next \in Turn
  BY IdleIsTurn DEF Turn, Idle, Health
<1>4. TypeOK'
  BY <1>1, <1>3, TurnTyped DEF Begin
<1> QED
  BY <1>1, <1>2, <1>4, BeginKeeps

LEMMA ListEventsKeeps ==
  ASSUME Inv, NEW asked \in SUBSET Asset, ListEvents(asked)
  PROVE  Inv'
<1> DEFINE next == [Idle EXCEPT !.step = "listed",
                     !.seen = [a \in Asset |-> IF a \in Listed(asked) THEN "faulted" ELSE "unread"]]
<1>1. Begin(next)
  BY DEF ListEvents
<1>2. \A a \in Listed(asked) : sim[a] # None
  BY DEF Listed
<1>3. /\ next.step = "listed" /\ next.logs = None
      /\ \A b \in Asset : /\ next.seen[b] = "faulted" => sim[b] # None
                          /\ next.seen[b] = "healthy" => sim[b] = None
  BY <1>2 DEF Idle
<1>4. next \in Turn
  BY DEF Turn, Idle
<1>5. TypeOK'
  BY <1>1, <1>4, TurnTyped DEF Begin
<1> QED
  BY <1>1, <1>3, <1>5, BeginKeeps

LEMMA ReadAssetKeeps ==
  ASSUME Inv, NEW a \in Asset, ReadAsset(a)
  PROVE  Inv'
<1> DEFINE next == [turn EXCEPT !.seen[a] = Health(a), !.todo = @ \ {a},
                                !.step = IF turn.todo = {a} THEN "viewed" ELSE @]
<1>1. Continue(next) /\ turn.step = "assets"
  BY DEF ReadAsset
<1>2. /\ next.step \in {"viewed", "assets"} /\ next.logs = turn.logs /\ next.asset = turn.asset
      /\ \A b \in Asset : next.seen[b] = IF b = a THEN Health(a) ELSE turn.seen[b]
  BY <1>1 DEF Inv, TypeOK, Turn
<1>3. next \in Turn
  BY <1>1 DEF Inv, TypeOK, Turn, Health
<1>4. TypeOK'
  BY <1>1, <1>3, TurnTyped DEF Continue
<1> HIDE DEF next
<1>5. turn' = next /\ UNCHANGED <<labVars, was>>
  BY <1>1 DEF Continue
<1>6. LabInv'
  BY <1>5, LabKeeps DEF Inv
<1>7. sim[a] \in was[a]
  BY <1>1 DEF Inv, Watched
<1>8. Watched' /\ ReadingsHeld' /\ LogsOfTurn' /\ LogsFitFault'
  <2>1. turn.logs = None
    BY <1>1 DEF Inv, LogsOfTurn
  <2>2. Watched' /\ LogsOfTurn' /\ LogsFitFault'
    BY <1>1, <1>2, <1>5, <2>1 DEF Inv, Watched, LogsOfTurn, LogsFitFault, labVars
  <2>3. ReadingsHeld'
    BY <1>2, <1>5, <1>7 DEF Inv, ReadingsHeld, Health
  <2> QED
    BY <2>2, <2>3
<1>9. NewsFits'
  <2> SUFFICES ASSUME Calm, NEW b \in Asset, next.seen[b] = "faulted"
               PROVE  /\ active[b] # None => active[b] \in was[b]
                      /\ \A q \in Request :
                           Performed(q) /\ req[q].at = b => req[q].scenario \in was[b]
    BY <1>5 DEF NewsFits, Performed, Calm, labVars
  <2>1. CASE b = a
    BY <1>2, <1>7, <2>1, NewsAtStart DEF Inv, Health
  <2>2. CASE b # a
    BY <1>2, <2>2 DEF Inv, NewsFits
  <2> QED
    BY <2>1, <2>2
<1> QED
  BY <1>4, <1>6, <1>8, <1>9 DEF Inv

\* The Orchestrator names what the Simulator has held on the asset, and what
\* it held during the turn if the turn saw the asset faulted.
LEMMA GetBundleKeeps ==
  ASSUME Inv, NEW a \in Asset, GetBundle(a)
  PROVE  Inv'
<1> DEFINE next == Bundle(a, active[a])
<1>1. Answer(next) /\ active[a] # None
  BY DEF GetBundle
<1>2. /\ next.step = "logs" /\ next.logs = active[a] /\ next.asset = a /\ next.seen = turn.seen
      /\ next \in Turn
  BY <1>1 DEF Bundle, Inv, TypeOK, Turn, Lab!TypeOK
<1>3. TypeOK'
  BY <1>1, <1>2, TurnTyped DEF Answer
<1>4. <<a, active[a]>> \in held
  BY <1>1 DEF Inv, LabInv, Known!Inv, Known!BeliefWasHeld
<1>5. Calm /\ turn.seen[a] = "faulted" => active[a] \in was[a]
  BY <1>1 DEF Inv, NewsFits
<1> HIDE DEF next
<1> QED
  BY <1>1, <1>2, <1>3, <1>4, <1>5, AnswerKeeps

LEMMA KbSearchKeeps ==
  ASSUME Inv, NEW signature \in Signature, NEW fallback, KbSearch(signature, fallback)
  PROVE  Inv'
<1>1. PICK articles \in SUBSET dir.kb, via \in {"semantic", "deterministic"} :
             Found(signature, articles, via)
  BY DEF KbSearch, Deterministic
<1> DEFINE missing == [turn EXCEPT !.step = "missing", !.signature = signature,
                                   !.article = None, !.via = via]
           found(k) == [turn EXCEPT !.step = "found", !.signature = signature,
                                    !.article = k, !.via = via]
<1>2. turn \in Turn
  BY DEF Inv, TypeOK
<1>3. ASSUME NEW next \in Turn, Answer(next), next.step \in {"missing", "found"},
             next.logs = turn.logs, next.asset = turn.asset, next.seen = turn.seen
      PROVE  Inv'
  <2>1. TypeOK'
    BY <1>3, TurnTyped DEF Answer
  <2> QED
    BY <1>3, <2>1, AnswerKeeps DEF Inv, LogsOfTurn, LogsFitFault, Calm
<1>4. CASE Answer(missing)
  <2>1. /\ missing \in Turn /\ missing.step = "missing" /\ missing.logs = turn.logs
        /\ missing.asset = turn.asset /\ missing.seen = turn.seen
    BY <1>2 DEF Turn
  <2> QED
    BY <1>3, <1>4, <2>1
<1>5. ASSUME NEW k \in articles, Answer(found(k))
      PROVE  Inv'
  <2>1. /\ found(k) \in Turn /\ found(k).step = "found" /\ found(k).logs = turn.logs
        /\ found(k).asset = turn.asset /\ found(k).seen = turn.seen
    BY <1>2 DEF Turn
  <2> QED
    BY <1>3, <1>5, <2>1
<1> QED
  BY <1>1, <1>4, <1>5 DEF Found

LEMMA EndTurnKeeps ==
  ASSUME Inv, EndTurn
  PROVE  Inv'
<1>1. LabInv'
  BY LabKeeps DEF EndTurn, Inv
<1>2. Watched' /\ ReadingsHeld' /\ LogsOfTurn' /\ LogsFitFault' /\ NewsFits'
  BY DEF EndTurn, Idle, Watched, ReadingsHeld, LogsOfTurn, LogsFitFault, NewsFits
<1>3. Lab!TypeOK'
  BY <1>1, SameLab DEF LabInv, Known!Inv
<1>4. TypeOK'
  BY <1>3, IdleIsTurn DEF EndTurn, Inv, TypeOK, Turn
<1> QED
  BY <1>1, <1>2, <1>4 DEF Inv

LEMMA StillKeeps ==
  ASSUME Inv, StackStarts \/ UNCHANGED vars
  PROVE  Inv'
<1>1. UNCHANGED <<labVars, turn, was, dir>> /\ stack' \in {"down", "up", "refused"}
  BY DEF StackStarts, vars, Inv, TypeOK
<1>2. LabInv' /\ TypeOK'
  BY <1>1, LabKeeps DEF Inv, TypeOK, labVars, Lab!TypeOK, Turn
<1>3. Watched' /\ ReadingsHeld' /\ LogsOfTurn' /\ LogsFitFault' /\ NewsFits'
  BY <1>1 DEF Inv, Watched, ReadingsHeld, LogsOfTurn, LogsFitFault, NewsFits, Performed, Calm, labVars
<1> QED
  BY <1>2, <1>3 DEF Inv

LEMMA InitSafe ==
  ASSUME Init
  PROVE  Inv
<1>1. Known!Init /\ Lab!TypeOK
  BY SameLab, Known!InitSafe, LabAssumption
     DEF Init, Lab!InjectionAssumption, Known!InjectionAssumption, Known!Inv
<1>2. LabInv
  BY <1>1, Known!InitSafe, LabAssumption
     DEF LabInv, Lab!InjectionAssumption, Known!InjectionAssumption, Known!Init,
         Known!Undisturbed, Known!WiresAreServed, Known!SimulatorKnown
<1>3. TypeOK
  BY <1>1, IdleIsTurn DEF Init, TypeOK
<1>4. Watched /\ ReadingsHeld /\ LogsOfTurn /\ LogsFitFault /\ NewsFits
  BY DEF Init, Idle, Watched, ReadingsHeld, LogsOfTurn, LogsFitFault, NewsFits
<1> QED
  BY <1>2, <1>3, <1>4 DEF Inv

LEMMA InvHolds == Spec => []Inv
<1>1. Init => Inv
  BY InitSafe
<1>2. Inv /\ [Next]_vars => Inv'
  <2>1. Asset \in SUBSET Asset /\ \A a \in Asset : {a} \in SUBSET Asset
    OBVIOUS
  <2> QED
    BY <2>1, ServicesKeep, ListAssetsKeeps, GetAssetKeeps, ListEventsKeeps, ReadAssetKeeps,
       GetBundleKeeps, KbSearchKeeps, EndTurnKeeps, StillKeeps DEF Next
<1> QED
  BY <1>1, <1>2, PTL DEF Spec

-----------------------------------------------------------------------------
(* The search in the knowledge base                                        *)

LEMMA LargestIndex ==
  ASSUME NEW n \in Nat, NEW I \in SUBSET (1..n), I # {}
  PROVE  \E i \in I : \A j \in I : j <= i
<1> DEFINE R == OpToRel(<, Nat)
           T == {n - i : i \in I}
<1>1. T \subseteq Nat /\ T # {}
  <2>1. \A i \in I : n - i \in Nat
    OBVIOUS
  <2>2. PICK i \in I : TRUE
    OBVIOUS
  <2>3. n - i \in T
    OBVIOUS
  <2> QED
    BY <2>1, <2>3
<1>2. IsWellFoundedOn(R, Nat)
  BY NatLessThanWellFounded
<1> HIDE DEF R
<1>3. \E x \in T : \A y \in T : ~ (<<y, x>> \in R)
  <2> HIDE DEF T
  <2> QED
    BY <1>1, <1>2, WFMin
<1>4. \A x, y \in Nat : y < x => <<y, x>> \in R
  BY DEF R, OpToRel
<1>5. PICK i \in I : \A j \in I : ~ (n - j < n - i)
  BY <1>1, <1>3, <1>4
<1> QED
  BY <1>5

\* Of a non-empty set of files the last one is one of them.
LEMMA LastIsFile ==
  ASSUME NEW d \in Directory, NEW I \in SUBSET DOMAIN d.files, I # {}
  PROVE  \E i \in I : LastFile(d, I) = d.files[i]
<1>1. Len(d.files) \in Nat /\ DOMAIN d.files = 1..Len(d.files)
  BY DirectoryAssumption
<1>2. \E i \in I : \A j \in I : j <= i
  BY <1>1, LargestIndex
<1> QED
  BY <1>2 DEF LastFile

LEMMA ScenarioIsFile ==
  ASSUME NEW d \in Directory, Loadable(d), NEW s \in Scenario
  PROVE  ScenarioById(d, s) \in ScenarioFiles(d)
<1> DEFINE I == {i \in DOMAIN d.files : d.files[i].id = s}
<1>1. I \in SUBSET DOMAIN d.files /\ I # {}
  <2>1. PICK f \in ScenarioFiles(d) : f.id = s
    BY DirectoryAssumption
  <2>2. PICK i \in DOMAIN d.files : f = d.files[i]
    BY DEF ScenarioFiles
  <2> QED
    BY <2>1, <2>2
<1>2. \E i \in I : LastFile(d, I) = d.files[i]
  <2> HIDE DEF I
  <2> QED
    BY <1>1, LastIsFile
<1> QED
  BY <1>2 DEF ScenarioById, ScenarioFiles

\* A signature of the pack leads to the article of one of its scenarios.
LEMMA IndexedIsKnown ==
  ASSUME NEW d \in Directory, Loadable(d), NEW signature, NEW fallback,
         NEW g \in ScenarioFiles(d), signature \in g.signatures
  PROVE  \E f \in ScenarioFiles(d) : /\ signature \in f.signatures
                                     /\ Deterministic(d, signature, fallback) = {f.article}
<1> DEFINE I == {i \in DOMAIN d.files : signature \in d.files[i].signatures}
<1>1. I \in SUBSET DOMAIN d.files /\ I # {}
  BY DEF ScenarioFiles
<1>2. PICK i \in I : LastFile(d, I) = d.files[i]
  <2> HIDE DEF I
  <2> QED
    BY <1>1, LastIsFile
<1>3. Indexed(d, signature) = {d.files[i].article}
  BY <1>1, <1>2 DEF Indexed
<1>4. d.files[i].article \in d.kb
  BY DEF Loadable, ArticlesFit, ScenarioFiles
<1> QED
  BY <1>2, <1>3, <1>4 DEF Deterministic, ScenarioFiles

\* A turn searches on a stack that has loaded its directory, for the logs of
\* one of its scenarios.
Searching ==
  /\ stack = "up" => Loadable(dir)
  /\ turn.step # "idle" => stack = "up"
  /\ turn.logs # None => turn.logs \in Scenario

SearchInv == Searching /\ ArticleFitsLogs /\ KnownSignaturesFound

LEMMA SearchFits ==
  ASSUME Inv, Searching, NEW signature \in Signature, NEW fallback, KbSearch(signature, fallback)
  PROVE  SearchInv'
<1>1. /\ UNCHANGED <<dir, stack>> /\ stack = "up" /\ turn \in Turn /\ dir \in Directory
      /\ Loadable(dir) /\ (turn.logs # None => turn.logs \in Scenario)
  BY DEF KbSearch, Found, Answer, Inv, TypeOK, Searching
<1> DEFINE Result(k, via) == /\ turn'.step = "found" /\ turn'.article = k /\ turn'.via = via
                             /\ turn'.signature = signature /\ turn'.logs = turn.logs
<1>2. ASSUME NEW articles, NEW via, Found(signature, articles, via), articles # {}
      PROVE  \E k \in articles : Result(k, via)
  <2>1. PICK k \in articles :
               turn' = [turn EXCEPT !.step = "found", !.signature = signature,
                                    !.article = k, !.via = via]
    BY <1>2 DEF Found, Answer
  <2>2. Result(k, via)
    BY <1>1, <2>1 DEF Turn
  <2> QED
    BY <2>2
<1>3. CASE \E k \in dir.kb : Result(k, "semantic")
  BY <1>1, <1>3 DEF SearchInv, Searching, ArticleFitsLogs, KnownSignaturesFound
<1>4. CASE Found(signature, Deterministic(dir, signature, fallback), "deterministic")
  <2> DEFINE found == Deterministic(dir, signature, fallback)
  <2>1. /\ turn'.step \in {"found", "missing"} /\ turn'.logs = turn.logs
        /\ turn'.signature = signature
        /\ found = {} <=> turn'.step = "missing"
    <3> HIDE DEF found
    <3>1. CASE found = {}
      <4>1. turn' = [turn EXCEPT !.step = "missing", !.signature = signature,
                                 !.article = None, !.via = "deterministic"]
        BY <1>4, <3>1 DEF found, Found, Answer
      <4> QED
        BY <1>1, <3>1, <4>1 DEF Turn
    <3>2. CASE found # {}
      <4>1. PICK k \in found : Result(k, "deterministic")
        BY <1>2, <1>4, <3>2 DEF found
      <4> QED
        BY <3>2, <4>1
    <3> QED
      BY <3>1, <3>2
  <2>2. turn'.step = "found" => turn'.article \in found
    BY <1>2, <1>4, <2>1
  <2>3. ASSUME NEW g \in ScenarioFiles(dir), signature \in g.signatures
        PROVE  \E f \in ScenarioFiles(dir) : signature \in f.signatures /\ found = {f.article}
    BY <1>1, <2>3, IndexedIsKnown
  <2> HIDE DEF found
  <2>4. KnownSignaturesFound'
    BY <1>1, <2>1, <2>3 DEF KnownSignaturesFound, ScenarioFiles
  <2>5. ArticleFitsLogs'
    <3> SUFFICES ASSUME turn.logs # None
                 PROVE  ArticleFitsLogs'
      BY <2>1 DEF ArticleFitsLogs
    <3> DEFINE f == ScenarioById(dir, turn.logs)
    <3>1. f \in ScenarioFiles(dir)
      BY <1>1, ScenarioIsFile
    <3> HIDE DEF f
    <3>2. ASSUME signature \in f.signatures,
                 \A g \in ScenarioFiles(dir) : signature \in g.signatures => g = f
          PROVE  turn'.article = f.article
      BY <2>1, <2>2, <2>3, <3>1, <3>2
    <3>3. /\ ScenarioById(dir, turn.logs)' = f
          /\ ScenarioFiles(dir)' = ScenarioFiles(dir)
      BY <1>1, <2>1 DEF f, ScenarioById, LastFile, ScenarioFiles
    <3> QED
      BY <2>1, <3>2, <3>3 DEF ArticleFitsLogs
  <2>6. Searching'
    BY <1>1, <2>1 DEF Searching
  <2> QED
    BY <2>4, <2>5, <2>6 DEF SearchInv
<1> QED
  BY <1>2, <1>3, <1>4 DEF KbSearch

LEMMA SearchStep ==
  ASSUME Inv, SearchInv, [Next]_vars
  PROVE  SearchInv'
<1>1. CASE StackStarts \/ LabStep \/ UNCHANGED vars
  <2>1. /\ UNCHANGED <<dir, turn>>
        /\ stack' = "up" => Loadable(dir)
        /\ turn.step # "idle" => stack' = "up"
    BY <1>1 DEF StackStarts, LabStep, vars, SearchInv, Searching
  <2> QED
    BY <2>1 DEF SearchInv, Searching, ArticleFitsLogs, KnownSignaturesFound, ScenarioFiles,
       ScenarioById, LastFile
<1>2. ASSUME \/ ListAssets \/ EndTurn
             \/ \E a \in Asset : GetAsset(a) \/ ReadAsset(a)
             \/ \E asked \in SUBSET Asset : ListEvents(asked)
      PROVE  SearchInv'
  <2>1. /\ UNCHANGED <<dir, stack>>
        /\ turn'.step \in {"idle", "assets", "viewed", "listed"}
        /\ turn'.step # "idle" => stack = "up"
        /\ turn'.logs \in {None, turn.logs}
    <3>1. CASE ListAssets
      BY <3>1 DEF ListAssets, Begin, Idle
    <3>2. CASE EndTurn
      BY <3>2 DEF EndTurn, Idle
    <3>3. ASSUME NEW a \in Asset, GetAsset(a)
          PROVE  UNCHANGED <<dir, stack>> /\ turn'.step = "viewed" /\ stack = "up"
                 /\ turn'.logs = None
      BY <3>3 DEF GetAsset, Begin, Idle
    <3>4. ASSUME NEW asked \in SUBSET Asset, ListEvents(asked)
          PROVE  UNCHANGED <<dir, stack>> /\ turn'.step = "listed" /\ stack = "up"
                 /\ turn'.logs = None
      BY <3>4 DEF ListEvents, Begin, Idle
    <3>5. ASSUME NEW a \in Asset, ReadAsset(a)
          PROVE  /\ UNCHANGED <<dir, stack>>
                 /\ turn'.step \in {"assets", "viewed"} /\ stack = "up"
                 /\ turn'.logs = turn.logs
      BY <3>5 DEF ReadAsset, Continue, Inv, TypeOK, Turn, SearchInv, Searching
    <3> QED
      BY <1>2, <3>1, <3>2, <3>3, <3>4, <3>5
  <2> QED
    BY <2>1 DEF SearchInv, Searching, ArticleFitsLogs, KnownSignaturesFound
<1>3. ASSUME NEW a \in Asset, GetBundle(a)
      PROVE  SearchInv'
  <2>1. /\ UNCHANGED <<dir, stack>> /\ stack = "up"
        /\ turn'.step = "logs" /\ turn'.logs \in Scenario
    BY <1>3 DEF GetBundle, Bundle, Answer, Inv, TypeOK, Turn, Lab!TypeOK, SearchInv, Searching
  <2> QED
    BY <2>1 DEF SearchInv, Searching, ArticleFitsLogs, KnownSignaturesFound
<1>4. Asset \in SUBSET Asset /\ \A a \in Asset : {a} \in SUBSET Asset
  OBVIOUS
<1> QED
  BY <1>1, <1>2, <1>3, <1>4, SearchFits DEF Next, SearchInv

LEMMA SearchHolds == Spec => []SearchInv
<1>1. Init => SearchInv
  BY DEF Init, Idle, SearchInv, Searching, ArticleFitsLogs, KnownSignaturesFound
<1>2. Inv /\ SearchInv /\ [Next]_vars => SearchInv'
  BY SearchStep
<1> QED
  BY <1>1, <1>2, InvHolds, PTL DEF Spec

-----------------------------------------------------------------------------
\* What a turn has read keeps its type, and every article kb.search finds is
\* in the kb/ of the very directory the stack runs on.
THEOREM TypeCorrect == Spec => []TypeOK
BY InvHolds, PTL DEF Inv

\* Whatever an adapter's answer says of an asset held at some moment of the
\* turn, for any number of assets, whatever is injected or cleared meanwhile.
THEOREM ReadingsAreTrue == Spec => []SeenWasTrue
<1>1. Inv => SeenWasTrue
  BY DEF Inv, ReadingsHeld, SeenWasTrue
<1> QED
  BY <1>1, InvHolds, PTL

\* The logs of a turn are of a fault its asset once had and, in a calm run, of
\* one it had during the turn if the turn saw it faulted, although Simulator
\* and Orchestrator are asked one after the other (logs.get_bundle).
THEOREM LogsAreOfTheTurn == Spec => []LogsFitFault
BY InvHolds, PTL DEF Inv

\* The deterministic search for a signature that only the logs' scenario has
\* finds that scenario's article, for any pack that loads.
THEOREM LogsLeadToArticle == Spec => []ArticleFitsLogs
BY SearchHolds, PTL DEF SearchInv

\* A search that finds nothing was for a signature the pack does not know.
THEOREM SignaturesAreFound == Spec => []KnownSignaturesFound
BY SearchHolds, PTL DEF SearchInv
=============================================================================
