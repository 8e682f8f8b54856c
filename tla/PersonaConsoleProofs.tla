------------------------- MODULE PersonaConsoleProofs -------------------------
(***************************************************************************)
(* Proofs about TerminalSession and PersonaConsole, for any number of      *)
(* sessions, targets, daemon threads and operations.  The invariant says   *)
(* which socket a panel knows and how far its process has come, and for    *)
(* each console or thread what the files hold that it has passed.          *)
(***************************************************************************)
EXTENDS PersonaConsole, TLAPS

\* A live socket is the panel's, the panel's is the latest, and a session
\* is used from the browser inwards.
Live(s) == sock[s] \in {"connecting", "open"}

SocketsKnown ==
  /\ \A s \in Session : Live(s) => panel.ws = s
  /\ panel.ws # None =>
       sock[panel.ws] # "unused" /\ \A u \in Session : u > panel.ws => sock[u] = "unused"
  /\ \A s, u \in Session : s < u /\ sock[u] # "unused" => sock[s] # "unused"
  /\ \A s \in Session : sock[s] = "unused" => hop[s] = "none"

ProcessesKnown ==
  /\ \A s \in Session : hop[s] = "none" => proc[s] = "none"
  /\ \A s \in Session : daemon[s] = "exiting" \/ exit[s] = "sent" => proc[s] = "exited"

SessionInv == SessionTypeOK /\ SocketsKnown /\ ProcessesKnown /\ EndedByItself

-----------------------------------------------------------------------------
(* Sessions                                                                *)

SessionQuiet == UNCHANGED <<panel, sock>>

LEMMA SessionInitSafe == SessionInit => SessionInv
BY SessionAssumption
DEF SessionInit, SessionInv, SessionTypeOK, SocketsKnown, ProcessesKnown, EndedByItself, Live, Session

LEMMA ConnectSafe ==
  ASSUME SessionInv, NEW s \in Session, Connect(s)
  PROVE  SessionInv'
<1>1. /\ sock[s] = "unused" /\ \A u \in Session : u < s => sock[u] # "unused"
      /\ panel' = [ws |-> s, status |-> "connecting"]
      /\ UNCHANGED <<hop, daemon, proc, exit>>
  BY DEF Connect
<1>2. /\ sock' \in [Session -> {"unused", "connecting", "open", "closing", "closed"}]
      /\ sock'[s] = "connecting"
      /\ \A u \in Session \ {s} : sock'[u] = IF u = panel.ws THEN "closing" ELSE sock[u]
  BY SessionAssumption DEF Connect, Closing, SessionInv, SessionTypeOK, Session
<1>3. \A u \in Session : u > s => sock[u] = "unused" /\ sock'[u] = "unused"
  <2> SUFFICES ASSUME NEW u \in Session, u > s
               PROVE  sock[u] = "unused" /\ sock'[u] = "unused"
    OBVIOUS
  <2>1. sock[u] = "unused"
    BY <1>1 DEF SessionInv, SocketsKnown
  <2>2. u # panel.ws
    BY <1>1, SessionAssumption DEF SessionInv, SocketsKnown, Session
  <2> QED
    BY <2>1, <2>2, <1>2 DEF Session
<1>4. SessionTypeOK'
  BY <1>1, <1>2 DEF SessionInv, SessionTypeOK
<1>5. SocketsKnown'
  <2>1. \A u \in Session : Live(u)' => u = s
    BY <1>2 DEF Live, SessionInv, SocketsKnown
  <2>2. \A t, u \in Session : t < u /\ sock'[u] # "unused" => sock'[t] # "unused"
    BY <1>1, <1>2, <1>3 DEF Session
  <2>3. \A u \in Session : sock'[u] = "unused" => hop[u] = "none"
    BY <1>1, <1>2 DEF SessionInv, SocketsKnown
  <2> QED
    BY <1>1, <1>2, <1>3, <2>1, <2>2, <2>3 DEF SocketsKnown
<1>6. ProcessesKnown' /\ EndedByItself'
  BY <1>1 DEF SessionInv, ProcessesKnown, EndedByItself
<1> QED
  BY <1>4, <1>5, <1>6 DEF SessionInv

LEMMA UnmountSafe ==
  ASSUME SessionInv, Unmount
  PROVE  SessionInv'
<1>1. /\ panel' = [ws |-> None, status |-> "gone"]
      /\ UNCHANGED <<hop, daemon, proc, exit>>
  BY DEF Unmount
<1>2. /\ sock' \in [Session -> {"unused", "connecting", "open", "closing", "closed"}]
      /\ \A u \in Session : sock'[u] = IF u = panel.ws THEN "closing" ELSE sock[u]
  BY SessionAssumption DEF Unmount, Closing, SessionInv, SessionTypeOK, Session
<1>3. SessionTypeOK'
  BY <1>1, <1>2 DEF SessionInv, SessionTypeOK
<1>4. SocketsKnown'
  <2>1. \A u \in Session : ~Live(u)'
    BY <1>2 DEF Live, SessionInv, SocketsKnown
  <2>2. \A t, u \in Session : t < u /\ sock'[u] # "unused" => sock'[t] # "unused"
    <3>1. \A u \in Session : sock'[u] = "unused" <=> sock[u] = "unused"
      BY <1>2, SessionAssumption DEF SessionInv, SocketsKnown, Session
    <3> QED
      BY <3>1 DEF SessionInv, SocketsKnown
  <2>3. \A u \in Session : sock'[u] = "unused" => hop[u] = "none"
    BY <1>2 DEF SessionInv, SocketsKnown
  <2> QED
    BY <1>1, <2>1, <2>2, <2>3 DEF SocketsKnown
<1>5. ProcessesKnown' /\ EndedByItself'
  BY <1>1 DEF SessionInv, ProcessesKnown, EndedByItself
<1> QED
  BY <1>3, <1>4, <1>5 DEF SessionInv

\* Steps that leave a used socket used and a dead one dead.
SocketsOnlyClose(s, status) ==
  /\ sock[s] # "unused" /\ sock'[s] # "unused" /\ (Live(s)' => Live(s))
  /\ \A u \in Session \ {s} : sock'[u] = sock[u]
  /\ sock' \in [Session -> {"unused", "connecting", "open", "closing", "closed"}]
  /\ panel' = [panel EXCEPT !.status = status]

LEMMA SocketsStayKnown ==
  ASSUME SessionInv, NEW s \in Session, NEW status, SocketsOnlyClose(s, status),
         \A u \in Session \ {s} : hop'[u] = hop[u]
  PROVE  SocketsKnown'
<1>1. panel'.ws = panel.ws
  BY DEF SocketsOnlyClose, SessionInv, SessionTypeOK
<1>2. \A u \in Session : /\ (Live(u)' => Live(u))
                         /\ (sock'[u] = "unused" <=> sock[u] = "unused")
  BY DEF SocketsOnlyClose, Live
<1>3. \A u \in Session : sock'[u] = "unused" => hop'[u] = hop[u]
  BY DEF SocketsOnlyClose
<1> QED
  <2>1. panel.ws \in Session \cup {None}
    BY DEF SessionInv, SessionTypeOK
  <2> QED
    BY <1>1, <1>2, <1>3, <2>1 DEF SessionInv, SocketsKnown

LEMMA ServesSafe ==
  ASSUME SessionInv, NEW s \in Session,
         SessionServes(s) \/ Refuse(s) \/ HopBreaks(s) \/ ProcessExits(s)
  PROVE  SessionInv'
<1> USE DEF SessionInv
<1>1. CASE Accept(s)
  <2>1. SocketsOnlyClose(s, Show("connected")) /\ UNCHANGED <<hop, daemon, proc, exit>>
    BY <1>1 DEF Accept, SocketsOnlyClose, SessionTypeOK, Live
  <2>2. SocketsKnown'
    BY <2>1, SocketsStayKnown
  <2>3. SessionTypeOK' /\ panel'.status # "ended"
    BY <2>1 DEF SessionTypeOK, SocketsOnlyClose, Show
  <2> QED
    BY <2>1, <2>2, <2>3 DEF ProcessesKnown, EndedByItself
<1>2. CASE DaemonAccepts(s)
  <2>1. SessionTypeOK'
    BY <1>2 DEF DaemonAccepts, SessionTypeOK
  <2>2. SocketsKnown'
    BY <1>2 DEF DaemonAccepts, SocketsKnown, SessionTypeOK, Live
  <2>3. proc[s] = "none" /\ \A u \in Session : proc'[u] = IF u = s THEN "running" ELSE proc[u]
    BY <1>2 DEF DaemonAccepts, SessionTypeOK, ProcessesKnown
  <2>4. ProcessesKnown' /\ EndedByItself'
    BY <1>2, <2>3 DEF DaemonAccepts, SessionTypeOK, ProcessesKnown, EndedByItself
  <2> QED
    BY <2>1, <2>2, <2>4
<1>3. CASE Refuse(s) \/ ProxyEnds(s) \/ HopBreaks(s)
  <2>1. /\ DropBrowser(s) /\ hop' = [hop EXCEPT ![s] = "down"] /\ sock[s] # "unused"
        /\ UNCHANGED <<panel, daemon, proc, exit>>
    BY <1>3 DEF Refuse, ProxyEnds, HopBreaks, SocketsKnown
  <2>2. SocketsOnlyClose(s, panel.status)
    BY <2>1 DEF DropBrowser, SocketsOnlyClose, SessionTypeOK, Live
  <2>3. SocketsKnown'
    BY <2>1, <2>2, SocketsStayKnown DEF SessionTypeOK
  <2>4. SessionTypeOK' /\ ProcessesKnown'
    BY <2>1, <2>2 DEF SocketsOnlyClose, SessionTypeOK, ProcessesKnown
  <2>5. EndedByItself'
    BY <2>1, <2>2 DEF SocketsOnlyClose, EndedByItself
  <2> QED
    BY <2>3, <2>4, <2>5
<1>4. CASE ProcessExits(s) \/ PumpsEnd(s) \/ SendExit(s) \/ Terminate(s)
  <2>1. UNCHANGED <<panel, sock, hop>>
    BY <1>4 DEF ProcessExits, PumpsEnd, SendExit, Terminate
  <2>2. SessionTypeOK'
    BY <1>4 DEF ProcessExits, PumpsEnd, SendExit, Terminate, SessionTypeOK
  <2>3. SocketsKnown'
    BY <2>1 DEF SocketsKnown, Live
  <2>4. \A u \in Session : (proc[u] = "exited" => proc'[u] = "exited") /\ (proc[u] = "none" => proc'[u] = "none")
    BY <1>4 DEF ProcessExits, PumpsEnd, SendExit, Terminate, SessionTypeOK
  <2>5. EndedByItself'
    BY <2>1, <2>4 DEF EndedByItself
  <2>6. \A u \in Session : daemon'[u] = "exiting" \/ exit'[u] = "sent" => proc'[u] = "exited"
    BY <1>4, <2>4 DEF ProcessExits, PumpsEnd, OnlyOutput, SendExit, Terminate, SessionTypeOK, ProcessesKnown
  <2>7. ProcessesKnown'
    BY <2>1, <2>4, <2>6 DEF ProcessesKnown
  <2> QED
    BY <2>2, <2>3, <2>5, <2>7
<1>5. CASE ShowExit(s)
  <2>1. SocketsOnlyClose(s, Show("ended")) /\ UNCHANGED <<sock, hop, daemon, proc>>
    BY <1>5 DEF ShowExit, SocketsOnlyClose, SessionTypeOK, Live
  <2>2. SocketsKnown'
    BY <2>1, SocketsStayKnown
  <2>3. SessionTypeOK'
    BY <1>5 DEF ShowExit, SessionTypeOK, Show
  <2>4. ProcessesKnown'
    BY <1>5 DEF ShowExit, SessionTypeOK, ProcessesKnown
  <2>5. proc[s] = "exited" /\ \A u \in Session : u > s => sock[u] = "unused"
    BY <1>5, SessionAssumption DEF ShowExit, ProcessesKnown, SocketsKnown, Live, Session
  <2>6. EndedByItself'
    BY <2>1, <2>5 DEF EndedByItself
  <2> QED
    BY <2>2, <2>3, <2>4, <2>6
<1>6. CASE OnClose(s)
  <2>1. /\ sock[s] = "closing" /\ sock' = [sock EXCEPT ![s] = "closed"]
        /\ panel' = [ws |-> IF panel.ws = s THEN None ELSE panel.ws,
                     status |-> Show(IF panel.status = "ended" THEN "ended" ELSE "disconnected")]
        /\ UNCHANGED <<hop, daemon, proc, exit>>
    BY <1>6 DEF OnClose
  <2>2. SessionTypeOK'
    BY <2>1 DEF SessionTypeOK, Show
  <2>3. \A u \in Session : (Live(u)' => Live(u) /\ u # s) /\ (sock'[u] = "unused" <=> sock[u] = "unused")
    BY <2>1 DEF SessionTypeOK, Live
  <2>4. panel'.ws = panel.ws \/ (panel.ws = s /\ panel'.ws = None)
    BY <2>1
  <2>5. SocketsKnown'
    BY <2>1, <2>3, <2>4 DEF SocketsKnown, SessionTypeOK
  <2>6. panel'.status = "ended" => panel.status = "ended"
    BY <2>1 DEF Show
  <2>7. ProcessesKnown' /\ EndedByItself'
    BY <2>1, <2>3, <2>6 DEF ProcessesKnown, EndedByItself
  <2> QED
    BY <2>2, <2>5, <2>7
<1> QED
  BY <1>1, <1>2, <1>3, <1>4, <1>5, <1>6 DEF SessionServes

LEMMA SessionStepSafe ==
  ASSUME SessionInv, SessionNext \/ UNCHANGED sessionVars
  PROVE  SessionInv'
<1>1. CASE UNCHANGED sessionVars
  BY <1>1 DEF sessionVars, SessionInv, SessionTypeOK, SocketsKnown, ProcessesKnown, EndedByItself, Live
<1> QED
  BY <1>1, UnmountSafe, ConnectSafe, ServesSafe DEF SessionNext

-----------------------------------------------------------------------------
(* Consoles and threads                                                    *)

\* A worker is at a step of its operation, and a console that has not
\* started has done nothing.
StepFits(w, at) ==
  /\ at.op = "idle" => at.step = "start"
  /\ at.op = "run" => at.step \in {"download", "edit", "validate", "push"}
  /\ at.op = "reset" => at.step \in {"blank", "push", "session", "end"}
  /\ at.op = "check" => at.step \in {"fetch", "end"} /\ w \in Job

StepsFit == \A w \in Worker : StepFits(w, work[w])

ConsolesStartIdle == \A s \in Session : proc[s] = "none" => work[s] = Idle

\* The targets a reset or a check has dealt with.
Passed(w, t) == t < work[w].t \/ work[w].step \in {"session", "end"}

\* An undisturbed reset leaves blank scratch copies behind too: another
\* reset that still has one to push cannot undo it.
Blanked(w) ==
  /\ \A t \in Target : Passed(w, t) => scratch[t] = "blank" /\ sandbox[t] = "blank"
  /\ work[w].step = "push" => scratch[work[w].t] = "blank"

ResetOK(w) == Alive(w) /\ work[w].op = "reset" /\ work[w].ok /\ w \notin mixed => Blanked(w)

CheckOK(w) ==
  work[w].op = "check" /\ work[w].ok /\ w \notin mixed =>
    \A t \in Target : Passed(w, t) => Configured(sandbox[t])

\* What is about to be pushed was checked, or was changed since.
PushOK(w) ==
  work[w].step = "push" /\ work[w].t \in Skill =>
    scratch[work[w].t] \in {"blank", "text"} \/ work[w].t \in clashed

WorkerOK(w) == ResetOK(w) /\ CheckOK(w) /\ PushOK(w)

Inv ==
  /\ SessionInv /\ TypeOK
  /\ StepsFit /\ ConsolesStartIdle
  /\ SkillsInstallable
  /\ \A w \in Worker : WorkerOK(w)

LEMMA SessionKeepsWork ==
  ASSUME Inv, SessionNext \/ UNCHANGED sessionVars, UNCHANGED personaVars
  PROVE  Inv'
<1>1. SessionInv'
  BY SessionStepSafe DEF Inv
<1>2. UNCHANGED <<scratch, sandbox, work, ops, mixed, clashed>>
  BY DEF personaVars, files
<1>3. TypeOK' /\ StepsFit' /\ SkillsInstallable'
  BY <1>1, <1>2 DEF Inv, SessionInv, TypeOK, StepsFit, StepFits, SkillsInstallable
<1>4. \A w \in Worker : CheckOK(w)' /\ PushOK(w)'
  BY <1>2 DEF Inv, WorkerOK, CheckOK, PushOK, Passed
<1>5. \A s \in Session : proc'[s] = "none" => proc[s] = "none"
  <2>1. ASSUME NEW s \in Session, SessionServes(s) \/ Refuse(s) \/ HopBreaks(s) \/ ProcessExits(s)
        PROVE  \A u \in Session : proc'[u] = "none" => proc[u] = "none"
    BY <2>1
    DEF Inv, SessionInv, SessionTypeOK, SessionServes, Accept, DaemonAccepts, ProxyEnds, PumpsEnd,
        SendExit, Terminate, ShowExit, OnClose, Refuse, HopBreaks, ProcessExits
  <2> QED
    BY <2>1 DEF SessionNext, Unmount, Connect, sessionVars
<1>6. \A s \in Session : proc'[s] = "running" => proc[s] \in {"none", "running"}
  <2>1. ASSUME NEW s \in Session, SessionServes(s) \/ Refuse(s) \/ HopBreaks(s) \/ ProcessExits(s)
        PROVE  \A u \in Session : proc'[u] = "running" => proc[u] \in {"none", "running"}
    BY <2>1
    DEF Inv, SessionInv, SessionTypeOK, ProcessesKnown, SessionServes, Accept, DaemonAccepts, ProxyEnds,
        PumpsEnd, SendExit, Terminate, ShowExit, OnClose, Refuse, HopBreaks, ProcessExits
  <2> QED
    BY <2>1 DEF SessionNext, Unmount, Connect, sessionVars
<1>7. ConsolesStartIdle'
  BY <1>2, <1>5 DEF Inv, ConsolesStartIdle
<1>8. \A w \in Worker : ResetOK(w)'
  <2> SUFFICES ASSUME NEW w \in Worker, Alive(w)', work[w].op = "reset", work[w].ok, w \notin mixed
               PROVE  Blanked(w)'
    BY <1>2 DEF ResetOK
  <2>1. Alive(w)
    BY <1>6 DEF Alive, Inv, ConsolesStartIdle, Idle
  <2>2. Blanked(w)
    BY <2>1 DEF Inv, WorkerOK, ResetOK
  <2> QED
    BY <2>2, <1>2 DEF Blanked, Passed
<1> QED
  BY <1>1, <1>3, <1>4, <1>7, <1>8 DEF Inv, WorkerOK

-----------------------------------------------------------------------------
\* Worker w goes on alone; what it does to the files is one of three things.
WorkRecord == [op: {"idle", "run", "reset", "check"}, t: Target, ok: BOOLEAN,
  step: {"start", "download", "edit", "validate", "blank", "push", "session", "fetch", "end"}]

Moves(w, new) ==
  /\ work' \in [Worker -> WorkRecord]
  /\ work'[w] = new
  /\ \A u \in Worker \ {w} : work'[u] = work[u]

LEMMA WorkUpdate ==
  ASSUME TypeOK, NEW w \in Worker, NEW new \in WorkRecord, work' = [work EXCEPT ![w] = new]
  PROVE  Moves(w, new)
BY DEF TypeOK, Moves, WorkRecord

LEMMA GoUpdate ==
  ASSUME TypeOK, NEW w \in Worker,
         NEW step \in {"edit", "validate", "push", "end"}, Go(w, step)
  PROVE  Moves(w, [work[w] EXCEPT !.step = step])
<1>1. [work[w] EXCEPT !.step = step] \in WorkRecord
  BY DEF TypeOK, WorkRecord
<1>2. work' = [work EXCEPT ![w] = [work[w] EXCEPT !.step = step]]
  BY DEF Go, TypeOK
<1> QED
  BY <1>1, <1>2, WorkUpdate

LEMMA FinishUpdate ==
  ASSUME TypeOK, NEW w \in Worker, Finish(w)
  PROVE  Moves(w, Idle)
<1>1. Idle \in WorkRecord
  BY ConsoleAssumption DEF Idle, WorkRecord, Target
<1> QED
  BY <1>1, WorkUpdate DEF Finish

\* The last target is left standing.
LEMMA NextUpdate ==
  ASSUME TypeOK, NEW w \in Worker, NEW ok \in BOOLEAN,
         NEW first \in {"blank", "fetch"}, NEW last \in {"session", "end"},
         NextTarget(w, first, last, ok)
  PROVE  \E new \in WorkRecord :
           /\ Moves(w, new)
           /\ new.op = work[w].op /\ new.ok = ok
           /\ IF work[w].t = Targets THEN new.t = Targets /\ new.step = last
                                     ELSE new.t = work[w].t + 1 /\ new.step = first
<1> DEFINE new == [work[w] EXCEPT !.ok = ok,
                     !.t = IF work[w].t = Targets THEN work[w].t ELSE work[w].t + 1,
                     !.step = IF work[w].t = Targets THEN last ELSE first]
<1>1. work[w] \in WorkRecord
  BY DEF TypeOK, WorkRecord
<1>2. (IF work[w].t = Targets THEN work[w].t ELSE work[w].t + 1) \in Target
  BY <1>1, ConsoleAssumption DEF WorkRecord, Target
<1>3. new \in WorkRecord
  BY <1>1, <1>2 DEF WorkRecord
<1>4. work' = [work EXCEPT ![w] = new]
  BY DEF NextTarget, TypeOK
<1>5. /\ new.op = work[w].op /\ new.ok = ok
      /\ IF work[w].t = Targets THEN new.t = Targets /\ new.step = last
                                ELSE new.t = work[w].t + 1 /\ new.step = first
  BY <1>1 DEF WorkRecord
<1> HIDE DEF new
<1> QED
  BY <1>3, <1>4, <1>5, WorkUpdate

OthersMoveOn(w) ==
  /\ \A u \in Worker \ {w} : work'[u] = work[u]
  /\ \A u \in Worker \ {w} : u \in mixed => u \in mixed'
  /\ UNCHANGED sessionVars

LEMMA OthersQuiet ==
  ASSUME Inv, NEW w \in Worker, OthersMoveOn(w), UNCHANGED files, clashed \subseteq clashed'
  PROVE  \A u \in Worker \ {w} : WorkerOK(u)'
<1> TAKE u \in Worker \ {w}
<1>1. /\ work'[u] = work[u] /\ UNCHANGED <<scratch, sandbox, proc>> /\ (u \in mixed => u \in mixed')
      /\ WorkerOK(u)
  BY DEF OthersMoveOn, files, sessionVars, Inv
<1>2. ResetOK(u)' /\ CheckOK(u)' /\ PushOK(u)'
  BY <1>1 DEF WorkerOK, ResetOK, CheckOK, PushOK, Alive, Blanked, Passed
<1> QED
  BY <1>2 DEF WorkerOK

\* A reset writes blank copies; any other writer disturbs every reset.
LEMMA OthersSeeWrite ==
  ASSUME Inv, NEW w \in Worker, OthersMoveOn(w), UNCHANGED sandbox,
         NEW t \in Target, NEW content \in Content, WriteScratch(w, t, content),
         work[w].op = "run" \/ (work[w].op = "reset" /\ content = "blank")
  PROVE  /\ \A u \in Worker \ {w} : WorkerOK(u)'
         /\ scratch' \in [Target -> Content] /\ clashed \subseteq clashed'
         /\ mixed \subseteq mixed' /\ mixed' \subseteq Worker /\ clashed' \subseteq Target
         /\ \A v \in Target : scratch'[v] = IF v = t THEN content ELSE scratch[v]
<1>1. /\ scratch' = [scratch EXCEPT ![t] = content]
      /\ mixed' = mixed \cup {u \in Worker : u # w /\ work[u].op \notin {"idle", work[w].op}}
      /\ clashed' = IF \E u \in Worker \ {w} : work[u].step = "push" /\ work[u].t = t
                    THEN clashed \cup {t} ELSE clashed
  BY DEF WriteScratch, Touch
<1>2. /\ scratch' \in [Target -> Content]
      /\ \A v \in Target : scratch'[v] = IF v = t THEN content ELSE scratch[v]
  BY <1>1 DEF Inv, TypeOK
<1>3. clashed \subseteq clashed' /\ mixed \subseteq mixed' /\ mixed' \subseteq Worker /\ clashed' \subseteq Target
  BY <1>1 DEF Inv, TypeOK
<1>4. ASSUME NEW u \in Worker \ {w}
      PROVE  WorkerOK(u)'
  <2>1. work'[u] = work[u] /\ UNCHANGED <<sandbox, proc>> /\ WorkerOK(u)
    BY <1>4 DEF OthersMoveOn, sessionVars, Inv
  <2>2. work[u].t \in Target
    BY <1>4 DEF Inv, TypeOK
  <2>3. ResetOK(u)'
    BY <2>1, <2>2, <1>1, <1>2, <1>4 DEF WorkerOK, ResetOK, Alive, Blanked, Passed
  <2>4. CheckOK(u)'
    BY <2>1, <1>3 DEF WorkerOK, CheckOK, Passed
  <2>5. PushOK(u)'
    BY <2>1, <2>2, <1>1, <1>2, <1>4 DEF WorkerOK, PushOK
  <2> QED
    BY <2>3, <2>4, <2>5 DEF WorkerOK
<1> QED
  BY <1>2, <1>3, <1>4

\* What an undisturbed reset has passed is blank in the scratch files too.
LEMMA OthersSeePush ==
  ASSUME Inv, NEW w \in Worker, OthersMoveOn(w), UNCHANGED <<scratch, clashed>>, Push(w),
         work[w].op \in {"run", "reset"}, work[w].step = "push"
  PROVE  /\ \A u \in Worker \ {w} : WorkerOK(u)'
         /\ sandbox' \in [Target -> Content] /\ mixed \subseteq mixed' /\ mixed' \subseteq Worker
         /\ \A v \in Target : sandbox'[v] = IF v = work[w].t THEN scratch[v] ELSE sandbox[v]
         /\ SkillsInstallable'
<1> DEFINE t == work[w].t
<1>1. /\ sandbox' = [sandbox EXCEPT ![t] = scratch[t]]
      /\ mixed' = mixed \cup {u \in Worker : u # w /\ work[u].op \notin {"idle", work[w].op}}
      /\ t \in Target
  BY DEF Push, Touch, Inv, TypeOK
<1>2. /\ sandbox' \in [Target -> Content]
      /\ \A v \in Target : sandbox'[v] = IF v = t THEN scratch[v] ELSE sandbox[v]
      /\ mixed \subseteq mixed' /\ mixed' \subseteq Worker
  BY <1>1 DEF Inv, TypeOK
<1>3. ASSUME NEW u \in Worker \ {w}
      PROVE  WorkerOK(u)'
  <2>1. work'[u] = work[u] /\ UNCHANGED <<scratch, clashed, proc>> /\ WorkerOK(u)
    BY <1>3 DEF OthersMoveOn, sessionVars, Inv
  <2>2. ResetOK(u)'
    BY <2>1, <1>1, <1>2, <1>3 DEF WorkerOK, ResetOK, Alive, Blanked, Passed
  <2>3. CheckOK(u)'
    BY <2>1, <1>1, <1>2, <1>3 DEF WorkerOK, CheckOK, Passed
  <2>4. PushOK(u)'
    BY <2>1 DEF WorkerOK, PushOK
  <2> QED
    BY <2>2, <2>3, <2>4 DEF WorkerOK
<1>4. SkillsInstallable'
  <2>1. WorkerOK(w) /\ SkillsInstallable /\ Skill \subseteq Target
    BY ConsoleAssumption DEF Inv
  <2>2. t \in Skill => scratch[t] \in {"blank", "text"} \/ t \in clashed
    BY <2>1 DEF WorkerOK, PushOK
  <2> QED
    BY <1>2, <2>1, <2>2 DEF SkillsInstallable
<1> QED
  BY <1>2, <1>3, <1>4

LEMMA WorkerSteps ==
  ASSUME Inv, NEW w \in Worker, Alive(w), UNCHANGED sessionVars,
         NEW new \in WorkRecord, Moves(w, new), StepFits(w, new),
         scratch' \in [Target -> Content], sandbox' \in [Target -> Content],
         ops' \in 0 .. MaxOps, mixed' \subseteq Worker, clashed' \subseteq Target,
         SkillsInstallable', WorkerOK(w)', \A u \in Worker \ {w} : WorkerOK(u)'
  PROVE  Inv'
<1>1. SessionInv'
  BY SessionStepSafe DEF Inv
<1>2. TypeOK'
  BY <1>1 DEF TypeOK, SessionInv, Moves, WorkRecord
<1>3. StepsFit'
  BY DEF Inv, StepsFit, StepFits, Moves
<1>4. ConsolesStartIdle'
  <2> SUFFICES ASSUME NEW s \in Session, proc[s] = "none"
               PROVE  work'[s] = Idle
    BY DEF ConsolesStartIdle, sessionVars
  <2>1. s \in Worker /\ s # w
    BY DEF Worker, Alive
  <2> QED
    BY <2>1 DEF Moves, Inv, ConsolesStartIdle
<1> QED
  BY <1>1, <1>2, <1>3, <1>4 DEF Inv

LEMMA StartSafe ==
  ASSUME Inv, NEW w \in Worker, UNCHANGED sessionVars,
         RunReset(w) \/ CheckConfigured(w) \/ \E t \in Target : RunTarget(w, t)
  PROVE  Inv'
<1>1. PICK op \in {"run", "reset", "check"}, step \in {"download", "blank", "fetch"}, t \in Target :
        /\ Start(w, op, step, t)
        /\ <<op, step>> \in {<<"run", "download">>, <<"reset", "blank">>, <<"check", "fetch">>}
        /\ op # "run" => t = 1
        /\ op = "check" => w \in Job
  <2>1. 1 \in Target
    BY ConsoleAssumption DEF Target
  <2> QED
    BY <2>1 DEF RunReset, CheckConfigured, RunTarget
<1> DEFINE new == [op |-> op, step |-> step, t |-> t, ok |-> TRUE]
<1>2. new \in WorkRecord /\ StepFits(w, new)
  BY <1>1 DEF WorkRecord, StepFits
<1>3. /\ Moves(w, new) /\ Alive(w) /\ UNCHANGED <<scratch, sandbox, clashed>>
      /\ mixed \ {w} \subseteq mixed' /\ mixed' \subseteq Worker /\ ops' \in 0 .. MaxOps
  <2>1. Moves(w, new)
    BY <1>1, <1>2, WorkUpdate DEF Start, Inv
  <2>2. ops' \in 0 .. MaxOps
    BY <1>1, ConsoleAssumption DEF Start, Inv, TypeOK
  <2> QED
    BY <1>1, <2>1, <2>2 DEF Start, files, Inv, TypeOK
<1>4. \A u \in Worker \ {w} : WorkerOK(u)'
  <2>1. OthersMoveOn(w)
    BY <1>3 DEF OthersMoveOn, Moves
  <2> QED
    BY <1>3, <2>1, OthersQuiet DEF files
<1>5. WorkerOK(w)'
  <2>1. work'[w] = new /\ (op # "run" => \A v \in Target : ~Passed(w, v)')
    BY <1>1, <1>3, ConsoleAssumption DEF Moves, Passed, Target
  <2> QED
    BY <1>1, <2>1 DEF WorkerOK, ResetOK, CheckOK, PushOK, Blanked
<1>6. SkillsInstallable'
  BY <1>3 DEF Inv, SkillsInstallable
<1> QED
  BY <1>2, <1>3, <1>4, <1>5, <1>6, WorkerSteps DEF Inv, TypeOK

\* Steps that touch no file: a check of a skill, the end of an operation.
LEMMA QuietSafe ==
  ASSUME Inv, NEW w \in Worker, Alive(w), UNCHANGED sessionVars,
         UNCHANGED <<files, ops, mixed, clashed>>,
         NEW new \in WorkRecord, Moves(w, new), StepFits(w, new), WorkerOK(w)'
  PROVE  Inv'
<1>1. \A u \in Worker \ {w} : WorkerOK(u)'
  BY OthersQuiet DEF OthersMoveOn, Moves
<1>2. SkillsInstallable' /\ UNCHANGED <<scratch, sandbox>>
  BY DEF Inv, SkillsInstallable, files
<1> QED
  BY <1>1, <1>2, WorkerSteps DEF Inv, TypeOK

LEMMA IdleFits ==
  ASSUME NEW w \in Worker, work'[w] = Idle
  PROVE  Idle \in WorkRecord /\ StepFits(w, Idle) /\ WorkerOK(w)'
<1>1. Idle \in WorkRecord
  BY ConsoleAssumption DEF Idle, WorkRecord, Target
<1> QED
  BY <1>1 DEF Idle, StepFits, WorkerOK, ResetOK, CheckOK, PushOK

LEMMA FinishSafe ==
  ASSUME Inv, NEW w \in Worker, Alive(w), Finish(w), UNCHANGED sessionVars,
         UNCHANGED <<files, ops, mixed, clashed>>
  PROVE  Inv'
<1>1. Moves(w, Idle)
  BY FinishUpdate DEF Inv
<1> QED
  BY <1>1, IdleFits, QuietSafe DEF Moves

LEMMA ValidateSafe ==
  ASSUME Inv, NEW w \in Worker, Validate(w), UNCHANGED sessionVars
  PROVE  Inv'
<1>1. Alive(w) /\ work[w].op = "run" /\ UNCHANGED <<files, ops, mixed, clashed>>
  BY DEF Validate, At
<1>2. CASE Finish(w)
  BY <1>1, <1>2, FinishSafe
<1>3. CASE Installable(scratch[work[w].t]) /\ Go(w, "push")
  <2> DEFINE new == [work[w] EXCEPT !.step = "push"]
  <2>1. Moves(w, new)
    BY <1>3, GoUpdate DEF Inv
  <2>2. new \in WorkRecord /\ new.op = "run" /\ new.step = "push" /\ new.t = work[w].t
    BY <1>1 DEF Inv, TypeOK, WorkRecord
  <2> HIDE DEF new
  <2>3. StepFits(w, new)
    BY <2>2 DEF StepFits
  <2>4. WorkerOK(w)'
    BY <1>1, <1>3, <2>1, <2>2
    DEF Moves, Installable, files, WorkerOK, ResetOK, CheckOK, PushOK
  <2> QED
    BY <1>1, <2>1, <2>2, <2>3, <2>4, QuietSafe
<1> QED
  BY <1>2, <1>3 DEF Validate

LEMMA SessionResetSafe ==
  ASSUME Inv, NEW w \in Worker, ResetMainSession(w), UNCHANGED sessionVars
  PROVE  Inv'
<1> DEFINE new == [work[w] EXCEPT !.step = "end"]
<1>1. /\ Alive(w) /\ work[w].op = "reset" /\ work[w].step = "session"
      /\ UNCHANGED <<files, ops, mixed, clashed>> /\ Moves(w, new)
  BY GoUpdate DEF ResetMainSession, At, Inv
<1>2. /\ new \in WorkRecord /\ new.op = "reset" /\ new.step = "end"
      /\ new.t = work[w].t /\ new.ok = work[w].ok
  BY <1>1 DEF Inv, TypeOK, WorkRecord
<1> HIDE DEF new
<1>3. StepFits(w, new)
  BY <1>2 DEF StepFits
<1>4. WorkerOK(w)'
  <2>1. WorkerOK(w) /\ \A t \in Target : Passed(w, t)
    BY <1>1 DEF Inv, Passed
  <2>2. work'[w] = new /\ UNCHANGED <<scratch, sandbox, mixed, proc>>
    BY <1>1 DEF Moves, files, sessionVars
  <2>3. ResetOK(w)'
    BY <2>1, <2>2, <1>1, <1>2 DEF WorkerOK, ResetOK, Blanked, Alive
  <2> QED
    BY <2>2, <2>3, <1>2 DEF WorkerOK, CheckOK, PushOK
<1> QED
  BY <1>1, <1>2, <1>3, <1>4, QuietSafe

LEMMA FetchSafe ==
  ASSUME Inv, NEW w \in Worker, Fetch(w), UNCHANGED sessionVars
  PROVE  Inv'
<1>1. /\ Alive(w) /\ work[w].op = "check" /\ work[w].step = "fetch"
      /\ UNCHANGED <<files, ops, mixed, clashed>>
  BY DEF Fetch, At
<1>2. PICK ok \in BOOLEAN :
        /\ NextTarget(w, "fetch", "end", ok)
        /\ ok => work[w].ok /\ Configured(sandbox[work[w].t])
  <2>1. PICK fetched \in BOOLEAN :
          NextTarget(w, "fetch", "end", work[w].ok /\ fetched /\ Configured(sandbox[work[w].t]))
    BY DEF Fetch
  <2>2. (work[w].ok /\ fetched /\ Configured(sandbox[work[w].t])) \in BOOLEAN
    BY <2>1
  <2> QED
    BY <2>1, <2>2
<1>3. PICK new \in WorkRecord :
        /\ Moves(w, new) /\ new.op = "check" /\ new.ok = ok
        /\ IF work[w].t = Targets THEN new.t = Targets /\ new.step = "end"
                                  ELSE new.t = work[w].t + 1 /\ new.step = "fetch"
  BY <1>1, <1>2, NextUpdate DEF Inv
<1>4. StepFits(w, new)
  BY <1>1, <1>3 DEF Inv, StepsFit, StepFits
<1>5. \A t \in Target : Passed(w, t)' => Passed(w, t) \/ t = work[w].t
  BY <1>3 DEF Moves, Passed, Inv, TypeOK, Target
<1>6. WorkerOK(w)'
  <2>1. work'[w] = new /\ UNCHANGED <<sandbox, mixed>> /\ WorkerOK(w)
    BY <1>1, <1>3 DEF Moves, files, Inv
  <2>2. CheckOK(w)'
    BY <2>1, <1>1, <1>2, <1>3, <1>5 DEF WorkerOK, CheckOK
  <2> QED
    BY <2>1, <2>2, <1>3 DEF WorkerOK, ResetOK, PushOK
<1> QED
  BY <1>1, <1>3, <1>4, <1>6, QuietSafe

\* A console that moves on without being at a push or in a reset.
LEMMA RunFits ==
  ASSUME NEW w \in Worker, NEW new \in WorkRecord, work'[w] = new,
         new.op = "run", new.step \in {"edit", "validate", "push"},
         new.step = "push" => new.t \notin Skill
  PROVE  StepFits(w, new) /\ WorkerOK(w)'
BY DEF StepFits, WorkerOK, ResetOK, CheckOK, PushOK

\* A write of a scratch copy by a worker that moves on.
LEMMA WriteSafe ==
  ASSUME Inv, NEW w \in Worker, Alive(w), UNCHANGED <<sessionVars, sandbox, ops>>,
         NEW t \in Target, NEW content \in Content, WriteScratch(w, t, content),
         work[w].op = "run" \/ (work[w].op = "reset" /\ content = "blank"),
         NEW new \in WorkRecord, Moves(w, new), StepFits(w, new), WorkerOK(w)'
  PROVE  Inv'
<1>1. OthersMoveOn(w)
  BY DEF OthersMoveOn, Moves, WriteScratch, Touch
<1>2. /\ \A u \in Worker \ {w} : WorkerOK(u)'
      /\ scratch' \in [Target -> Content] /\ clashed \subseteq clashed'
      /\ mixed' \subseteq Worker /\ clashed' \subseteq Target
  BY <1>1, OthersSeeWrite
<1>3. SkillsInstallable'
  BY <1>2 DEF Inv, SkillsInstallable
<1> QED
  BY <1>2, <1>3, WorkerSteps DEF Inv, TypeOK

LEMMA DownloadSafe ==
  ASSUME Inv, NEW w \in Worker, Download(w), UNCHANGED sessionVars
  PROVE  Inv'
<1> DEFINE new == [work[w] EXCEPT !.step = "edit"]
<1>1. /\ Alive(w) /\ work[w].op = "run" /\ UNCHANGED <<sandbox, ops>> /\ Moves(w, new)
  BY GoUpdate DEF Download, At, Inv
<1>2. /\ new \in WorkRecord /\ new.op = "run" /\ new.step = "edit"
      /\ work[w].t \in Target /\ sandbox[work[w].t] \in Content
  BY <1>1 DEF Inv, TypeOK, WorkRecord
<1> HIDE DEF new
<1>3. StepFits(w, new) /\ WorkerOK(w)'
  BY <1>1, <1>2, RunFits DEF Moves
<1>4. CASE WriteScratch(w, work[w].t, sandbox[work[w].t])
  BY <1>1, <1>2, <1>3, <1>4, WriteSafe
<1>5. CASE UNCHANGED <<scratch, mixed, clashed>>
  BY <1>1, <1>2, <1>3, <1>5, QuietSafe DEF files
<1> QED
  BY <1>4, <1>5 DEF Download

LEMMA EditSafe ==
  ASSUME Inv, NEW w \in Worker, Edit(w), UNCHANGED sessionVars
  PROVE  Inv'
<1>1. Alive(w) /\ work[w].op = "run" /\ UNCHANGED <<sandbox, ops>> /\ work[w].t \in Target
  BY DEF Edit, At, Inv, TypeOK
<1>2. CASE Finish(w) /\ UNCHANGED <<scratch, mixed, clashed>>
  BY <1>1, <1>2, FinishSafe DEF files
<1>3. CASE /\ Go(w, AfterEdit(w))
           /\ \/ \E c \in Content \ {"none"} : WriteScratch(w, work[w].t, c)
              \/ UNCHANGED <<scratch, mixed, clashed>>
  <2> DEFINE new == [work[w] EXCEPT !.step = AfterEdit(w)]
  <2>1. AfterEdit(w) \in {"validate", "push"} /\ (AfterEdit(w) = "push" => work[w].t \notin Skill)
    BY DEF AfterEdit
  <2>2. Moves(w, new)
    BY <1>3, <2>1, GoUpdate DEF Inv
  <2>3. /\ new \in WorkRecord /\ new.op = "run" /\ new.step = AfterEdit(w) /\ new.t = work[w].t
    BY <1>1, <2>1 DEF Inv, TypeOK, WorkRecord
  <2> HIDE DEF new
  <2>4. StepFits(w, new) /\ WorkerOK(w)'
    BY <2>1, <2>2, <2>3, RunFits DEF Moves
  <2>5. CASE \E c \in Content \ {"none"} : WriteScratch(w, work[w].t, c)
    BY <1>1, <2>2, <2>3, <2>4, <2>5, WriteSafe
  <2>6. CASE UNCHANGED <<scratch, mixed, clashed>>
    BY <1>1, <2>2, <2>3, <2>4, <2>6, QuietSafe DEF files
  <2> QED
    BY <1>3, <2>5, <2>6
<1> QED
  BY <1>2, <1>3 DEF Edit

LEMMA PushTargetSafe ==
  ASSUME Inv, NEW w \in Worker, PushTarget(w), UNCHANGED sessionVars
  PROVE  Inv'
<1>1. /\ Alive(w) /\ work[w].op = "run" /\ work[w].step = "push" /\ Finish(w)
      /\ UNCHANGED <<scratch, ops, clashed>>
  BY DEF PushTarget, At
<1>2. CASE UNCHANGED <<sandbox, mixed>>
  BY <1>1, <1>2, FinishSafe DEF files
<1>3. CASE Push(w)
  <2>1. Moves(w, Idle)
    BY <1>1, FinishUpdate DEF Inv
  <2>2. OthersMoveOn(w)
    BY <1>3, <2>1 DEF OthersMoveOn, Moves, Push, Touch
  <2>3. /\ \A u \in Worker \ {w} : WorkerOK(u)'
        /\ sandbox' \in [Target -> Content] /\ mixed' \subseteq Worker /\ SkillsInstallable'
    BY <1>1, <1>3, <2>2, OthersSeePush
  <2>4. Idle \in WorkRecord /\ StepFits(w, Idle) /\ WorkerOK(w)'
    BY <2>1, IdleFits DEF Moves
  <2> QED
    BY <1>1, <2>1, <2>3, <2>4, WorkerSteps DEF Inv, TypeOK
<1> QED
  BY <1>2, <1>3 DEF PushTarget

LEMMA BlankSafe ==
  ASSUME Inv, NEW w \in Worker, Blank(w), UNCHANGED sessionVars
  PROVE  Inv'
<1> DEFINE new == [work[w] EXCEPT !.step = "push"]
<1>1. /\ Alive(w) /\ work[w].op = "reset" /\ work[w].step = "blank" /\ UNCHANGED <<sandbox, ops>>
      /\ Moves(w, new) /\ WriteScratch(w, work[w].t, "blank")
  BY GoUpdate DEF Blank, At, Inv
<1>2. /\ new \in WorkRecord /\ new.op = "reset" /\ new.step = "push"
      /\ new.t = work[w].t /\ new.ok = work[w].ok /\ work[w].t \in Target /\ "blank" \in Content
  BY <1>1 DEF Inv, TypeOK, WorkRecord, Content
<1> HIDE DEF new
<1>3. StepFits(w, new)
  BY <1>2 DEF StepFits
<1>4. OthersMoveOn(w)
  BY <1>1 DEF OthersMoveOn, Moves, WriteScratch, Touch
<1>5. /\ mixed \subseteq mixed'
      /\ \A v \in Target : scratch'[v] = IF v = work[w].t THEN "blank" ELSE scratch[v]
  BY <1>1, <1>2, <1>4, OthersSeeWrite
<1>6. WorkerOK(w)'
  <2>1. work'[w] = new /\ UNCHANGED <<sandbox, proc>> /\ WorkerOK(w)
    BY <1>1 DEF Moves, sessionVars, Inv
  <2>2. \A t \in Target : Passed(w, t)' => Passed(w, t)
    BY <2>1, <1>2 DEF Passed
  <2>3. scratch'[new.t] = "blank"
    BY <1>2, <1>5
  <2>4. ResetOK(w)'
    <3> SUFFICES ASSUME Alive(w)', new.ok, w \notin mixed'
                 PROVE  Blanked(w)'
      BY <2>1 DEF ResetOK
    <3>1. Blanked(w)
      BY <2>1, <1>1, <1>2, <1>5 DEF WorkerOK, ResetOK
    <3>2. \A t \in Target : Passed(w, t)' => scratch'[t] = "blank" /\ sandbox[t] = "blank"
      BY <3>1, <2>2, <1>5 DEF Blanked
    <3> QED
      BY <3>2, <2>1, <2>3 DEF Blanked
  <2>5. CheckOK(w)' /\ PushOK(w)'
    BY <2>1, <2>3, <1>2 DEF CheckOK, PushOK
  <2> QED
    BY <2>4, <2>5 DEF WorkerOK
<1> QED
  BY <1>1, <1>2, <1>3, <1>6, WriteSafe

LEMMA PushBlankSafe ==
  ASSUME Inv, NEW w \in Worker, PushBlank(w), UNCHANGED sessionVars
  PROVE  Inv'
<1>1. /\ Alive(w) /\ work[w].op = "reset" /\ work[w].step = "push"
      /\ UNCHANGED <<scratch, ops, clashed>> /\ WorkerOK(w) /\ work[w].t \in Target
      /\ work[w].ok \in BOOLEAN
  BY DEF PushBlank, At, Inv, TypeOK
<1>2. PICK ok \in BOOLEAN :
        /\ NextTarget(w, "blank", "session", ok)
        /\ \/ Push(w) /\ (ok => work[w].ok)
           \/ UNCHANGED <<sandbox, mixed>> /\ ~ok
  <2>1. CASE Push(w) /\ NextTarget(w, "blank", "session", StillOk(w, TRUE))
    <3>1. StillOk(w, TRUE) \in BOOLEAN /\ (StillOk(w, TRUE) => work[w].ok)
      BY DEF StillOk
    <3> QED
      BY <2>1, <3>1
  <2>2. CASE UNCHANGED <<sandbox, mixed>> /\ NextTarget(w, "blank", "session", StillOk(w, FALSE))
    <3>1. StillOk(w, FALSE) \in BOOLEAN /\ ~StillOk(w, FALSE)
      BY DEF StillOk
    <3> QED
      BY <2>2, <3>1
  <2> QED
    BY <2>1, <2>2 DEF PushBlank
<1>3. PICK new \in WorkRecord :
        /\ Moves(w, new) /\ new.op = "reset" /\ new.ok = ok
        /\ IF work[w].t = Targets THEN new.t = Targets /\ new.step = "session"
                                  ELSE new.t = work[w].t + 1 /\ new.step = "blank"
  BY <1>1, <1>2, NextUpdate DEF Inv
<1>4. StepFits(w, new) /\ new.step # "push"
  BY <1>3 DEF StepFits
<1>5. \A t \in Target : Passed(w, t)' => Passed(w, t) \/ t = work[w].t
  BY <1>3 DEF Moves, Passed, Inv, TypeOK, Target
<1>6. work'[w] = new /\ CheckOK(w)' /\ PushOK(w)'
  BY <1>3, <1>4 DEF Moves, CheckOK, PushOK
<1>7. CASE Push(w) /\ (ok => work[w].ok)
  <2>1. OthersMoveOn(w)
    BY <1>3, <1>7 DEF OthersMoveOn, Moves, Push, Touch
  <2>2. /\ \A u \in Worker \ {w} : WorkerOK(u)'
        /\ sandbox' \in [Target -> Content] /\ mixed' \subseteq Worker /\ mixed \subseteq mixed'
        /\ \A v \in Target : sandbox'[v] = IF v = work[w].t THEN scratch[v] ELSE sandbox[v]
        /\ SkillsInstallable'
    BY <1>1, <1>7, <2>1, OthersSeePush
  <2>3. ResetOK(w)'
    <3> SUFFICES ASSUME Alive(w)', ok, w \notin mixed'
                 PROVE  Blanked(w)'
      BY <1>3, <1>6 DEF ResetOK
    <3>1. Blanked(w)
      BY <1>1, <1>7, <2>2 DEF WorkerOK, ResetOK
    <3>2. scratch[work[w].t] = "blank"
      BY <3>1, <1>1 DEF Blanked
    <3>3. \A t \in Target : Passed(w, t)' => scratch[t] = "blank" /\ sandbox'[t] = "blank"
      BY <3>1, <3>2, <1>5, <2>2 DEF Blanked
    <3> QED
      BY <3>3, <1>1, <1>4, <1>6 DEF Blanked
  <2>4. WorkerOK(w)'
    BY <1>6, <2>3 DEF WorkerOK
  <2> QED
    BY <1>1, <1>3, <1>4, <2>2, <2>4, WorkerSteps DEF Inv, TypeOK
<1>8. CASE UNCHANGED <<sandbox, mixed>> /\ ~ok
  <2>1. WorkerOK(w)'
    BY <1>3, <1>6, <1>8 DEF WorkerOK, ResetOK
  <2> QED
    BY <1>1, <1>3, <1>4, <1>8, <2>1, QuietSafe DEF files
<1> QED
  BY <1>2, <1>7, <1>8

-----------------------------------------------------------------------------
LEMMA InitSafe == Init => Inv
<1> SUFFICES ASSUME Init
             PROVE  Inv
  OBVIOUS
<1>1. SessionInv
  BY SessionInitSafe DEF Init
<1>2. Idle \in WorkRecord
  BY ConsoleAssumption DEF Idle, WorkRecord, Target
<1>3. TypeOK
  BY <1>1, <1>2, ConsoleAssumption DEF Init, TypeOK, SessionInv, WorkRecord, Content
<1>4. StepsFit /\ ConsolesStartIdle /\ SkillsInstallable
  BY ConsoleAssumption
  DEF Init, StepsFit, StepFits, ConsolesStartIdle, SkillsInstallable, Idle, Worker
<1>5. \A w \in Worker : WorkerOK(w)
  BY DEF Init, WorkerOK, ResetOK, CheckOK, PushOK, Idle
<1> QED
  BY <1>1, <1>3, <1>4, <1>5 DEF Inv

LEMMA StepSafe == Inv /\ [Next]_vars => Inv'
<1> SUFFICES ASSUME Inv, [Next]_vars
             PROVE  Inv'
  OBVIOUS
<1>1. CASE UNCHANGED vars \/ (SessionNext /\ UNCHANGED personaVars)
  BY <1>1, SessionKeepsWork DEF vars
<1>2. ASSUME NEW w \in Worker, UNCHANGED sessionVars,
             RunReset(w) \/ CheckConfigured(w) \/ \E t \in Target : RunTarget(w, t)
      PROVE  Inv'
  BY <1>2, StartSafe
<1>3. ASSUME NEW w \in Worker, UNCHANGED sessionVars, Works(w)
      PROVE  Inv'
  <2>1. CASE Answer(w)
    BY <1>3, <2>1, FinishSafe DEF Answer
  <2> QED
    BY <1>3, <2>1, DownloadSafe, EditSafe, ValidateSafe, PushTargetSafe, BlankSafe, PushBlankSafe,
       SessionResetSafe, FetchSafe DEF Works
<1> QED
  BY <1>1, <1>2, <1>3 DEF Next, PersonaNext

LEMMA Invariant == Spec => []Inv
BY InitSafe, StepSafe, PTL DEF Spec

\* Every variable keeps to what the code can hold.
THEOREM ConsoleTypeCorrect == Spec => []TypeOK
<1>1. Inv => TypeOK
  BY DEF Inv
<1> QED
  BY <1>1, Invariant, PTL

\* The panel says "ended" only of the latest process, and only if that has
\* ended by itself (terminal_ws, TerminalPanel ws.onmessage).
THEOREM EndIsTrue == Spec => []EndedByItself
<1>1. Inv => EndedByItself
  BY DEF Inv, SessionInv
<1> QED
  BY <1>1, Invariant, PTL

\* However often the panel reconnects, at most one of its sockets is live
\* (connect, ws.onclose).
THEOREM SocketsDoNotPileUp == Spec => []OneLiveSocket
<1>1. Inv => OneLiveSocket
  BY DEF Inv, SessionInv, SocketsKnown, Live, OneLiveSocket
<1> QED
  BY <1>1, Invariant, PTL

\* A reset nobody disturbs has blanked what it has passed, next to any
\* number of other resets (run_reset).
THEOREM ResetsBlank == Spec => []ResetBlanks
<1>1. Inv => ResetBlanks
  BY DEF Inv, WorkerOK, ResetOK, Blanked, Passed, ResetBlanks
<1> QED
  BY <1>1, Invariant, PTL

\* A skill that cannot be installed reaches the sandbox only if its scratch
\* copy was changed between check and push (run_target).
THEOREM SkillsAreChecked == Spec => []SkillsInstallable
<1>1. Inv => SkillsInstallable
  BY DEF Inv
<1> QED
  BY <1>1, Invariant, PTL

\* A check that nobody disturbs passes only a sandbox with every target
\* (check_configured).
THEOREM ChecksAreTrue == Spec => []CheckIsTrue
<1>1. Inv => CheckIsTrue
  BY DEF Inv, TypeOK, Content, WorkerOK, CheckOK, Passed, Configured, CheckIsTrue
<1> QED
  BY <1>1, Invariant, PTL
=============================================================================
