--------------------------- MODULE PersonaConsole ----------------------------
(***************************************************************************)
(* The restricted operator console: the process of a terminal session that *)
(* downloads, edits and pushes the files of the agent's persona, and the   *)
(* daemon's POST /reset and GET /config-status, which run its functions in *)
(* a thread.  All of them work on the same scratch files and the same      *)
(* sandbox, one nemoclaw command at a time, without any lock; closing the  *)
(* browser kills a console wherever it is.                                 *)
(*                                                                         *)
(* Of a file the module keeps whether it is absent, the blank stub, some   *)
(* text that can be installed, or a mangled one.                           *)
(***************************************************************************)
EXTENDS TerminalSession

CONSTANTS
  Targets,  \* number of menu targets
  Skill,    \* the targets that are skills
  Jobs,     \* number of requests to /reset and /config-status at one time
  Preset,   \* what the sandbox holds of every target at first
  MaxOps    \* bound: operations started

Target == 1 .. Targets
Job == Sessions + 1 .. Sessions + Jobs  \* the daemon's threads
Worker == Session \cup Job

ASSUME ConsoleAssumption ==
  /\ Preset \in {"none", "text"}
  /\ Targets \in Nat \ {0} /\ Skill \subseteq Target /\ {Jobs, MaxOps} \subseteq Nat

VARIABLES
  scratch,  \* host: the tenant's scratch copy of each target
  sandbox,  \* the sandbox's copy
  work,     \* what each console or daemon thread is doing
  ops,      \* counter for the bound
  mixed,    \* history: workers whose files were changed under them by another kind of operation
  clashed   \* history: targets whose scratch copy changed between check and push

files == <<scratch, sandbox>>
personaVars == <<files, work, ops, mixed, clashed>>
vars == <<sessionVars, personaVars>>

Content == {"none", "blank", "text", "mangled"}
Idle == [op |-> "idle", step |-> "start", t |-> 1, ok |-> TRUE]

TypeOK ==
  /\ SessionTypeOK
  /\ scratch \in [Target -> Content] /\ sandbox \in [Target -> Content]
  /\ work \in [Worker -> [op: {"idle", "run", "reset", "check"}, t: Target, ok: BOOLEAN,
       step: {"start", "download", "edit", "validate", "blank", "push", "session", "fetch", "end"}]]
  /\ ops \in 0 .. MaxOps
  /\ mixed \subseteq Worker /\ clashed \subseteq Target

\* A sandbox as it is set up, or one with a persona from before.
Init ==
  /\ SessionInit
  /\ sandbox = [t \in Target |-> Preset]
  /\ scratch = [t \in Target |-> "none"]
  /\ work = [w \in Worker |-> Idle]
  /\ ops = 0 /\ mixed = {} /\ clashed = {}

\* Consoles live as long as their process.
Alive(w) == w \in Session => proc[w] = "running"
At(w, op, step) == Alive(w) /\ work[w].op = op /\ work[w].step = step

Go(w, step) == work' = [work EXCEPT ![w].step = step]
Finish(w) == work' = [work EXCEPT ![w] = Idle]

\* Mutant of NextTarget: the loop runs once too often.
NextTargetPast(w, first, last, ok) ==
  work' = [work EXCEPT ![w].ok = ok, ![w].t = @ + 1,
    ![w].step = IF work[w].t > Targets THEN last ELSE first]

\* The next target of a reset or a check, or what comes after the last.
NextTarget(w, first, last, ok) ==
  work' = [work EXCEPT ![w].ok = ok,
    ![w].t = IF @ = Targets THEN @ ELSE @ + 1,
    ![w].step = IF work[w].t = Targets THEN last ELSE first]

\* Worker w changes files: operations of another kind under way are mixed
\* up, and so is a push of the same scratch copy.
Touch(w) == mixed' = mixed \cup {u \in Worker : u # w /\ work[u].op \notin {"idle", work[w].op}}
WriteScratch(w, t, content) ==
  /\ scratch' = [scratch EXCEPT ![t] = content]
  /\ Touch(w)
  /\ clashed' = IF \E u \in Worker \ {w} : work[u].step = "push" /\ work[u].t = t
                THEN clashed \cup {t} ELSE clashed

\* upload or skill install of whatever the scratch copy holds by now.
Push(w) ==
  LET t == work[w].t IN
  /\ scratch[t] # "none"
  /\ sandbox' = [sandbox EXCEPT ![t] = scratch[t]]
  /\ Touch(w)

Start(w, op, step, t) ==
  /\ ops < MaxOps /\ ops' = ops + 1
  /\ Alive(w) /\ work[w].op = "idle"
  /\ work' = [work EXCEPT ![w] = [op |-> op, step |-> step, t |-> t, ok |-> TRUE]]
  /\ mixed' = IF \E u \in Worker \ {w} : Alive(u) /\ work[u].op \notin {"idle", op}
              THEN mixed \cup {w} ELSE mixed \ {w}
  /\ UNCHANGED <<files, clashed>>

-----------------------------------------------------------------------------
(* run_target                                                              *)

RunTarget(w, t) == w \in Session /\ Start(w, "run", "download", t)

\* A failing download leaves the scratch copy as it is.
Download(w) ==
  /\ At(w, "run", "download") /\ Go(w, "edit")
  /\ \/ /\ sandbox[work[w].t] # "none"
        /\ WriteScratch(w, work[w].t, sandbox[work[w].t])
     \/ UNCHANGED <<scratch, mixed, clashed>>
  /\ UNCHANGED <<sandbox, ops>>

AfterEdit(w) == IF work[w].t \in Skill THEN "validate" ELSE "push"

\* The editor saves something or nothing, or is not there.
Edit(w) ==
  /\ At(w, "run", "edit")
  /\ \/ /\ Go(w, AfterEdit(w))
        /\ \E c \in Content \ {"none"} : WriteScratch(w, work[w].t, c)
     \/ /\ Go(w, AfterEdit(w)) \/ Finish(w)
        /\ UNCHANGED <<scratch, mixed, clashed>>
  /\ UNCHANGED <<sandbox, ops>>

\* Mutant of Installable: the file needs only to be there.
InstallableAny(content) == content # "none"

\* validate_skill_content: the blank stub has its frontmatter.
Installable(content) == content \in {"blank", "text"}

Validate(w) ==
  /\ At(w, "run", "validate")
  /\ IF Installable(scratch[work[w].t]) THEN Go(w, "push") ELSE Finish(w)
  /\ UNCHANGED <<files, ops, mixed, clashed>>

PushTarget(w) ==
  /\ At(w, "run", "push") /\ Finish(w)
  /\ Push(w) \/ UNCHANGED <<sandbox, mixed>>
  /\ UNCHANGED <<scratch, ops, clashed>>

-----------------------------------------------------------------------------
(* run_reset and check_configured                                          *)

RunReset(w) == Start(w, "reset", "blank", 1)

Blank(w) ==
  /\ At(w, "reset", "blank") /\ Go(w, "push")
  /\ WriteScratch(w, work[w].t, "blank")
  /\ UNCHANGED <<sandbox, ops>>

\* Mutant of StillOk: a failing push does not fail the reset.
StillOkAlways(w, pushed) == work[w].ok

StillOk(w, pushed) == work[w].ok /\ pushed

\* A failing push is noted and the reset goes on.
PushBlank(w) ==
  /\ At(w, "reset", "push")
  /\ \/ Push(w) /\ NextTarget(w, "blank", "session", StillOk(w, TRUE))
     \/ UNCHANGED <<sandbox, mixed>> /\ NextTarget(w, "blank", "session", StillOk(w, FALSE))
  /\ UNCHANGED <<scratch, ops, clashed>>

\* reset_main_session is best effort: it never fails the reset.
ResetMainSession(w) ==
  /\ At(w, "reset", "session") /\ Go(w, "end")
  /\ UNCHANGED <<files, ops, mixed, clashed>>

CheckConfigured(w) == w \in Job /\ Start(w, "check", "fetch", 1)

\* Mutant of Configured: a file that is there counts.
ConfiguredAny(content) == content # "none"

Configured(content) == content \notin {"none", "blank"}

\* A download that fails counts like a file that was never pushed.
Fetch(w) ==
  /\ At(w, "check", "fetch")
  /\ \E fetched \in BOOLEAN :
       NextTarget(w, "fetch", "end", work[w].ok /\ fetched /\ Configured(sandbox[work[w].t]))
  /\ UNCHANGED <<files, ops, mixed, clashed>>

\* The answer of a reset or a check.
Answer(w) ==
  /\ Alive(w) /\ work[w].step = "end" /\ Finish(w)
  /\ UNCHANGED <<files, ops, mixed, clashed>>

-----------------------------------------------------------------------------
Works(w) ==
  \/ Download(w) \/ Edit(w) \/ Validate(w) \/ PushTarget(w)
  \/ Blank(w) \/ PushBlank(w) \/ ResetMainSession(w) \/ Fetch(w) \/ Answer(w)

PersonaNext ==
  \E w \in Worker :
    \/ \E t \in Target : RunTarget(w, t)
    \/ RunReset(w) \/ CheckConfigured(w) \/ Works(w)

Next ==
  \/ SessionNext /\ UNCHANGED personaVars
  \/ PersonaNext /\ UNCHANGED sessionVars

Spec == Init /\ [][Next]_vars

\* The services and the browser go on by themselves.
FairSpec == Spec /\ \A s \in Session : WF_sessionVars(SessionServes(s) /\ UNCHANGED personaVars)

-----------------------------------------------------------------------------
(* Properties                                                              *)

\* A reset blanks every target it has passed and did not fail on, also
\* next to other resets and with consoles killed meanwhile, as long as
\* nobody edits or pushes a target at the same time (run_reset).
ResetBlanks ==
  \A w \in Worker : Alive(w) /\ work[w].op = "reset" /\ work[w].ok /\ w \notin mixed =>
    \A t \in Target :
      t < work[w].t \/ work[w].step \in {"session", "end"} => sandbox[t] = "blank"

\* No skill that cannot be installed gets into the sandbox unless its
\* scratch copy was changed between the check of it and the push (run_target).
SkillsInstallable == \A t \in Skill : sandbox[t] = "mangled" => t \in clashed

\* The gate lets a fault be injected only if every target is in the
\* sandbox, unless something was pushed during the check (check_configured).
CheckIsTrue ==
  \A w \in Worker : work[w].op = "check" /\ work[w].step = "end" /\ work[w].ok /\ w \notin mixed =>
    \A t \in Target : sandbox[t] \in {"text", "mangled"}
=============================================================================
