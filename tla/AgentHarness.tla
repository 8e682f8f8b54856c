----------------------------- MODULE AgentHarness -----------------------------
(***************************************************************************)
(* The OpenClaw plugin's harness: one module variable, the investigation   *)
(* under way, shared by all tool calls of the agent.  A tool call awaits   *)
(* the Gateway and MCP Tools, and between two awaits it reads and writes   *)
(* the investigation that is current by then.  The webhook wakes the agent *)
(* and so does a cron job every minute, so tool calls of two turns may     *)
(* overlap; within one turn they come one after the other, in an order the *)
(* model chooses.                                                          *)
(*                                                                         *)
(* Narration is an await and nothing else.  Of the Gateway the module      *)
(* keeps what the plugin can tell apart: a fault is open, over (resolved   *)
(* or denied) or gone, and which parts of its diagnosis are recorded.  A   *)
(* signature handed to kb_search is taken to be a non-empty one.           *)
(***************************************************************************)

CONSTANTS
  FaultId,   \* ids the Gateway issues, each one once
  Turn,      \* agent turns that may run at one time
  None

ASSUME HarnessAssumption == None \notin FaultId

VARIABLES
  current,   \* plugin: the fault of `current`, or None
  flags,     \* plugin: what is set in the investigation of each fault
  call,      \* plugin: the tool call each turn is in
  known,     \* Gateway: "new" (never issued), "open", "over" or "gone"
  diagnosis, \* Gateway: recorded parts of each fault's diagnosis
  proposals,   \* history: faults that were put to awaiting_approval by a proposal
  concluded,   \* history: faults that have been over or gone
  overlapped,  \* history: a tool call started while another was under way
  disturbed    \* history: a request failed or its answer was lost

gateway == <<known, diagnosis, proposals, concluded>>
vars == <<current, flags, call, gateway, overlapped, disturbed>>

Flag == {"signatureRecorded", "diagnosed", "proposed"}
Part == {"signature", "kb"}

\* Where a tool call waits: in asks the Gateway or MCP Tools for something
\* that matters, in the others for a narration or a search result.
Asking == {"list", "check", "register", "diagnosing", "signature", "diagnosis", "propose"}
Pausing == {"waiting", "sig_post", "kb", "kb_post"}

\* "broken" is the TypeError of reading a property of a null investigation.
ToolCall == [pc: Asking \cup Pausing \cup {"idle", "broken"},
             fault: FaultId \cup {None}, parts: SUBSET Part,
             reply: {"pending", "ok", "over", "error", "failed", "lost"}]

NoCall == [pc |-> "idle", fault |-> None, parts |-> {}, reply |-> "pending"]

TypeOK ==
  /\ current \in FaultId \cup {None}
  /\ flags \in [FaultId -> SUBSET Flag]
  /\ call \in [Turn -> ToolCall]
  /\ known \in [FaultId -> {"new", "open", "over", "gone"}]
  /\ diagnosis \in [FaultId -> SUBSET Part]
  /\ proposals \subseteq FaultId /\ concluded \subseteq FaultId
  /\ {overlapped, disturbed} \subseteq BOOLEAN

Init ==
  /\ current = None
  /\ flags = [f \in FaultId |-> {}]
  /\ call = [t \in Turn |-> NoCall]
  /\ known = [f \in FaultId |-> "new"]
  /\ diagnosis = [f \in FaultId |-> {}]
  /\ proposals = {} /\ concluded = {}
  /\ overlapped = FALSE /\ disturbed = FALSE

Busy(t) == call[t].pc \notin {"idle", "broken"}
Is(flag) == current # None /\ flag \in flags[current]

\* The tool call of turn t goes on to wait in pc, or ends.
Await(t, pc, f, parts) ==
  call' = [call EXCEPT ![t] = [pc |-> pc, fault |-> f, parts |-> parts, reply |-> "pending"]]
Return(t) == call' = [call EXCEPT ![t] = NoCall]
Break(t) == call' = [call EXCEPT ![t] = [NoCall EXCEPT !.pc = "broken"]]

\* A new tool call of turn t; what it does to the rest is the caller's.
Begin(t) ==
  /\ ~Busy(t)
  /\ overlapped' = (overlapped \/ \E u \in Turn : Busy(u))
  /\ UNCHANGED <<gateway, disturbed>>

\* The code after an await of turn t.
Resume(t, pc) ==
  /\ call[t].pc = pc
  /\ pc \in Asking => call[t].reply # "pending"
  /\ UNCHANGED <<gateway, overlapped, disturbed>>

Mark(flag) == flags' = [flags EXCEPT ![current] = @ \cup {flag}]

-----------------------------------------------------------------------------
(* monitor_list_events and logs_get_bundle                                 *)

\* An idle agent with no investigation only lists the events.
ListEvents(t) ==
  /\ Begin(t)
  /\ current # None /\ Await(t, "list", current, {})
  /\ UNCHANGED <<current, flags>>

\* faultIsTerminal: an answer other than success counts as terminal, an
\* unreachable Gateway does not.
Terminal(t) == call[t].reply \in {"over", "failed"}

ListCleared(t) ==
  /\ Resume(t, "list")
  /\ current' = IF Terminal(t) THEN None ELSE current
  /\ Return(t)
  /\ UNCHANGED flags

\* registerFaultFromLogs has a bundle.
LogsGetBundle(t) ==
  /\ Begin(t)
  /\ IF current = None THEN Await(t, "register", None, {})
                       ELSE Await(t, "check", current, {})
  /\ UNCHANGED <<current, flags>>

\* Mutant of LogsChecked: every bundle is registered.
LogsCheckedRegisters(t) ==
  /\ Resume(t, "check")
  /\ current' = None
  /\ Await(t, "register", None, {})
  /\ UNCHANGED flags

LogsChecked(t) ==
  /\ Resume(t, "check")
  /\ current' = IF Terminal(t) THEN None ELSE current
  /\ \/ current' = None /\ Await(t, "register", None, {})
     \/ current' # None /\ Is("proposed") /\ Await(t, "waiting", current, {})
     \/ current' # None /\ ~Is("proposed") /\ Return(t)
  /\ UNCHANGED flags

\* The value returned to the model reads current.faultId.
Stamp(t) == IF current = None THEN Break(t) ELSE Return(t)

\* Mutant of Registered: the registration is not made the current one.
RegisteredUnpinned(t) ==
  /\ Resume(t, "register")
  /\ IF call[t].reply = "ok" THEN Await(t, "diagnosing", call[t].fault, {}) ELSE Return(t)
  /\ UNCHANGED <<current, flags>>

\* Mutant of Registered: current is set to the answer, not to its id.
RegisteredAnswer(t) ==
  /\ Resume(t, "register")
  /\ current' = call[t].reply
  /\ Return(t)
  /\ UNCHANGED flags

Registered(t) ==
  /\ Resume(t, "register")
  /\ \/ /\ call[t].reply = "ok"
        /\ current' = call[t].fault
        /\ flags' = [flags EXCEPT ![call[t].fault] = {}]
        /\ Await(t, "diagnosing", call[t].fault, {})
     \/ call[t].reply # "ok" /\ Return(t) /\ UNCHANGED <<current, flags>>

\* A lost PATCH throws; a refused one is not looked at.
DiagnosingSet(t) ==
  /\ Resume(t, "diagnosing")
  /\ IF call[t].reply = "lost" THEN Return(t) ELSE Stamp(t)
  /\ UNCHANGED <<current, flags>>

Waited(t) ==
  /\ Resume(t, "waiting")
  /\ Stamp(t)
  /\ UNCHANGED <<current, flags>>

-----------------------------------------------------------------------------
(* kb_search: recordSignature, the search, recordKbResult                  *)

KbSearch(t) ==
  /\ Begin(t)
  /\ IF current = None \/ Is("diagnosed") \/ Is("signatureRecorded")
     THEN Await(t, "kb", None, {})
     ELSE Await(t, "sig_post", current, {})
  /\ UNCHANGED <<current, flags>>

\* Mutant of SignatureNarrated: the signature is marked but not sent.
SignatureNarratedOnly(t) ==
  /\ Resume(t, "sig_post")
  /\ current # None /\ Mark("signatureRecorded")
  /\ Await(t, "kb", None, {})
  /\ UNCHANGED current

\* From here to the flag is inside a try: a null investigation is caught.
SignatureNarrated(t) ==
  /\ Resume(t, "sig_post")
  /\ IF current = None THEN Await(t, "kb", None, {})
                       ELSE Await(t, "signature", current, {"signature"})
  /\ UNCHANGED <<current, flags>>

SignatureRecorded(t) ==
  /\ Resume(t, "signature")
  /\ IF call[t].reply # "lost" /\ current # None THEN Mark("signatureRecorded")
                                                 ELSE UNCHANGED flags
  /\ Await(t, "kb", None, {})
  /\ UNCHANGED current

\* The search found an article or not; when MCP Tools is out of reach the
\* call throws.
KbFound(t) ==
  /\ Resume(t, "kb")
  /\ IF current = None \/ Is("diagnosed") THEN Return(t)
     ELSE \E parts \in {{}, {"kb"}} : Await(t, "kb_post", current, parts)
  /\ UNCHANGED <<current, flags>>

KbUnreachable(t) ==
  /\ Resume(t, "kb")
  /\ Return(t)
  /\ UNCHANGED <<current, flags>>

\* The fallback adds the signature when it is not recorded yet.
KbNarrated(t) ==
  /\ Resume(t, "kb_post")
  /\ LET parts == call[t].parts \cup
                  (IF Is("signatureRecorded") THEN {} ELSE {"signature"})
     IN \/ current = None /\ Break(t) /\ UNCHANGED flags
        \/ current # None /\ parts = {} /\ Mark("diagnosed") /\ Return(t)
        \/ /\ current # None /\ parts # {}
           /\ Await(t, "diagnosis", current, parts)
           /\ UNCHANGED flags
  /\ UNCHANGED current

\* Mutant of KbRecorded: the investigation is not marked.
KbRecordedUnmarked(t) ==
  /\ Resume(t, "diagnosis")
  /\ Stamp(t)
  /\ UNCHANGED <<current, flags>>

\* The PATCH is inside a try, the flag is not.
KbRecorded(t) ==
  /\ Resume(t, "diagnosis")
  /\ Stamp(t)
  /\ IF current = None THEN UNCHANGED flags ELSE Mark("diagnosed")
  /\ UNCHANGED current

-----------------------------------------------------------------------------
(* remediation_propose                                                     *)

RemediationPropose(t) ==
  /\ Begin(t)
  /\ current # None /\ ~Is("proposed")
  /\ Await(t, "propose", current, {})
  /\ UNCHANGED <<current, flags>>

\* Mutant of Proposed: marked whatever the answer says.
ProposedUnchecked(t) ==
  /\ Resume(t, "propose")
  /\ IF call[t].reply # "lost" /\ current # None THEN Mark("proposed") ELSE UNCHANGED flags
  /\ Return(t)
  /\ UNCHANGED current

\* callMcpTool returns the text of a failed tool like that of any other: it
\* is no JSON, so it is no object with status "error" either, and passes for
\* success.  markProposed marks the investigation that is current by now.
Proposed(t) ==
  /\ Resume(t, "propose")
  /\ IF call[t].reply \in {"ok", "failed"} /\ current # None THEN Mark("proposed")
                                                             ELSE UNCHANGED flags
  /\ Return(t)
  /\ UNCHANGED current

-----------------------------------------------------------------------------
(* The Gateway, and MCP Tools for the proposal                             *)

Issued(f) == known[f] # "new"
Present(f) == known[f] \in {"open", "over"}

\* The request of turn t in one of pcs is performed and answered.
Answer(t, pcs, reply) ==
  /\ call[t].pc \in pcs /\ call[t].reply = "pending"
  /\ call' = [call EXCEPT ![t].reply = reply]
  /\ UNCHANGED <<current, flags, overlapped, disturbed>>

GetFault(t) ==
  /\ Answer(t, {"list", "check"}, IF known[call[t].fault] = "open" THEN "ok" ELSE "over")
  /\ UNCHANGED gateway

CreateFault(t) ==
  /\ call[t].pc = "register" /\ call[t].reply = "pending"
  /\ \E f \in FaultId :
       /\ ~Issued(f)
       /\ known' = [known EXCEPT ![f] = "open"]
       /\ call' = [call EXCEPT ![t].reply = "ok", ![t].fault = f]
  /\ UNCHANGED <<current, flags, diagnosis, proposals, concluded, overlapped, disturbed>>

\* update_fault_status looks at no earlier status: what was over is open again.
Reopened(f) == IF Present(f) THEN [known EXCEPT ![f] = "open"] ELSE known

SetDiagnosing(t) ==
  /\ Answer(t, {"diagnosing"}, "ok")
  /\ known' = Reopened(call[t].fault)
  /\ UNCHANGED <<diagnosis, proposals, concluded>>

PatchDiagnosis(t) ==
  /\ Answer(t, {"signature", "diagnosis"}, "ok")
  /\ diagnosis' = IF Present(call[t].fault)
                  THEN [diagnosis EXCEPT ![call[t].fault] = @ \cup call[t].parts]
                  ELSE diagnosis
  /\ UNCHANGED <<known, proposals, concluded>>

\* The fault awaits an approval.
Submitted(f) ==
  /\ known' = Reopened(f)
  /\ proposals' = proposals \cup {g \in {f} : Present(g)}
  /\ UNCHANGED <<diagnosis, concluded>>

\* remediation_propose of MCP Tools: an unknown fault is an error payload.
Propose(t) ==
  /\ Answer(t, {"propose"}, IF Present(call[t].fault) THEN "ok" ELSE "error")
  /\ Submitted(call[t].fault)

\* An error status, or a tool that raised: nothing is done, unless it is the
\* proposal's activity that failed after its status was set.
Fail(t) ==
  /\ call[t].pc \in Asking /\ call[t].reply = "pending"
  /\ call' = [call EXCEPT ![t].reply = "failed"]
  /\ disturbed' = TRUE
  /\ \/ UNCHANGED gateway
     \/ call[t].pc = "propose" /\ Present(call[t].fault) /\ Submitted(call[t].fault)
  /\ UNCHANGED <<current, flags, overlapped>>

\* The request, or the answer to a performed one, does not come through.
Lose(t) ==
  /\ call[t].pc \in Asking /\ call[t].reply # "lost"
  /\ call' = [call EXCEPT ![t].reply = "lost"]
  /\ disturbed' = TRUE
  /\ UNCHANGED <<current, flags, gateway, overlapped>>

\* The operator denies, or an approved remediation resolves the fault.
Conclude(f) ==
  /\ known[f] = "open"
  /\ known' = [known EXCEPT ![f] = "over"]
  /\ concluded' = concluded \cup {f}
  /\ UNCHANGED <<current, flags, call, diagnosis, proposals, overlapped, disturbed>>

\* An approval of a fault that is over starts its remediation.
Reopen(f) ==
  /\ known[f] = "over"
  /\ known' = Reopened(f)
  /\ UNCHANGED <<current, flags, call, diagnosis, proposals, concluded, overlapped, disturbed>>

\* The presenter resets the store, or the Gateway restarts.
ResetStore ==
  /\ known' = [f \in FaultId |-> IF Issued(f) THEN "gone" ELSE "new"]
  /\ concluded' = concluded \cup {f \in FaultId : Issued(f)}
  /\ diagnosis' = [f \in FaultId |-> {}]
  /\ UNCHANGED <<current, flags, call, proposals, overlapped, disturbed>>

-----------------------------------------------------------------------------
Start(t) == ListEvents(t) \/ LogsGetBundle(t) \/ KbSearch(t) \/ RemediationPropose(t)

Continue(t) ==
  \/ ListCleared(t)
  \/ LogsChecked(t) \/ Registered(t) \/ DiagnosingSet(t) \/ Waited(t)
  \/ SignatureNarrated(t) \/ SignatureRecorded(t)
  \/ KbFound(t) \/ KbUnreachable(t) \/ KbNarrated(t) \/ KbRecorded(t)
  \/ Proposed(t)

Serve(t) ==
  \/ GetFault(t) \/ CreateFault(t) \/ SetDiagnosing(t) \/ PatchDiagnosis(t) \/ Propose(t)
  \/ Fail(t) \/ Lose(t)

Next ==
  \/ \E t \in Turn : Start(t) \/ Continue(t) \/ Serve(t)
  \/ \E f \in FaultId : Conclude(f) \/ Reopen(f)
  \/ ResetStore

Spec == Init /\ [][Next]_vars

-----------------------------------------------------------------------------
(* What the harness guarantees.                                            *)

\* Tool calls came one at a time, and every request was answered.
Sequential == ~overlapped
Calm == Sequential /\ ~disturbed

\* "It must stay idempotent: no new fault": in a calm run every fault that
\* was registered has been over or gone, the current one excepted and the
\* one that was just registered; an incident is not registered twice while
\* its first fault waits for the operator.
OneInvestigation ==
  Calm =>
    \A f \in FaultId : Issued(f) /\ f \notin concluded =>
      \/ f = current
      \/ \E t \in Turn : call[t].pc = "register" /\ call[t].fault = f

\* No tool call of a sequential agent meets a null investigation where it
\* reads one, although each clears and replaces it between awaits, whatever
\* is lost.
NoCallBreaks == Sequential => \A t \in Turn : call[t].pc # "broken"

\* In a calm run an investigation marked as proposed, which is never proposed
\* again, is one whose proposal reached the Gateway.
MarkedWasProposed ==
  Calm => \A f \in FaultId : "proposed" \in flags[f] => f \in proposals

\* In a calm run the operator never sees an article without the signature it
\* was found for.
DiagnosisComplete ==
  Calm => \A f \in FaultId : "kb" \in diagnosis[f] => "signature" \in diagnosis[f]

\* In a calm run a repeated wake-up sends no part of a diagnosis and no
\* proposal a second time.
RepeatsNothing ==
  Calm => \A t \in Turn : call[t].reply = "pending" =>
            /\ call[t].pc \in {"signature", "diagnosis"}
                 => call[t].parts \cap diagnosis[call[t].fault] = {}
            /\ call[t].pc = "propose" => call[t].fault \notin proposals

-----------------------------------------------------------------------------
(* What a comment says and the code does not keep.                         *)

\* openclaw/plugins/nemoclaw-infra-tools/src/harness.ts:269: an investigation
\* is marked "as proposed once remediation_propose actually succeeds
\* server-side".  The text of a tool that raised passes for a success.
ProposedIsTrue ==
  Sequential => \A f \in FaultId : "proposed" \in flags[f] => f \in proposals
===============================================================================
