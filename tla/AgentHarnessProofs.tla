-------------------------- MODULE AgentHarnessProofs --------------------------
(***************************************************************************)
(* Proofs about AgentHarness, for any number of faults and turns.  The     *)
(* inductive invariant ties the one tool call under way to the             *)
(* investigation: while no calls overlap, what a call was started for is   *)
(* what is current when it resumes.                                        *)
(***************************************************************************)
EXTENDS AgentHarness, TLAPS

\* A sequential agent is in one tool call at a time.
OneCall == Sequential => \A t, u \in Turn : Busy(t) /\ Busy(u) => t = u

\* Where the current investigation was read before the await.
Pinning == (Asking \cup Pausing) \ {"register", "kb"}

\* The call under way waits for the investigation that is current.
CallIsPinned ==
  Sequential =>
    \A t \in Turn :
      /\ call[t].pc \in Pinning => current # None /\ call[t].fault = current
      /\ call[t].pc = "register" => current = None

\* What the answers mean in a calm run.
AnswersHold ==
  Calm =>
    \A t \in Turn :
      /\ call[t].reply \notin {"failed", "lost"}
      /\ call[t].reply = "over" => call[t].fault \in concluded
      /\ call[t].pc = "register" => call[t].reply \in {"pending", "ok"}
      /\ call[t].pc = "register" /\ call[t].reply = "pending" => call[t].fault = None
      /\ call[t].pc = "propose" /\ call[t].reply = "ok" => call[t].fault \in proposals

\* Only an issued fault is pinned, and one that is not open was concluded.
FaultsWereIssued ==
  /\ current # None => Issued(current)
  /\ \A t \in Turn : call[t].fault # None => Issued(call[t].fault)
  /\ \A t \in Turn :
       call[t].pc \in Pinning \/ (call[t].pc = "register" /\ call[t].reply = "ok")
         => call[t].fault # None
  /\ \A f \in FaultId : known[f] \in {"over", "gone"} => f \in concluded

Inv ==
  /\ TypeOK
  /\ OneCall
  /\ CallIsPinned
  /\ AnswersHold
  /\ FaultsWereIssued
  /\ NoCallBreaks
  /\ OneInvestigation
  /\ MarkedWasProposed

-----------------------------------------------------------------------------
(* A tool call starts, or goes on after an await.                          *)

\* Begin and Await: all that is current when the call starts is pinned.
LEMMA StartSafe ==
  ASSUME Inv, NEW t \in Turn, Begin(t), UNCHANGED <<current, flags>>,
         NEW pc, NEW f, Await(t, pc, f, {}),
         \/ pc \in Pinning /\ current # None /\ f = current
         \/ pc = "register" /\ current = None /\ f = None
         \/ pc = "kb" /\ f = None
  PROVE  Inv'
<1> USE DEF Inv, Begin, gateway
<1>1. /\ call' \in [Turn -> ToolCall]
      /\ call'[t] = [pc |-> pc, fault |-> f, parts |-> {}, reply |-> "pending"]
      /\ \A u \in Turn \ {t} : call'[u] = call[u]
  BY DEF Await, TypeOK, ToolCall, Pinning, Asking, Pausing, Part
<1>2. TypeOK'
  BY <1>1 DEF TypeOK
<1>3. Sequential' => Sequential /\ \A u \in Turn : ~Busy(u)
  BY DEF Sequential
<1>4. \A u \in Turn : ~Busy(u) => call[u].pc \notin Pinning \cup {"register", "propose"}
  BY DEF Busy, Pinning, Asking, Pausing
<1>5. OneCall'
  BY <1>1, <1>3 DEF OneCall, Busy
<1>6. CallIsPinned'
  BY <1>1, <1>3, <1>4 DEF CallIsPinned, Pinning
<1>7. AnswersHold'
  <2> SUFFICES ASSUME Calm', NEW u \in Turn
               PROVE  /\ call'[u].reply \notin {"failed", "lost"}
                      /\ call'[u].reply = "over" => call'[u].fault \in concluded
                      /\ call'[u].pc = "register" => call'[u].reply = "pending"
                                                     /\ call'[u].fault = None
                      /\ call'[u].pc = "propose" => call'[u].reply = "pending"
    BY DEF AnswersHold
  <2>1. Calm /\ ~Busy(u)
    BY <1>3 DEF Calm
  <2>2. call[u].reply \notin {"failed", "lost"}
        /\ (call[u].reply = "over" => call[u].fault \in concluded)
    BY <2>1 DEF AnswersHold
  <2>3. call'[t].reply = "pending" /\ call'[t].fault = f /\ call'[t].pc = pc
    BY <1>1
  <2> QED
    BY <1>1, <1>4, <2>1, <2>2, <2>3 DEF Pinning
<1>8. FaultsWereIssued'
  BY <1>1 DEF FaultsWereIssued, Issued, Pinning
<1>9. NoCallBreaks'
  BY <1>1, <1>3 DEF NoCallBreaks, Pinning, Asking, Pausing
<1>10. OneInvestigation'
  BY <1>1, <1>3, <1>4 DEF OneInvestigation, Calm, Issued
<1>11. MarkedWasProposed'
  BY <1>3 DEF MarkedWasProposed, Calm
<1> QED
  BY <1>2, <1>5, <1>6, <1>7, <1>8, <1>9, <1>10, <1>11

\* After an await the call waits again, for what is current by then, or ends.
LEMMA ResumeSafe ==
  ASSUME Inv, NEW t \in Turn, NEW from \in Asking \cup Pausing, Resume(t, from),
         NEW c \in ToolCall, call' = [call EXCEPT ![t] = c], c.reply = "pending",
         current' \in FaultId \cup {None}, flags' \in [FaultId -> SUBSET Flag],
         current' # None => Issued(current'), c.fault # None => Issued(c.fault),
         c.pc \in Pinning => c.fault # None,
         Sequential =>
           /\ c.pc \in Pinning => current' # None /\ c.fault = current'
           /\ c.pc = "register" => current' = None /\ c.fault = None
           /\ c.pc # "broken",
         OneInvestigation', MarkedWasProposed'
  PROVE  Inv'
<1> USE DEF Inv, Resume, gateway
<1>1. /\ call' \in [Turn -> ToolCall]
      /\ call'[t] = c
      /\ \A u \in Turn \ {t} : call'[u] = call[u]
  BY DEF TypeOK
<1>2. TypeOK'
  BY <1>1 DEF TypeOK
<1>3. Busy(t)
  BY DEF Busy, Asking, Pausing
<1>4. Sequential => \A u \in Turn \ {t} : ~Busy(u)
  BY <1>3 DEF OneCall
<1>5. \A u \in Turn : ~Busy(u) => call[u].pc \notin Pinning \cup {"register", "propose"}
  BY DEF Busy, Pinning, Asking, Pausing
<1>6. OneCall'
  BY <1>1, <1>4 DEF OneCall, Busy, Sequential
<1>7. CallIsPinned'
  BY <1>1, <1>4, <1>5 DEF CallIsPinned, Sequential
<1>8. AnswersHold'
  BY <1>1, <1>4, <1>5 DEF AnswersHold, Calm, Sequential
<1>9. FaultsWereIssued'
  BY <1>1 DEF FaultsWereIssued, Issued
<1>10. NoCallBreaks'
  BY <1>1 DEF NoCallBreaks, Sequential
<1> QED
  BY <1>2, <1>6, <1>7, <1>8, <1>9, <1>10

\* The investigation stays, and marks none as proposed without a proposal.
LEMMA ResumeKeepsFaults ==
  ASSUME Inv, NEW t \in Turn, NEW from \in Asking \cup Pausing, Resume(t, from),
         from # "register",
         NEW c, call' = [call EXCEPT ![t] = c], UNCHANGED current
  PROVE  OneInvestigation'
BY DEF Inv, TypeOK, Resume, gateway, OneInvestigation, Calm, Sequential, Issued

LEMMA NoCallTyped == NoCall \in ToolCall /\ NoCall.reply = "pending"
                     /\ NoCall.pc = "idle" /\ NoCall.fault = None
BY DEF NoCall, ToolCall

LEMMA BrokenTyped == [NoCall EXCEPT !.pc = "broken"] \in ToolCall
                     /\ [NoCall EXCEPT !.pc = "broken"].reply = "pending"
                     /\ [NoCall EXCEPT !.pc = "broken"].fault = None
                     /\ [NoCall EXCEPT !.pc = "broken"].pc = "broken"
BY DEF NoCall, ToolCall

\* Of a sequential call, what Pinned says of its own fault.
LEMMA OwnFault ==
  ASSUME Inv, NEW t \in Turn, Sequential, call[t].pc \in Pinning
  PROVE  current # None /\ call[t].fault = current
BY DEF Inv, CallIsPinned

\* The call ends or breaks, and the investigation stays.
LEMMA ReturnSafe ==
  ASSUME Inv, NEW t \in Turn, NEW from \in Asking \cup Pausing, Resume(t, from),
         from # "register", UNCHANGED current,
         Return(t) \/ (Break(t) /\ ~Sequential),
         flags' \in [FaultId -> SUBSET Flag], MarkedWasProposed'
  PROVE  Inv'
<1>1. current \in FaultId \cup {None} /\ (current # None => Issued(current))
  BY DEF Inv, TypeOK, FaultsWereIssued
<1>2. Issued(current) => Issued(current)'
  BY DEF Resume, gateway, Issued
<1>3. CASE Return(t)
  BY <1>1, <1>2, <1>3, NoCallTyped, ResumeKeepsFaults, ResumeSafe
     DEF Return, Pinning, Asking, Pausing
<1>4. CASE Break(t) /\ ~Sequential
  BY <1>1, <1>2, <1>4, BrokenTyped, ResumeKeepsFaults, ResumeSafe
     DEF Break, Pinning, Asking, Pausing
<1> QED
  BY <1>3, <1>4

\* The call goes on waiting for the investigation it reads now, or for none.
LEMMA AwaitSafe ==
  ASSUME Inv, NEW t \in Turn, NEW from \in Asking \cup Pausing, Resume(t, from),
         from # "register", UNCHANGED current,
         NEW pc, NEW f, NEW parts \in SUBSET Part, Await(t, pc, f, parts),
         \/ pc \in Pinning /\ current # None /\ f = current
         \/ pc = "kb" /\ f = None,
         flags' \in [FaultId -> SUBSET Flag], MarkedWasProposed'
  PROVE  Inv'
<1>1. current \in FaultId \cup {None} /\ (current # None => Issued(current))
  BY DEF Inv, TypeOK, FaultsWereIssued
<1>2. Issued(current) => Issued(current)'
  BY DEF Resume, gateway, Issued
<1> DEFINE c == [pc |-> pc, fault |-> f, parts |-> parts, reply |-> "pending"]
<1>3. c \in ToolCall /\ call' = [call EXCEPT ![t] = c]
  BY <1>1 DEF Await, ToolCall, Pinning, Asking, Pausing
<1>4. c.pc = pc /\ c.fault = f /\ c.reply = "pending"
  OBVIOUS
<1>5. pc # "register" /\ pc # "broken"
  BY DEF Pinning, Asking, Pausing
<1>6. "kb" \notin Pinning
  BY DEF Pinning
<1> HIDE DEF c
<1>7. OneInvestigation'
  BY <1>3, ResumeKeepsFaults
<1> QED
  BY <1>1, <1>2, <1>3, <1>4, <1>5, <1>6, <1>7, ResumeSafe

\* Flags that stay, or gain one other than "proposed", mark nothing as proposed.
LEMMA MarkSafe ==
  ASSUME Inv, NEW t \in Turn, NEW from, Resume(t, from),
         UNCHANGED flags \/ (\E flag \in Flag \ {"proposed"} : current # None /\ Mark(flag))
  PROVE  MarkedWasProposed' /\ flags' \in [FaultId -> SUBSET Flag]
BY DEF Inv, TypeOK, Resume, gateway, Mark, MarkedWasProposed, Calm, Sequential, Flag

-----------------------------------------------------------------------------
(* The handlers.                                                           *)

LEMMA StartsSafe ==
  ASSUME Inv, NEW t \in Turn, Start(t)
  PROVE  Inv'
<1>1. {"list", "check", "sig_post", "propose"} \subseteq Pinning
  BY DEF Pinning, Asking, Pausing
<1>2. CASE ListEvents(t)
  BY <1>1, <1>2, StartSafe DEF ListEvents
<1>3. CASE LogsGetBundle(t)
  BY <1>1, <1>3, StartSafe DEF LogsGetBundle
<1>4. CASE KbSearch(t)
  <2>1. CASE current = None \/ Is("diagnosed") \/ Is("signatureRecorded")
    BY <1>4, <2>1, StartSafe DEF KbSearch
  <2>2. CASE ~(current = None \/ Is("diagnosed") \/ Is("signatureRecorded"))
    BY <1>1, <1>4, <2>2, StartSafe DEF KbSearch
  <2> QED
    BY <2>1, <2>2
<1>5. CASE RemediationPropose(t)
  BY <1>1, <1>5, StartSafe DEF RemediationPropose
<1> QED
  BY <1>2, <1>3, <1>4, <1>5 DEF Start

\* A terminal fault was concluded, so dropping it keeps OneInvestigation.
LEMMA DropSafe ==
  ASSUME Inv, NEW t \in Turn, NEW from \in {"list", "check"}, Resume(t, from), Terminal(t),
         current' = None, UNCHANGED flags, NEW c, call' = [call EXCEPT ![t] = c],
         c = NoCall \/ c = [pc |-> "register", fault |-> None, parts |-> {},
                            reply |-> "pending"]
  PROVE  Inv'
<1>1. c \in ToolCall /\ c.reply = "pending" /\ c.fault = None /\ c.pc \in {"idle", "register"}
  BY NoCallTyped DEF ToolCall, Asking
<1>2. OneInvestigation'
  <2> SUFFICES ASSUME Calm', NEW f \in FaultId, Issued(f), f \notin concluded
               PROVE  FALSE
    BY DEF Resume, gateway, OneInvestigation, Issued
  <2>1. Calm
    BY DEF Resume, Calm, Sequential
  <2>2. call[t].reply = "over" /\ call[t].fault \in concluded
    BY <2>1 DEF Terminal, Inv, AnswersHold
  <2>3. call[t].fault = current /\ from \in Pinning /\ call[t].pc \in Pinning
    BY <2>1, OwnFault DEF Resume, Calm, Pinning, Asking
  <2>4. Busy(t)
    BY DEF Resume, Busy
  <2>5. \A u \in Turn : call[u].pc # "register"
    BY <2>1, <2>4 DEF Inv, OneCall, Calm, Busy, Resume
  <2> QED
    BY <2>1, <2>2, <2>3, <2>5 DEF Inv, OneInvestigation
<1>3. MarkedWasProposed' /\ flags' \in [FaultId -> SUBSET Flag]
  BY MarkSafe
<1>4. from \in Asking \cup Pausing
  BY DEF Asking
<1>5. c.pc \notin Pinning
  BY <1>1 DEF Pinning, Asking, Pausing
<1> QED
  BY <1>1, <1>2, <1>3, <1>4, <1>5, ResumeSafe

LEMMA ListsSafe ==
  ASSUME Inv, NEW t \in Turn, ListCleared(t) \/ LogsChecked(t)
  PROVE  Inv'
<1>1. "list" \in Asking /\ "check" \in Asking /\ "waiting" \in Pinning
  BY DEF Pinning, Asking, Pausing
<1>2. CASE ListCleared(t)
  <2>1. CASE Terminal(t)
    BY <1>2, <2>1, DropSafe DEF ListCleared, Return
  <2>2. CASE ~Terminal(t)
    BY <1>1, <1>2, <2>2, MarkSafe, ReturnSafe DEF ListCleared
  <2> QED
    BY <2>1, <2>2
<1>3. CASE LogsChecked(t)
  <2>1. CASE Terminal(t)
    BY <1>3, <2>1, DropSafe DEF LogsChecked, Await
  <2>2. CASE ~Terminal(t) /\ current' # None /\ Is("proposed") /\ Await(t, "waiting", current, {})
    BY <1>1, <1>3, <2>2, MarkSafe, AwaitSafe DEF LogsChecked
  <2>3. CASE ~Terminal(t) /\ Return(t)
    BY <1>1, <1>3, <2>3, MarkSafe, ReturnSafe DEF LogsChecked
  <2>4. CASE ~Terminal(t) /\ current' = None /\ Await(t, "register", None, {})
    <3>1. current = None /\ Resume(t, "check") /\ UNCHANGED <<current, flags>>
      BY <1>3, <2>4 DEF LogsChecked
    <3>2. ~Sequential
      BY <1>1, <3>1, OwnFault DEF Resume, Pinning
    <3> DEFINE c == [pc |-> "register", fault |-> None, parts |-> {}, reply |-> "pending"]
    <3>3. c \in ToolCall /\ call' = [call EXCEPT ![t] = c] /\ c.reply = "pending" /\ c.fault = None
          /\ c.pc = "register" /\ c.pc \notin Pinning
      BY <2>4 DEF Await, ToolCall, Asking, Pinning
    <3> HIDE DEF c
    <3>4. OneInvestigation' /\ MarkedWasProposed' /\ flags' \in [FaultId -> SUBSET Flag]
      BY <1>1, <3>1, <3>3, ResumeKeepsFaults, MarkSafe
    <3> QED
      BY <1>1, <3>1, <3>2, <3>3, <3>4, ResumeSafe DEF Inv, TypeOK
  <2> QED
    BY <1>3, <2>1, <2>2, <2>3, <2>4 DEF LogsChecked
<1> QED
  BY <1>2, <1>3

LEMMA RegisteredSafe ==
  ASSUME Inv, NEW t \in Turn, Registered(t)
  PROVE  Inv'
<1>1. "register" \in Asking \cup Pausing /\ "diagnosing" \in Pinning
  BY DEF Pinning, Asking, Pausing
<1>2. Resume(t, "register") /\ call[t].pc = "register" /\ call[t].reply # "pending"
  BY <1>1 DEF Registered, Resume, Asking
<1>3. Sequential => \A u \in Turn \ {t} : call[u].pc # "register"
  BY <1>2 DEF Inv, OneCall, Busy
<1>4. CASE call[t].reply = "ok"
  <2> DEFINE f == call[t].fault
             c == [pc |-> "diagnosing", fault |-> f, parts |-> {}, reply |-> "pending"]
  <2>1. f \in FaultId /\ Issued(f)
    BY <1>2, <1>4 DEF Inv, TypeOK, FaultsWereIssued, ToolCall
  <2>2. /\ current' = f /\ flags' = [flags EXCEPT ![f] = {}]
        /\ call' = [call EXCEPT ![t] = c]
    BY <1>4 DEF Registered, Await
  <2>3. c \in ToolCall
    BY <2>1 DEF ToolCall, Asking
  <2>4. c.pc = "diagnosing" /\ c.fault = f /\ c.reply = "pending"
    OBVIOUS
  <2> HIDE DEF c
  <2>5. OneInvestigation'
    <3> SUFFICES ASSUME Calm', NEW g \in FaultId, Issued(g), g \notin concluded
                 PROVE  g = f
      BY <1>2, <2>2 DEF OneInvestigation, Resume, gateway, Issued
    <3>1. Calm
      BY <1>2 DEF Resume, Calm, Sequential
    <3>2. g # current
      BY <1>2, <3>1, HarnessAssumption DEF Inv, CallIsPinned, Calm
    <3> QED
      BY <1>3, <3>1, <3>2 DEF Inv, OneInvestigation, Calm
  <2>6. flags' \in [FaultId -> SUBSET Flag] /\ MarkedWasProposed'
    BY <1>2, <2>1, <2>2 DEF Inv, TypeOK, MarkedWasProposed, Calm, Sequential, Resume, gateway
  <2>7. f # None
    BY <2>1, HarnessAssumption
  <2>8. Issued(current')
    BY <2>1, <2>2
  <2> QED
    BY <1>1, <1>2, <2>1, <2>2, <2>3, <2>4, <2>5, <2>6, <2>7, <2>8, ResumeSafe
<1>5. CASE call[t].reply # "ok"
  <2>1. ~Calm
    BY <1>2, <1>5 DEF Inv, AnswersHold
  <2>2. UNCHANGED <<current, flags>> /\ Return(t)
    BY <1>5 DEF Registered
  <2>3. OneInvestigation' /\ MarkedWasProposed'
    BY <1>2, <2>1 DEF OneInvestigation, MarkedWasProposed, Calm, Sequential, Resume
  <2>4. /\ current \in FaultId \cup {None} /\ (current # None => Issued(current))
        /\ flags \in [FaultId -> SUBSET Flag]
    BY DEF Inv, TypeOK, FaultsWereIssued
  <2> QED
    BY <1>1, <1>2, <2>2, <2>3, <2>4, NoCallTyped, ResumeSafe DEF Return, Pinning, Asking, Pausing
<1> QED
  BY <1>4, <1>5

LEMMA KbSafe ==
  ASSUME Inv, NEW t \in Turn,
         \/ DiagnosingSet(t) \/ Waited(t) \/ SignatureNarrated(t) \/ SignatureRecorded(t)
         \/ KbFound(t) \/ KbUnreachable(t) \/ KbNarrated(t) \/ KbRecorded(t)
  PROVE  Inv'
<1>1. /\ {"diagnosing", "waiting", "sig_post", "signature", "kb_post", "diagnosis"} \subseteq Pinning
      /\ \A pc \in Pinning \cup {"kb"} : pc \in Asking \cup Pausing /\ pc # "register"
      /\ "kb" \notin Pinning
      /\ {"signatureRecorded", "diagnosed"} \subseteq Flag \ {"proposed"}
  BY DEF Pinning, Asking, Pausing, Flag
<1>2. \A pc \in Pinning : Resume(t, pc) /\ Stamp(t) =>
        Return(t) \/ (Break(t) /\ ~Sequential)
  BY OwnFault DEF Stamp, Resume
<1>3. CASE DiagnosingSet(t)
  BY <1>1, <1>2, <1>3, MarkSafe, ReturnSafe DEF DiagnosingSet
<1>4. CASE Waited(t)
  BY <1>1, <1>2, <1>4, MarkSafe, ReturnSafe DEF Waited
<1>5. CASE SignatureNarrated(t)
  BY <1>1, <1>5, MarkSafe, AwaitSafe DEF SignatureNarrated, Part
<1>6. CASE SignatureRecorded(t)
  BY <1>1, <1>6, MarkSafe, AwaitSafe DEF SignatureRecorded, Part
<1>7. CASE KbFound(t)
  <2>1. MarkedWasProposed' /\ flags' \in [FaultId -> SUBSET Flag]
    BY <1>7, MarkSafe DEF KbFound
  <2>2. CASE Return(t)
    BY <1>1, <1>7, <2>1, <2>2, ReturnSafe DEF KbFound
  <2>3. ASSUME NEW parts \in {{}, {"kb"}}, Await(t, "kb_post", current, parts), current # None
        PROVE  Inv'
    BY <1>1, <1>7, <2>1, <2>3, AwaitSafe DEF KbFound, Part
  <2> QED
    BY <1>7, <2>2, <2>3 DEF KbFound
<1>8. CASE KbUnreachable(t)
  BY <1>1, <1>8, MarkSafe, ReturnSafe DEF KbUnreachable
<1>9. CASE KbNarrated(t)
  <2> DEFINE parts == call[t].parts \cup
                      (IF Is("signatureRecorded") THEN {} ELSE {"signature"})
  <2>1. parts \in SUBSET Part
    BY DEF Inv, TypeOK, ToolCall, Part
  <2> HIDE DEF parts
  <2>2. /\ Resume(t, "kb_post") /\ UNCHANGED current
        /\ \/ current = None /\ Break(t) /\ UNCHANGED flags
           \/ current # None /\ Mark("diagnosed") /\ Return(t)
           \/ current # None /\ Await(t, "diagnosis", current, parts) /\ UNCHANGED flags
    BY <1>9 DEF KbNarrated, parts
  <2>3. MarkedWasProposed' /\ flags' \in [FaultId -> SUBSET Flag]
    BY <1>1, <2>2, MarkSafe
  <2>4. current = None => ~Sequential
    BY <1>1, <2>2, OwnFault DEF Resume
  <2>5. CASE Return(t) \/ (Break(t) /\ ~Sequential)
    BY <1>1, <2>2, <2>3, <2>5, ReturnSafe
  <2>6. CASE current # None /\ Await(t, "diagnosis", current, parts)
    BY <1>1, <2>1, <2>2, <2>3, <2>6, AwaitSafe
  <2> QED
    BY <2>2, <2>4, <2>5, <2>6
<1>10. CASE KbRecorded(t)
  <2>1. Resume(t, "diagnosis") /\ UNCHANGED current
        /\ (UNCHANGED flags \/ (current # None /\ Mark("diagnosed")))
    BY <1>10 DEF KbRecorded
  <2>2. MarkedWasProposed' /\ flags' \in [FaultId -> SUBSET Flag]
    BY <1>1, <2>1, MarkSafe
  <2> QED
    BY <1>1, <1>2, <1>10, <2>1, <2>2, ReturnSafe DEF KbRecorded
<1> QED
  BY <1>3, <1>4, <1>5, <1>6, <1>7, <1>8, <1>9, <1>10

\* The mark is set for the fault whose proposal was answered.
LEMMA ProposedSafe ==
  ASSUME Inv, NEW t \in Turn, Proposed(t)
  PROVE  Inv'
<1>1. "propose" \in Asking /\ "propose" \in Pinning
  BY DEF Pinning, Asking
<1>2. Resume(t, "propose") /\ UNCHANGED current /\ Return(t)
  BY DEF Proposed
<1>3. flags' \in [FaultId -> SUBSET Flag]
  BY DEF Proposed, Mark, Inv, TypeOK, Flag
<1>4. Calm /\ flags' # flags => current \in proposals
  <2> SUFFICES ASSUME Calm, flags' # flags
               PROVE  current \in proposals
    OBVIOUS
  <2>1. call[t].reply = "ok" /\ call[t].pc = "propose"
    BY <1>2 DEF Proposed, Inv, AnswersHold, Resume
  <2> QED
    BY <1>1, <2>1, OwnFault DEF Inv, AnswersHold, Calm
<1>5. \A f \in FaultId : flags'[f] # flags[f] => f = current
  BY DEF Proposed, Mark, Inv, TypeOK
<1>6. MarkedWasProposed'
  BY <1>2, <1>4, <1>5 DEF Inv, MarkedWasProposed, Calm, Sequential, Resume, gateway
<1> QED
  BY <1>1, <1>2, <1>3, <1>6, ReturnSafe DEF Asking

-----------------------------------------------------------------------------
(* The Gateway answers, or does not.                                       *)

LEMMA AnswerSafe ==
  ASSUME Inv, NEW t \in Turn,
         NEW reply \in {"ok", "over", "error", "failed", "lost"}, call[t].pc \in Asking,
         NEW fault \in FaultId \cup {None},
         call' = [call EXCEPT ![t].reply = reply, ![t].fault = fault],
         fault = call[t].fault \/ (call[t].pc = "register" /\ fault # None),
         fault # None => Issued(fault)',
         call[t].pc = "register" => reply # "ok" \/ fault # None,
         UNCHANGED <<current, flags, overlapped>>, TypeOK',
         disturbed => disturbed',
         \A f \in FaultId : Issued(f) => Issued(f)',
         \A f \in FaultId : known'[f] \in {"over", "gone"} => f \in concluded',
         concluded \subseteq concluded', proposals \subseteq proposals',
         Calm' =>
           /\ \A f \in FaultId : Issued(f)' => Issued(f) \/ (call[t].pc = "register" /\ f = fault)
           /\ reply \notin {"failed", "lost"}
           /\ call[t].reply = "pending"
           /\ reply = "over" => fault \in concluded'
           /\ call[t].pc = "register" => reply = "ok"
           /\ call[t].pc = "propose" /\ reply = "ok" => fault \in proposals'
  PROVE  Inv'
<1> USE DEF Inv
<1>1. /\ call'[t].pc = call[t].pc /\ call'[t].reply = reply
      /\ call'[t].fault = fault
      /\ \A u \in Turn \ {t} : call'[u] = call[u]
  BY DEF TypeOK, ToolCall
<1>2. Sequential' = Sequential /\ (Calm' => Calm)
  BY DEF Sequential, Calm, TypeOK
<1>3. OneCall'
  <2>1. \A u \in Turn : call'[u].pc = call[u].pc
    BY <1>1
  <2> QED
    BY <1>2, <2>1 DEF OneCall, Busy
<1>4. CallIsPinned'
  BY <1>1, <1>2 DEF CallIsPinned, Pinning
<1>5. AnswersHold'
  BY ZenonT(60), <1>1, <1>2 DEF AnswersHold
<1>6. FaultsWereIssued'
  <2>1. current' # None => Issued(current)'
    BY DEF FaultsWereIssued, TypeOK
  <2>2. \A u \in Turn : call[u].fault \in FaultId \cup {None}
    BY DEF TypeOK, ToolCall
  <2> QED
    BY ZenonT(60), <1>1, <2>1, <2>2 DEF FaultsWereIssued
<1>7. NoCallBreaks'
  BY <1>1, <1>2 DEF NoCallBreaks
<1>8. OneInvestigation'
  <2> SUFFICES ASSUME Calm', NEW f \in FaultId, Issued(f)', f \notin concluded'
               PROVE  \/ f = current'
                      \/ \E u \in Turn : call'[u].pc = "register" /\ call'[u].fault = f
    BY DEF OneInvestigation
  <2>1. CASE call[t].pc = "register" /\ f = fault
    BY <1>1, <2>1
  <2>2. CASE Issued(f)
    <3>1. Calm /\ f \notin concluded /\ f # None
      BY <1>2, HarnessAssumption
    <3>2. f = current \/ \E u \in Turn : call[u].pc = "register" /\ call[u].fault = f
      BY <2>2, <3>1 DEF OneInvestigation
    <3>3. call[t].pc = "register" => call[t].fault = None
      BY <3>1 DEF AnswersHold
    <3> QED
      BY <1>1, <3>1, <3>2, <3>3
  <2> QED
    BY <2>1, <2>2
<1>9. MarkedWasProposed'
  BY <1>2 DEF MarkedWasProposed
<1> QED
  BY <1>3, <1>4, <1>5, <1>6, <1>7, <1>8, <1>9

\* Answer with the fault spelled out.
LEMMA AnswerShape ==
  ASSUME TypeOK, NEW t \in Turn, NEW reply, call' = [call EXCEPT ![t].reply = reply]
  PROVE  /\ call' = [call EXCEPT ![t].reply = reply, ![t].fault = call[t].fault]
         /\ call[t].fault \in FaultId \cup {None}
         /\ reply \in {"ok", "over", "error", "failed", "lost"} => call' \in [Turn -> ToolCall]
BY ZenonT(60) DEF TypeOK, ToolCall

LEMMA ServeSafe ==
  ASSUME Inv, NEW t \in Turn, Serve(t)
  PROVE  Inv'
<1> DEFINE f == call[t].fault
<1>0. /\ TypeOK
      /\ f \in FaultId \cup {None}
      /\ f # None => Issued(f)
      /\ \A g \in FaultId : known[g] \in {"over", "gone"} => g \in concluded
      /\ call[t].pc = "register" /\ call[t].reply = "ok" => f # None
      /\ call[t].pc \in Pinning => f # None
      /\ Asking \ {"register"} \subseteq Pinning
  <2>1. TypeOK /\ f \in FaultId \cup {None}
    BY DEF Inv, TypeOK, ToolCall
  <2>2. call[t].pc \in Pinning => f # None
    BY DEF Inv, FaultsWereIssued
  <2>3. Asking \ {"register"} \subseteq Pinning
    BY DEF Pinning, Asking
  <2> QED
    BY <2>1, <2>2, <2>3 DEF Inv, FaultsWereIssued
<1>1. CASE GetFault(t)
  <2> DEFINE r == IF known[f] = "open" THEN "ok" ELSE "over"
  <2>1. /\ call[t].pc \in {"list", "check"} /\ call[t].reply = "pending"
        /\ call' = [call EXCEPT ![t].reply = r]
        /\ UNCHANGED <<current, flags, overlapped, disturbed, known, diagnosis, proposals, concluded>>
    BY <1>1 DEF GetFault, Answer, gateway
  <2>2. r \in {"ok", "over"} /\ (Calm /\ r = "over" => f \in concluded)
    BY <1>0, <2>1 DEF Issued, TypeOK, Asking
  <2> HIDE DEF r
  <2>3. TypeOK' /\ call' = [call EXCEPT ![t].reply = r, ![t].fault = f]
    BY <1>0, <2>1, <2>2, AnswerShape DEF TypeOK
  <2> HIDE DEF f
  <2>4. UNCHANGED Calm /\ \A g \in FaultId : Issued(g)' = Issued(g)
    BY <2>1 DEF Calm, Sequential, Issued
  <2> QED
    BY <1>0, <2>1, <2>2, <2>3, <2>4, AnswerSafe DEF f, Asking, Issued
<1>2. CASE CreateFault(t)
  <2>1. PICK g \in FaultId : ~Issued(g) /\ known' = [known EXCEPT ![g] = "open"]
                             /\ call' = [call EXCEPT ![t].reply = "ok", ![t].fault = g]
    BY <1>2 DEF CreateFault
  <2>2. /\ call[t].pc = "register" /\ call[t].reply = "pending"
        /\ UNCHANGED <<current, flags, overlapped, disturbed, diagnosis, proposals, concluded>>
    BY <1>2 DEF CreateFault
  <2>3. TypeOK'
    <3>1. [call[t] EXCEPT !.reply = "ok", !.fault = g] \in ToolCall
      BY <1>0 DEF TypeOK, ToolCall
    <3>2. call' = [call EXCEPT ![t] = [call[t] EXCEPT !.reply = "ok", !.fault = g]]
      BY <2>1, <1>0 DEF TypeOK
    <3>3. call' \in [Turn -> ToolCall]
      BY <1>0, <3>1, <3>2 DEF TypeOK
    <3>4. known' \in [FaultId -> {"new", "open", "over", "gone"}]
      BY <1>0, <2>1 DEF TypeOK
    <3> QED
      BY <1>0, <2>2, <3>3, <3>4 DEF TypeOK
  <2>4. g # None
    BY <2>1, HarnessAssumption
  <2>5. /\ \A h \in FaultId : Issued(h)' = (Issued(h) \/ h = g)
        /\ \A h \in FaultId : known'[h] \in {"over", "gone"} => h \in concluded
    BY <1>0, <2>1 DEF TypeOK, Issued
  <2>6. call[t].pc \in Asking
    BY <2>2 DEF Asking
  <2> QED
    BY <2>1, <2>2, <2>3, <2>4, <2>5, <2>6, AnswerSafe
<1>3. CASE Fail(t) \/ Lose(t)
  <2>1. PICK r \in {"failed", "lost"} :
          /\ call[t].pc \in Asking /\ call' = [call EXCEPT ![t].reply = r]
          /\ disturbed'
          /\ UNCHANGED <<current, flags, overlapped, diagnosis, concluded>>
          /\ UNCHANGED <<known, proposals>>
             \/ (call[t].pc = "propose" /\ Present(f) /\ Submitted(f))
    BY <1>3 DEF Fail, Lose, gateway, Submitted
  <2>2. /\ known' = known \/ (f \in FaultId /\ Present(f) /\ known' = [known EXCEPT ![f] = "open"])
        /\ proposals \subseteq proposals' /\ proposals' \subseteq FaultId
    <3>1. call[t].pc = "propose" => f \in FaultId
      BY <1>0 DEF Asking
    <3> QED
      BY <1>0, <2>1, <3>1 DEF Submitted, Reopened, TypeOK
  <2>3. known' \in [FaultId -> {"new", "open", "over", "gone"}]
        /\ \A g \in FaultId : /\ Issued(g)' = Issued(g)
                              /\ known'[g] \in {"over", "gone"} => g \in concluded
    BY <1>0, <2>2 DEF TypeOK, Issued, Present
  <2>4. TypeOK' /\ call' = [call EXCEPT ![t].reply = r, ![t].fault = f]
    BY <1>0, <2>1, <2>2, <2>3, <1>3, AnswerShape DEF TypeOK, Fail, Lose
  <2> HIDE DEF f
  <2>5. ~Calm'
    BY <2>1 DEF Calm
  <2> QED
    BY ZenonT(60), <1>0, <2>1, <2>2, <2>3, <2>4, <2>5, AnswerSafe DEF f
<1>4. CASE SetDiagnosing(t) \/ PatchDiagnosis(t) \/ Propose(t)
  <2>1. PICK r \in {"ok", "error"} :
          /\ call[t].pc \in Asking \ {"register"} /\ call[t].reply = "pending"
          /\ call' = [call EXCEPT ![t].reply = r]
          /\ UNCHANGED <<current, flags, overlapped, disturbed, concluded>>
          /\ r = "ok" /\ call[t].pc = "propose" => f \in proposals'
    BY <1>0, <1>4 DEF SetDiagnosing, PatchDiagnosis, Propose, Submitted, Answer, Asking
  <2>2. /\ known' = known \/ (f \in FaultId /\ Present(f) /\ known' = [known EXCEPT ![f] = "open"])
        /\ diagnosis' \in [FaultId -> SUBSET Part]
        /\ proposals \subseteq proposals' /\ proposals' \subseteq FaultId
    <3>2. f \in FaultId
      BY <1>0, <2>1
    <3>3. CASE SetDiagnosing(t)
      BY <1>0, <3>2, <3>3 DEF SetDiagnosing, Reopened, TypeOK
    <3>4. CASE PatchDiagnosis(t)
      BY <1>0, <3>2, <3>4 DEF PatchDiagnosis, TypeOK, ToolCall
    <3>5. CASE Propose(t)
      BY <1>0, <3>2, <3>5 DEF Propose, Submitted, Reopened, TypeOK
    <3> QED
      BY <1>4, <3>3, <3>4, <3>5
  <2>3. known' \in [FaultId -> {"new", "open", "over", "gone"}]
        /\ \A g \in FaultId : /\ Issued(g)' = Issued(g)
                              /\ known'[g] \in {"over", "gone"} => g \in concluded
    BY <1>0, <2>2 DEF TypeOK, Issued, Present
  <2>4. TypeOK' /\ call' = [call EXCEPT ![t].reply = r, ![t].fault = f]
    BY <1>0, <2>1, <2>2, <2>3, AnswerShape DEF TypeOK
  <2> HIDE DEF f
  <2> QED
    BY ZenonT(60), <1>0, <2>1, <2>2, <2>3, <2>4, AnswerSafe DEF f
<1> QED
  BY <1>1, <1>2, <1>3, <1>4 DEF Serve

-----------------------------------------------------------------------------
(* The operator, the presenter and restarts.                               *)

LEMMA GatewaySafe ==
  ASSUME Inv, ResetStore \/ \E f \in FaultId : Conclude(f) \/ Reopen(f)
  PROVE  Inv'
<1> USE DEF Inv
<1> DEFINE FaultsKept ==
      /\ known' \in [FaultId -> {"new", "open", "over", "gone"}]
      /\ diagnosis' \in [FaultId -> SUBSET Part]
      /\ concluded' \subseteq FaultId
      /\ \A f \in FaultId : Issued(f)' = Issued(f)
      /\ \A f \in FaultId : known'[f] \in {"over", "gone"} => f \in concluded'
      /\ concluded \subseteq concluded'
      /\ UNCHANGED <<current, flags, call, proposals, overlapped, disturbed>>
<1>1. FaultsKept
  <2>1. CASE ResetStore
    BY <2>1 DEF ResetStore, TypeOK, Issued
  <2>2. ASSUME NEW f \in FaultId, Conclude(f)
        PROVE  FaultsKept
    BY <2>2 DEF Conclude, TypeOK, Issued, FaultsWereIssued
  <2>3. ASSUME NEW f \in FaultId, Reopen(f)
        PROVE  FaultsKept
    BY <2>3 DEF Reopen, Reopened, Present, TypeOK, Issued, FaultsWereIssued
  <2> QED
    BY <2>1, <2>2, <2>3
<1>2. TypeOK'
  BY <1>1 DEF TypeOK
<1>3. UNCHANGED <<Calm, Sequential>>
  BY <1>1 DEF Calm, Sequential
<1>4. OneCall' /\ CallIsPinned' /\ AnswersHold' /\ NoCallBreaks' /\ MarkedWasProposed'
  BY <1>1, <1>3 DEF OneCall, CallIsPinned, AnswersHold, NoCallBreaks, MarkedWasProposed, Busy
<1>5. FaultsWereIssued'
  <2>1. current \in FaultId \cup {None} /\ \A t \in Turn : call[t].fault \in FaultId \cup {None}
    BY DEF TypeOK, ToolCall
  <2> QED
    BY <1>1, <2>1 DEF FaultsWereIssued
<1>6. OneInvestigation'
  BY <1>1, <1>3 DEF OneInvestigation
<1> QED
  BY <1>2, <1>4, <1>5, <1>6

LEMMA InitSafe ==
  ASSUME Init
  PROVE  Inv
<1>1. TypeOK
  BY DEF Init, TypeOK, ToolCall, NoCall
<1>2. \A t \in Turn : call[t].pc = "idle" /\ call[t].fault = None /\ call[t].reply = "pending"
  BY DEF Init, NoCall
<1> QED
  BY <1>1, <1>2 DEF Init, Inv, OneCall, CallIsPinned, AnswersHold, FaultsWereIssued,
     NoCallBreaks, OneInvestigation, MarkedWasProposed, Busy, Issued, Pinning, Asking, Pausing

LEMMA StutterSafe ==
  ASSUME Inv, UNCHANGED vars
  PROVE  Inv'
<1> USE DEF vars, gateway
<1>1. TypeOK'
  BY DEF Inv, TypeOK
<1> QED
  BY <1>1 DEF Inv, OneCall, CallIsPinned, AnswersHold, FaultsWereIssued, NoCallBreaks,
     OneInvestigation, MarkedWasProposed, Busy, Issued, Calm, Sequential

LEMMA InvHolds == Spec => []Inv
<1>1. Init => Inv
  BY InitSafe
<1>2. Inv /\ [Next]_vars => Inv'
  <2> SUFFICES ASSUME Inv, Next
               PROVE  Inv'
    BY StutterSafe
  <2>1. ASSUME NEW t \in Turn, Start(t) \/ Continue(t) \/ Serve(t)
        PROVE  Inv'
    BY <2>1, StartsSafe, ListsSafe, RegisteredSafe, KbSafe, ProposedSafe, ServeSafe
       DEF Continue
  <2> QED
    BY <2>1, GatewaySafe DEF Next
<1> QED
  BY <1>1, <1>2, PTL DEF Spec

-----------------------------------------------------------------------------
(* Nothing is recorded or proposed twice, as long as the run is calm       *)

\* The Gateway has nothing of a fault that was never registered.
NewHaveNothing == \A f \in FaultId : ~Issued(f) => f \notin proposals /\ diagnosis[f] = {}

\* What the call of turn t has still to send, and what it was answered.
CallOK(t) ==
  LET f == call[t].fault
      parts == call[t].parts
  IN /\ call[t].pc = "register" /\ f # None => f \notin proposals /\ diagnosis[f] = {}
     /\ call[t].pc = "sig_post" => ~Is("diagnosed") /\ ~Is("signatureRecorded")
     /\ call[t].pc = "kb_post" => ~Is("diagnosed") /\ "signature" \notin parts
     /\ call[t].pc = "signature" => parts = {"signature"}
     /\ call[t].pc \in {"signature", "diagnosis"} => call[t].reply \in {"pending", "ok"}
     /\ call[t].pc = "signature" /\ call[t].reply = "ok" /\ Present(f) => "signature" \in diagnosis[f]
     /\ call[t].pc = "diagnosis" /\ "kb" \in parts /\ Present(f) =>
          "signature" \in parts \cup diagnosis[f]
     /\ call[t].pc \in {"signature", "diagnosis"} /\ call[t].reply = "pending" =>
          parts \cap diagnosis[f] = {}
     /\ call[t].pc = "propose" /\ call[t].reply = "pending" => f \notin proposals

\* A call in one of pcs was answered and has not noted it.
Answered(pcs) == \E t \in Turn : call[t].pc \in pcs /\ call[t].reply = "ok"

\* What the Gateway has of the current investigation is marked, or about to be.
CurrentOK ==
  current # None =>
    /\ current \in proposals => Is("proposed") \/ Answered({"propose"})
    /\ "signature" \in diagnosis[current] =>
         Is("signatureRecorded") \/ Is("diagnosed") \/ Answered({"signature", "diagnosis"})
    /\ "kb" \in diagnosis[current] => Is("diagnosed") \/ Answered({"diagnosis"})

FlagsOK ==
  \A f \in FaultId : "signatureRecorded" \in flags[f] /\ Present(f) => "signature" \in diagnosis[f]

Once ==
  /\ NewHaveNothing
  /\ DiagnosisComplete
  /\ Calm => CurrentOK /\ FlagsOK /\ \A t \in Turn : CallOK(t)

\* Only turn t is in a tool call, before and after its step.
Alone(t) == \A u \in Turn \ {t} : ~Busy(u) /\ call'[u] = call[u]

LEMMA AwaitRecord ==
  ASSUME TypeOK, NEW t \in Turn, NEW pc, NEW f, NEW parts, Await(t, pc, f, parts)
  PROVE  /\ call'[t].pc = pc /\ call'[t].fault = f /\ call'[t].parts = parts
         /\ call'[t].reply = "pending"
         /\ \A u \in Turn \ {t} : call'[u] = call[u]
<1> DEFINE c == [pc |-> pc, fault |-> f, parts |-> parts, reply |-> "pending"]
<1>1. call'[t] = c /\ \A u \in Turn \ {t} : call'[u] = call[u]
  BY DEF Await, TypeOK
<1> QED
  BY <1>1

LEMMA EndRecord ==
  ASSUME TypeOK, NEW t \in Turn, Return(t) \/ Break(t)
  PROVE  /\ call'[t].pc \in {"idle", "broken"} /\ call'[t].reply = "pending"
         /\ \A u \in Turn \ {t} : call'[u] = call[u]
BY DEF Return, Break, NoCall, TypeOK

LEMMA BusyIsAlone ==
  ASSUME Inv, Calm, NEW t \in Turn, Busy(t), \A u \in Turn \ {t} : call'[u] = call[u]
  PROVE  Alone(t)
BY DEF Inv, OneCall, Calm, Alone

LEMMA OnceFrom ==
  ASSUME Once, NEW t \in Turn, UNCHANGED gateway,
         Calm' => Calm /\ Alone(t) /\ CallOK(t)' /\ CurrentOK' /\ FlagsOK'
  PROVE  Once'
<1>1. NewHaveNothing'
  BY DEF Once, NewHaveNothing, gateway, Issued
<1>2. DiagnosisComplete'
  BY DEF Once, DiagnosisComplete, gateway
<1>3. ASSUME Calm', NEW u \in Turn \ {t}
      PROVE  CallOK(u)'
  <2>1. call'[u].pc \in {"idle", "broken"}
    BY <1>3 DEF Alone, Busy
  <2> QED
    BY <2>1 DEF CallOK
<1> QED
  BY <1>1, <1>2, <1>3 DEF Once

LEMMA StartOnce ==
  ASSUME Inv, Once, NEW t \in Turn, Start(t)
  PROVE  Once'
<1>1. Begin(t) /\ UNCHANGED <<current, flags, gateway>>
  BY DEF Start, ListEvents, LogsGetBundle, KbSearch, RemediationPropose, Begin
<1>2. TypeOK
  BY DEF Inv
<1> SUFFICES ASSUME Calm'
             PROVE  Calm /\ Alone(t) /\ CallOK(t)' /\ CurrentOK' /\ FlagsOK'
  BY <1>1, OnceFrom
<1>3. Calm /\ \A u \in Turn : ~Busy(u)
  BY <1>1 DEF Begin, Calm, Sequential, gateway
<1>4. /\ call'[t].reply = "pending"
      /\ call'[t].pc \in {"list", "register", "check", "kb", "sig_post", "propose"}
      /\ call'[t].pc = "register" => call'[t].fault = None
      /\ call'[t].pc = "sig_post" => ~Is("diagnosed") /\ ~Is("signatureRecorded")
      /\ call'[t].pc = "propose" => current # None /\ call'[t].fault = current /\ ~Is("proposed")
      /\ \A u \in Turn \ {t} : call'[u] = call[u]
  BY <1>2, AwaitRecord DEF Start, ListEvents, LogsGetBundle, KbSearch, RemediationPropose
<1>5. Alone(t)
  BY <1>3, <1>4 DEF Alone
<1>6. \A pcs \in SUBSET Asking : ~Answered(pcs)
  BY <1>3 DEF Answered, Busy, Asking
<1>7. CurrentOK /\ FlagsOK
  BY <1>3 DEF Once
<1>8. current # None /\ ~Is("proposed") => current \notin proposals
  BY <1>6, <1>7 DEF CurrentOK, Asking
<1>9. CallOK(t)'
  BY <1>1, <1>4, <1>8 DEF CallOK, Is, gateway
<1>10. CurrentOK'
  BY <1>1, <1>6, <1>7 DEF CurrentOK, Is, gateway, Asking
<1>11. FlagsOK'
  BY <1>1, <1>7 DEF FlagsOK, gateway, Present
<1> QED
  BY <1>3, <1>5, <1>9, <1>10, <1>11

\* What a calm call finds when it goes on.
Resumed(t, pc) ==
  /\ Calm /\ Alone(t) /\ call[t].pc = pc
  /\ CallOK(t) /\ CurrentOK /\ FlagsOK
  /\ call[t].reply \notin {"failed", "lost"} /\ (pc \in Asking => call[t].reply # "pending")
  /\ pc \in Pinning => current # None /\ call[t].fault = current
  /\ \A pcs \in SUBSET Asking : Answered(pcs) => pc \in pcs /\ call[t].reply = "ok"

LEMMA ResumedHolds ==
  ASSUME Inv, Once, Calm', NEW t \in Turn, NEW pc \in Asking \cup Pausing, Resume(t, pc),
         \A u \in Turn \ {t} : call'[u] = call[u]
  PROVE  Resumed(t, pc)
<1>1. Calm /\ call[t].pc = pc /\ (pc \in Asking => call[t].reply # "pending")
  BY DEF Resume, Calm, Sequential
<1>2. Busy(t)
  BY <1>1 DEF Busy, Asking, Pausing
<1>3. Alone(t)
  BY <1>1, <1>2, BusyIsAlone
<1>4. CallOK(t) /\ CurrentOK /\ FlagsOK
  BY <1>1 DEF Once
<1>5. call[t].reply \notin {"failed", "lost"}
  BY <1>1 DEF Inv, AnswersHold
<1>6. pc \in Pinning => current # None /\ call[t].fault = current
  BY <1>1 DEF Inv, CallIsPinned, Calm
<1>7. \A pcs \in SUBSET Asking : Answered(pcs) => pc \in pcs /\ call[t].reply = "ok"
  BY <1>1, <1>3 DEF Alone, Answered, Busy, Asking
<1> QED
  BY <1>1, <1>3, <1>4, <1>5, <1>6, <1>7 DEF Resumed

\* A step that marks nothing: what was marked covers what is current.
LEMMA UnmarkedOnce ==
  ASSUME Inv, Once, Calm', NEW t \in Turn, NEW pc \in Asking \cup Pausing, Resume(t, pc),
         pc \notin {"signature", "diagnosis", "propose"},
         \A u \in Turn \ {t} : call'[u] = call[u],
         UNCHANGED flags, current' = current \/ current' = None
  PROVE  CurrentOK' /\ FlagsOK'
<1>1. Resumed(t, pc) /\ UNCHANGED gateway
  BY ResumedHolds DEF Resume
<1>2. ~Answered({"propose"}) /\ ~Answered({"signature", "diagnosis"}) /\ ~Answered({"diagnosis"})
  BY <1>1 DEF Resumed, Asking
<1>3. FlagsOK'
  BY <1>1 DEF Resumed, FlagsOK, gateway, Present
<1>4. CurrentOK'
  BY <1>1, <1>2 DEF Resumed, CurrentOK, Is, gateway
<1> QED
  BY <1>3, <1>4

LEMMA PausesOnce ==
  ASSUME Inv, Once, NEW t \in Turn,
         \/ ListCleared(t) \/ LogsChecked(t) \/ DiagnosingSet(t) \/ Waited(t)
         \/ SignatureNarrated(t) \/ KbFound(t) \/ KbUnreachable(t)
  PROVE  Once'
<1>0. TypeOK
  BY DEF Inv
<1>1. PICK pc \in {"list", "check", "diagnosing", "waiting", "sig_post", "kb"} :
        /\ Resume(t, pc) /\ UNCHANGED flags /\ (current' = current \/ current' = None)
        /\ SignatureNarrated(t) => pc = "sig_post"
        /\ KbFound(t) => pc = "kb"
  BY DEF ListCleared, LogsChecked, DiagnosingSet, Waited, SignatureNarrated, KbFound,
     KbUnreachable, Resume
<1>2. pc \in Asking \cup Pausing /\ (pc = "sig_post" => pc \in Pinning) /\ UNCHANGED gateway
  BY <1>1 DEF Asking, Pausing, Pinning, Resume
<1> SUFFICES ASSUME Calm'
             PROVE  Calm /\ Alone(t) /\ CallOK(t)' /\ CurrentOK' /\ FlagsOK'
  BY <1>2, OnceFrom
<1>3. /\ call'[t].reply = "pending"
      /\ \/ call'[t].pc \in {"idle", "broken", "waiting", "kb"}
         \/ call'[t].pc = "register" /\ call'[t].fault = None
         \/ SignatureNarrated(t) /\ call'[t].pc = "signature" /\ call'[t].parts = {"signature"}
            /\ call'[t].fault = current /\ current # None /\ UNCHANGED current
         \/ KbFound(t) /\ call'[t].pc = "kb_post" /\ "signature" \notin call'[t].parts
            /\ ~Is("diagnosed") /\ UNCHANGED current
      /\ \A u \in Turn \ {t} : call'[u] = call[u]
  <2>1. CASE ListCleared(t) \/ LogsChecked(t) \/ DiagnosingSet(t) \/ Waited(t) \/ KbUnreachable(t)
    BY <1>0, <2>1, AwaitRecord, EndRecord DEF ListCleared, LogsChecked, DiagnosingSet, Waited,
       KbUnreachable, Stamp
  <2>2. CASE SignatureNarrated(t)
    BY <1>0, <2>2, AwaitRecord DEF SignatureNarrated
  <2>3. CASE KbFound(t)
    BY <1>0, <2>3, AwaitRecord, EndRecord DEF KbFound
  <2> QED
    BY <2>1, <2>2, <2>3
<1>4. Resumed(t, pc)
  BY <1>1, <1>2, <1>3, ResumedHolds
<1>5. CurrentOK' /\ FlagsOK'
  BY <1>1, <1>2, <1>3, UnmarkedOnce
<1>6. pc = "sig_post" => "signature" \notin diagnosis[current]
  BY <1>2, <1>4 DEF Resumed, CallOK, CurrentOK, Asking
<1>7. CallOK(t)'
  BY <1>1, <1>2, <1>3, <1>6 DEF CallOK, Is, gateway
<1> QED
  BY <1>4, <1>5, <1>7 DEF Resumed

LEMMA RegisteredOnce ==
  ASSUME Inv, Once, NEW t \in Turn, Registered(t)
  PROVE  Once'
<1>0. TypeOK
  BY DEF Inv
<1>1. Resume(t, "register") /\ "register" \in Asking \cup Pausing /\ UNCHANGED gateway
  BY DEF Registered, Resume, Asking
<1> SUFFICES ASSUME Calm'
             PROVE  Calm /\ Alone(t) /\ CallOK(t)' /\ CurrentOK' /\ FlagsOK'
  BY <1>1, OnceFrom
<1>2. /\ call'[t].reply = "pending" /\ call'[t].pc \in {"idle", "diagnosing"}
      /\ \A u \in Turn \ {t} : call'[u] = call[u]
  BY <1>0, AwaitRecord, EndRecord DEF Registered, Return, NoCall, TypeOK
<1>3. Resumed(t, "register")
  BY <1>1, <1>2, ResumedHolds
<1>4. call[t].reply = "ok"
  BY <1>3 DEF Resumed, Inv, AnswersHold, Asking
<1>5. call[t].fault \in FaultId /\ call[t].fault # None
  BY <1>3, <1>4 DEF Resumed, Inv, FaultsWereIssued, TypeOK, ToolCall
<1>6. call[t].fault \notin proposals /\ diagnosis[call[t].fault] = {}
  BY <1>3, <1>5 DEF Resumed, CallOK
<1>7. current' = call[t].fault /\ flags' = [flags EXCEPT ![call[t].fault] = {}]
  BY <1>4 DEF Registered
<1>8. CurrentOK'
  BY <1>1, <1>6, <1>7 DEF CurrentOK, gateway
<1>9. FlagsOK'
  BY <1>0, <1>1, <1>3, <1>7 DEF Resumed, FlagsOK, gateway, Present, TypeOK
<1>10. CallOK(t)'
  BY <1>2 DEF CallOK
<1> QED
  BY <1>3, <1>8, <1>9, <1>10 DEF Resumed

LEMMA MarkedFlags ==
  ASSUME TypeOK, current # None, NEW flag, Mark(flag), UNCHANGED current
  PROVE  /\ Is(flag)' /\ \A g \in Flag : Is(g) => Is(g)'
         /\ \A f \in FaultId, g \in Flag : g \in flags'[f] => g \in flags[f] \/ (f = current /\ g = flag)
BY DEF TypeOK, Mark, Is

LEMMA SignatureRecordedOnce ==
  ASSUME Inv, Once, NEW t \in Turn, SignatureRecorded(t)
  PROVE  Once'
<1>0. TypeOK
  BY DEF Inv
<1>1. /\ Resume(t, "signature") /\ UNCHANGED <<gateway, current>>
      /\ "signature" \in Asking \cup Pausing /\ "signature" \in Pinning
  BY DEF SignatureRecorded, Resume, Asking, Pinning
<1> SUFFICES ASSUME Calm'
             PROVE  Calm /\ Alone(t) /\ CallOK(t)' /\ CurrentOK' /\ FlagsOK'
  BY <1>1, OnceFrom
<1>2. call'[t].pc = "kb" /\ \A u \in Turn \ {t} : call'[u] = call[u]
  BY <1>0, AwaitRecord DEF SignatureRecorded
<1>3. Resumed(t, "signature")
  BY <1>1, <1>2, ResumedHolds
<1>4. call[t].reply = "ok" /\ current # None /\ call[t].fault = current
  BY <1>1, <1>3 DEF Resumed, CallOK, Asking
<1>5. Present(current) => "signature" \in diagnosis[current]
  BY <1>3, <1>4 DEF Resumed, CallOK
<1>6. Mark("signatureRecorded")
  BY <1>4 DEF SignatureRecorded
<1>7. /\ Is("signatureRecorded")' /\ \A g \in Flag : Is(g) => Is(g)'
      /\ \A f \in FaultId, g \in Flag :
           g \in flags'[f] => g \in flags[f] \/ (f = current /\ g = "signatureRecorded")
  BY <1>0, <1>1, <1>4, <1>6, MarkedFlags
<1>8. ~Answered({"propose"}) /\ ~Answered({"diagnosis"})
  BY <1>3 DEF Resumed, Asking
<1>9. CurrentOK'
  BY <1>1, <1>3, <1>7, <1>8 DEF Resumed, CurrentOK, gateway, Flag
<1>10. FlagsOK'
  BY <1>1, <1>3, <1>5, <1>7 DEF Resumed, FlagsOK, gateway, Present, Flag
<1>11. CallOK(t)'
  BY <1>2 DEF CallOK
<1> QED
  BY <1>3, <1>9, <1>10, <1>11 DEF Resumed

LEMMA KbNarratedOnce ==
  ASSUME Inv, Once, NEW t \in Turn, KbNarrated(t)
  PROVE  Once'
<1> DEFINE parts == call[t].parts \cup (IF Is("signatureRecorded") THEN {} ELSE {"signature"})
<1>0. TypeOK
  BY DEF Inv
<1>1. /\ Resume(t, "kb_post") /\ UNCHANGED <<gateway, current>>
      /\ "kb_post" \in Asking \cup Pausing /\ "kb_post" \in Pinning
  BY DEF KbNarrated, Resume, Pausing, Pinning, Asking
<1> SUFFICES ASSUME Calm'
             PROVE  Calm /\ Alone(t) /\ CallOK(t)' /\ CurrentOK' /\ FlagsOK'
  BY <1>1, OnceFrom
<1>2. /\ \A u \in Turn \ {t} : call'[u] = call[u]
      /\ call'[t].reply = "pending"
      /\ \/ call'[t].pc \in {"idle", "broken"} /\ (UNCHANGED flags \/ Mark("diagnosed"))
         \/ /\ call'[t].pc = "diagnosis" /\ call'[t].fault = current /\ call'[t].parts = parts
            /\ UNCHANGED flags
  BY <1>0, AwaitRecord, EndRecord DEF KbNarrated
<1>3. Resumed(t, "kb_post") /\ current # None
  BY <1>1, <1>2, ResumedHolds DEF Resumed
<1>4. ~Is("diagnosed") /\ "signature" \notin call[t].parts
  BY <1>3 DEF Resumed, CallOK
<1>5. CurrentOK' /\ FlagsOK'
  <2>1. CASE UNCHANGED flags
    BY <1>1, <1>2, <2>1, UnmarkedOnce
  <2>2. CASE Mark("diagnosed")
    <3>1. /\ Is("diagnosed")' /\ \A g \in Flag : Is(g) => Is(g)'
          /\ \A f \in FaultId, g \in Flag :
               g \in flags'[f] => g \in flags[f] \/ (f = current /\ g = "diagnosed")
      BY <1>0, <1>1, <1>3, <2>2, MarkedFlags
    <3>2. ~Answered({"propose"})
      BY <1>3 DEF Resumed, Asking
    <3> QED
      BY <1>1, <1>3, <3>1, <3>2 DEF Resumed, CurrentOK, FlagsOK, gateway, Present, Flag
  <2> QED
    BY <1>2, <2>1, <2>2
<1>6. CallOK(t)'
  <2>1. CASE call'[t].pc \in {"idle", "broken"}
    BY <2>1 DEF CallOK
  <2>2. CASE call'[t].pc = "diagnosis" /\ call'[t].fault = current /\ call'[t].parts = parts
    <3>1. "kb" \notin diagnosis[current]
      BY <1>3, <1>4 DEF Resumed, CurrentOK, Asking
    <3>2. ~Is("signatureRecorded") => "signature" \notin diagnosis[current]
      BY <1>3, <1>4 DEF Resumed, CurrentOK, Asking
    <3>3. Is("signatureRecorded") /\ Present(current) => "signature" \in diagnosis[current]
      BY <1>0, <1>3 DEF Resumed, FlagsOK, Is, TypeOK
    <3>4. call[t].parts \subseteq {"kb"}
      BY <1>0, <1>4 DEF TypeOK, ToolCall, Part
    <3>5. parts \cap diagnosis[current] = {}
      BY <3>1, <3>2, <3>4
    <3>6. Present(current) => "signature" \in parts \cup diagnosis[current]
      BY <3>3
    <3> QED
      BY <1>1, <1>2, <2>2, <3>5, <3>6 DEF CallOK, gateway, Present
  <2> QED
    BY <1>2, <2>1, <2>2
<1> QED
  BY <1>3, <1>5, <1>6 DEF Resumed

\* The answered diagnosis, or proposal, of the current investigation is marked.
LEMMA MarksOnce ==
  ASSUME Inv, Once, NEW t \in Turn, KbRecorded(t) \/ Proposed(t)
  PROVE  Once'
<1>0. TypeOK
  BY DEF Inv
<1>1. PICK pc \in {"diagnosis", "propose"} :
        /\ Resume(t, pc) /\ UNCHANGED <<gateway, current>>
        /\ pc = "diagnosis" => KbRecorded(t)
        /\ pc = "propose" => Proposed(t)
  BY DEF KbRecorded, Proposed, Resume
<1>2. pc \in Asking \cup Pausing /\ pc \in Pinning
  BY <1>1 DEF Asking, Pinning
<1> SUFFICES ASSUME Calm'
             PROVE  Calm /\ Alone(t) /\ CallOK(t)' /\ CurrentOK' /\ FlagsOK'
  BY <1>1, OnceFrom
<1>3. call'[t].pc \in {"idle", "broken"} /\ \A u \in Turn \ {t} : call'[u] = call[u]
  BY <1>0, EndRecord DEF KbRecorded, Proposed, Stamp
<1>4. Resumed(t, pc) /\ current # None
  BY <1>1, <1>2, <1>3, ResumedHolds DEF Resumed
<1>5. CASE pc = "diagnosis"
  <2>1. Mark("diagnosed")
    BY <1>1, <1>4, <1>5 DEF KbRecorded
  <2>2. /\ Is("diagnosed")' /\ \A g \in Flag : Is(g) => Is(g)'
        /\ \A f \in FaultId, g \in Flag :
             g \in flags'[f] => g \in flags[f] \/ (f = current /\ g = "diagnosed")
    BY <1>0, <1>1, <1>4, <2>1, MarkedFlags
  <2>3. ~Answered({"propose"})
    BY <1>4, <1>5 DEF Resumed, Asking
  <2>4. CurrentOK' /\ FlagsOK'
    BY <1>1, <1>4, <2>2, <2>3 DEF Resumed, CurrentOK, FlagsOK, gateway, Present, Flag
  <2> QED
    BY <1>3, <1>4, <2>4 DEF Resumed, CallOK
<1>6. CASE pc = "propose"
  <2>1. ~Answered({"diagnosis"}) /\ ~Answered({"signature", "diagnosis"})
    BY <1>4, <1>6 DEF Resumed, Asking
  <2>2. CASE call[t].reply = "ok"
    <3>1. Mark("proposed")
      BY <1>1, <1>4, <1>6, <2>2 DEF Proposed
    <3>2. /\ Is("proposed")' /\ \A g \in Flag : Is(g) => Is(g)'
          /\ \A f \in FaultId, g \in Flag :
               g \in flags'[f] => g \in flags[f] \/ (f = current /\ g = "proposed")
      BY <1>0, <1>1, <1>4, <3>1, MarkedFlags
    <3>3. CurrentOK' /\ FlagsOK'
      BY <1>1, <1>4, <2>1, <3>2 DEF Resumed, CurrentOK, FlagsOK, gateway, Present, Flag
    <3> QED
      BY <1>3, <1>4, <3>3 DEF Resumed, CallOK
  <2>3. CASE call[t].reply # "ok"
    <3>1. UNCHANGED flags
      BY <1>1, <1>4, <1>6, <2>3 DEF Proposed, Resumed
    <3>2. ~Answered({"propose"})
      BY <1>4, <2>3 DEF Resumed, Asking
    <3>3. CurrentOK' /\ FlagsOK'
      BY <1>1, <1>4, <2>1, <3>1, <3>2 DEF Resumed, CurrentOK, FlagsOK, Is, gateway, Present
    <3> QED
      BY <1>3, <1>4, <3>3 DEF Resumed, CallOK
  <2> QED
    BY <2>2, <2>3
<1> QED
  BY <1>1, <1>5, <1>6

\* Nothing is marked of a fault that was never registered.
UnissuedUnmarked == \A f \in FaultId : ~Issued(f) => flags[f] = {}

LEMMA UnissuedStep ==
  ASSUME Inv, UnissuedUnmarked, [Next]_vars
  PROVE  UnissuedUnmarked'
<1> USE DEF gateway
<1>0. TypeOK /\ (current # None => Issued(current))
  BY DEF Inv, FaultsWereIssued
<1>1. ASSUME NEW t \in Turn, Start(t) \/ Continue(t)
      PROVE  UnissuedUnmarked'
  <2>1. UNCHANGED known
    BY <1>1 DEF Start, Continue, ListEvents, LogsGetBundle, KbSearch, RemediationPropose, Begin,
       ListCleared, LogsChecked, Registered, DiagnosingSet, Waited, SignatureNarrated,
       SignatureRecorded, KbFound, KbUnreachable, KbNarrated, KbRecorded, Proposed, Resume
  <2>2. \/ UNCHANGED flags \/ (current # None /\ \E flag \in Flag : Mark(flag))
        \/ flags' = [flags EXCEPT ![call[t].fault] = {}]
    BY <1>1 DEF Start, Continue, ListEvents, LogsGetBundle, KbSearch, RemediationPropose,
       ListCleared, LogsChecked, Registered, DiagnosingSet, Waited, SignatureNarrated,
       SignatureRecorded, KbFound, KbUnreachable, KbNarrated, KbRecorded, Proposed, Flag
  <2> QED
    BY <1>0, <2>1, <2>2 DEF UnissuedUnmarked, Mark, Issued, TypeOK
<1>2. ASSUME NEW t \in Turn, Serve(t)
      PROVE  UnissuedUnmarked'
  <2>1. UNCHANGED flags
    BY <1>2 DEF Serve, GetFault, CreateFault, SetDiagnosing, PatchDiagnosis, Propose, Answer, Fail, Lose
  <2>2. \/ UNCHANGED known \/ known' = Reopened(call[t].fault)
        \/ \E f \in FaultId : known' = [known EXCEPT ![f] = "open"]
    BY <1>2 DEF Serve, GetFault, CreateFault, SetDiagnosing, PatchDiagnosis, Propose, Submitted, Fail, Lose
  <2>3. \A f \in FaultId : Issued(f) => Issued(f)'
    BY <1>0, <2>2 DEF Reopened, Issued, TypeOK
  <2> QED
    BY <2>1, <2>3 DEF UnissuedUnmarked
<1>3. ASSUME ResetStore \/ \E f \in FaultId : Conclude(f) \/ Reopen(f)
      PROVE  UnissuedUnmarked'
  BY <1>0, <1>3 DEF ResetStore, Conclude, Reopen, Reopened, UnissuedUnmarked, Issued, TypeOK
<1>4. CASE UNCHANGED vars
  BY <1>4 DEF vars, UnissuedUnmarked, Issued
<1> QED
  BY <1>1, <1>2, <1>3, <1>4 DEF Next

\* The call of turn t has its answer, r.
AnsweredWith(t, r) ==
  /\ call'[t].pc = call[t].pc /\ call'[t].fault = call[t].fault /\ call'[t].parts = call[t].parts
  /\ call'[t].reply = r
  /\ \A u \in Turn \ {t} : call'[u] = call[u]

LEMMA AnswerRecord ==
  ASSUME TypeOK, NEW t \in Turn, NEW r, call' = [call EXCEPT ![t].reply = r]
  PROVE  AnsweredWith(t, r)
BY DEF TypeOK, ToolCall, AnsweredWith

\* What a calm request finds when it is performed.
Requested(t) ==
  /\ Calm /\ Alone(t) /\ CallOK(t) /\ CurrentOK /\ FlagsOK
  /\ call[t].pc \in Pinning => current # None /\ call[t].fault = current
  /\ \A pcs \in SUBSET Asking : ~Answered(pcs)

LEMMA RequestedHolds ==
  ASSUME Inv, Once, Calm', NEW t \in Turn, call[t].pc \in Asking, call[t].reply = "pending",
         \A u \in Turn \ {t} : call'[u] = call[u], UNCHANGED <<overlapped, disturbed>>
  PROVE  Requested(t)
<1>1. Calm /\ Busy(t)
  BY DEF Calm, Sequential, Busy, Asking
<1>2. Alone(t)
  BY <1>1, BusyIsAlone
<1>3. \A pcs \in SUBSET Asking : ~Answered(pcs)
  BY <1>2 DEF Alone, Answered, Busy, Asking
<1> QED
  BY <1>1, <1>2, <1>3 DEF Once, Requested, Inv, CallIsPinned, Calm

LEMMA ServedOnce ==
  ASSUME Once, NEW t \in Turn, NewHaveNothing',
         Calm' => Alone(t) /\ CallOK(t)' /\ CurrentOK' /\ FlagsOK' /\ DiagnosisComplete'
  PROVE  Once'
<1>1. ASSUME Calm', NEW u \in Turn \ {t}
      PROVE  CallOK(u)'
  <2>1. call'[u].pc \in {"idle", "broken"}
    BY <1>1 DEF Alone, Busy
  <2> QED
    BY <2>1 DEF CallOK
<1> QED
  BY <1>1 DEF Once, DiagnosisComplete

LEMMA StatusOnce ==
  ASSUME Inv, Once, NEW t \in Turn, GetFault(t) \/ SetDiagnosing(t)
  PROVE  Once'
<1>0. TypeOK
  BY DEF Inv
<1>1. /\ call[t].pc \in {"list", "check", "diagnosing"} /\ call[t].reply = "pending"
      /\ UNCHANGED <<current, flags, overlapped, disturbed, diagnosis, proposals>>
      /\ known' = known \/ known' = Reopened(call[t].fault)
  BY DEF GetFault, SetDiagnosing, Answer, gateway
<1>2. PICK r \in {"ok", "over"} : AnsweredWith(t, r)
  BY <1>0, AnswerRecord DEF GetFault, SetDiagnosing, Answer
<1>3. \A f \in FaultId : Issued(f)' = Issued(f) /\ Present(f)' = Present(f)
  BY <1>0, <1>1 DEF Reopened, Issued, Present, TypeOK
<1>4. NewHaveNothing'
  BY <1>1, <1>3 DEF Once, NewHaveNothing
<1> SUFFICES ASSUME Calm'
             PROVE  Alone(t) /\ CallOK(t)' /\ CurrentOK' /\ FlagsOK' /\ DiagnosisComplete'
  BY <1>4, ServedOnce
<1>5. Requested(t)
  BY <1>1, <1>2, RequestedHolds DEF Asking, AnsweredWith
<1>6. CallOK(t)'
  BY <1>1, <1>2 DEF AnsweredWith, CallOK
<1>7. CurrentOK'
  BY <1>1, <1>5 DEF Requested, CurrentOK, Is, Asking
<1>8. FlagsOK' /\ DiagnosisComplete'
  BY <1>1, <1>3, <1>5 DEF Once, Requested, FlagsOK, DiagnosisComplete
<1> QED
  BY <1>5, <1>6, <1>7, <1>8 DEF Requested

LEMMA CreateFaultOnce ==
  ASSUME Inv, Once, UnissuedUnmarked, NEW t \in Turn, CreateFault(t)
  PROVE  Once'
<1>0. TypeOK
  BY DEF Inv
<1>1. /\ call[t].pc = "register" /\ call[t].reply = "pending"
      /\ UNCHANGED <<current, flags, overlapped, disturbed, diagnosis, proposals>>
  BY DEF CreateFault
<1>2. PICK g \in FaultId :
        /\ ~Issued(g) /\ known' = [known EXCEPT ![g] = "open"]
        /\ call' = [call EXCEPT ![t].reply = "ok", ![t].fault = g]
  BY DEF CreateFault
<1>3. /\ call'[t].pc = "register" /\ call'[t].fault = g /\ \A u \in Turn \ {t} : call'[u] = call[u]
  BY <1>0, <1>1, <1>2 DEF TypeOK, ToolCall
<1>4. \A f \in FaultId : f # g => Issued(f)' = Issued(f) /\ Present(f)' = Present(f)
  BY <1>0, <1>2 DEF Issued, Present, TypeOK
<1>5. Issued(g)' /\ g \notin proposals /\ diagnosis[g] = {} /\ flags[g] = {}
  BY <1>0, <1>2 DEF Issued, TypeOK, Once, NewHaveNothing, UnissuedUnmarked
<1>6. NewHaveNothing'
  BY <1>1, <1>4, <1>5 DEF Once, NewHaveNothing
<1> SUFFICES ASSUME Calm'
             PROVE  Alone(t) /\ CallOK(t)' /\ CurrentOK' /\ FlagsOK' /\ DiagnosisComplete'
  BY <1>6, ServedOnce
<1>7. Requested(t)
  BY <1>1, <1>3, RequestedHolds DEF Asking
<1>8. CallOK(t)'
  BY <1>1, <1>3, <1>5 DEF CallOK
<1>9. CurrentOK'
  BY <1>1, <1>7 DEF Requested, CurrentOK, Is, Asking
<1>10. FlagsOK' /\ DiagnosisComplete'
  BY <1>1, <1>4, <1>5, <1>7 DEF Once, Requested, FlagsOK, DiagnosisComplete
<1> QED
  BY <1>7, <1>8, <1>9, <1>10 DEF Requested

LEMMA PatchDiagnosisOnce ==
  ASSUME Inv, Once, NEW t \in Turn, PatchDiagnosis(t)
  PROVE  Once'
<1> DEFINE f == call[t].fault
<1>0. TypeOK
  BY DEF Inv
<1>1. /\ call[t].pc \in {"signature", "diagnosis"} /\ call[t].reply = "pending"
      /\ UNCHANGED <<current, flags, overlapped, disturbed, known, proposals>>
      /\ AnsweredWith(t, "ok")
  BY <1>0, AnswerRecord DEF PatchDiagnosis, Answer
<1>2. call[t].pc \in Pinning /\ call[t].pc \in Asking
  BY <1>1 DEF Pinning, Asking
<1>3. f \in FaultId
  BY <1>0, <1>2 DEF Inv, FaultsWereIssued, TypeOK, ToolCall
<1>4. \A g \in FaultId : diagnosis'[g] = IF g = f /\ Present(f) THEN diagnosis[f] \cup call[t].parts
                                                              ELSE diagnosis[g]
  BY <1>0, <1>3 DEF PatchDiagnosis, TypeOK
<1>5. NewHaveNothing'
  BY <1>1, <1>4 DEF Once, NewHaveNothing, Issued, Present
<1> HIDE DEF f
<1> SUFFICES ASSUME Calm'
             PROVE  Alone(t) /\ CallOK(t)' /\ CurrentOK' /\ FlagsOK' /\ DiagnosisComplete'
  BY <1>5, ServedOnce
<1>6. Requested(t) /\ current = f /\ current # None
  BY <1>1, <1>2, RequestedHolds DEF AnsweredWith, Requested, f
<1>7. /\ call[t].pc = "signature" => call[t].parts = {"signature"}
      /\ "kb" \in call[t].parts /\ Present(f) => "signature" \in call[t].parts \cup diagnosis[f]
  BY <1>1, <1>6 DEF Requested, CallOK, f
<1>8. CallOK(t)'
  BY <1>1, <1>3, <1>4, <1>7 DEF AnsweredWith, CallOK, Present, f
<1>9. call[t].pc = "diagnosis" => Answered({"diagnosis"})'
  BY <1>1 DEF AnsweredWith, Answered
<1>10. Answered({"signature", "diagnosis"})'
  BY <1>1 DEF AnsweredWith, Answered
<1>11. ~Answered({"propose"}) /\ ~Answered({"diagnosis"})
  BY <1>6 DEF Requested, Asking
<1>12. CurrentOK'
  <2>1. current \in proposals => Is("proposed")
    BY <1>6, <1>11 DEF Requested, CurrentOK
  <2>2. "kb" \in diagnosis'[current] => Is("diagnosed") \/ Answered({"diagnosis"})'
    <3>1. CASE call[t].pc = "diagnosis"
      BY <1>9, <3>1
    <3>2. CASE call[t].pc = "signature"
      BY <1>3, <1>4, <1>6, <1>7, <1>11, <3>2 DEF Requested, CurrentOK
    <3> QED
      BY <1>1, <3>1, <3>2
  <2> QED
    BY <1>1, <1>10, <2>1, <2>2 DEF CurrentOK, Is
<1>13. FlagsOK'
  BY <1>1, <1>4, <1>6 DEF Requested, FlagsOK, Present
<1>14. DiagnosisComplete'
  BY <1>4, <1>6, <1>7 DEF Once, Requested, DiagnosisComplete
<1> QED
  BY <1>6, <1>8, <1>12, <1>13, <1>14 DEF Requested

LEMMA ProposeOnce ==
  ASSUME Inv, Once, NEW t \in Turn, Propose(t)
  PROVE  Once'
<1> DEFINE f == call[t].fault
           r == IF Present(f) THEN "ok" ELSE "error"
<1>0. TypeOK
  BY DEF Inv
<1>1. /\ call[t].pc = "propose" /\ call[t].reply = "pending"
      /\ UNCHANGED <<current, flags, overlapped, disturbed, diagnosis>>
      /\ AnsweredWith(t, r)
      /\ known' = Reopened(f) /\ proposals' = proposals \cup {g \in {f} : Present(g)}
  BY <1>0, AnswerRecord DEF Propose, Submitted, Answer
<1>2. \A g \in FaultId : Issued(g)' = Issued(g) /\ Present(g)' = Present(g)
  BY <1>0, <1>1 DEF Reopened, Issued, Present, TypeOK
<1>3. NewHaveNothing'
  BY <1>1, <1>2 DEF Once, NewHaveNothing, Issued, Present
<1>4. Present(f) => Answered({"propose"})'
  BY <1>1 DEF AnsweredWith, Answered
<1> SUFFICES ASSUME Calm'
             PROVE  Alone(t) /\ CallOK(t)' /\ CurrentOK' /\ FlagsOK' /\ DiagnosisComplete'
  BY <1>3, ServedOnce
<1>5. Requested(t)
  BY <1>1, RequestedHolds DEF AnsweredWith, Asking
<1>6. CallOK(t)'
  BY <1>1 DEF AnsweredWith, CallOK
<1>7. CurrentOK'
  BY <1>1, <1>4, <1>5 DEF Requested, CurrentOK, Is, Asking
<1>8. FlagsOK' /\ DiagnosisComplete'
  BY <1>1, <1>2, <1>5 DEF Once, Requested, FlagsOK, DiagnosisComplete
<1> QED
  BY <1>5, <1>6, <1>7, <1>8 DEF Requested

LEMMA ServeOnce ==
  ASSUME Inv, Once, UnissuedUnmarked, NEW t \in Turn, Serve(t)
  PROVE  Once'
<1>1. CASE Fail(t) \/ Lose(t)
  <2>1. TypeOK
    BY DEF Inv
  <2>2. disturbed' /\ UNCHANGED diagnosis
    BY <1>1 DEF Fail, Lose, gateway, Submitted
  <2>3. UNCHANGED <<known, proposals>> \/ (Present(call[t].fault) /\ Submitted(call[t].fault))
    BY <1>1 DEF Fail, Lose, gateway
  <2>4. NewHaveNothing'
    BY <2>1, <2>2, <2>3 DEF Once, NewHaveNothing, Issued, Present, Submitted, Reopened, TypeOK
  <2> QED
    BY <2>2, <2>4 DEF Once, Calm, DiagnosisComplete
<1> QED
  BY <1>1, StatusOnce, CreateFaultOnce, PatchDiagnosisOnce, ProposeOnce DEF Serve

LEMMA GatewayOnce ==
  ASSUME Inv, Once, ResetStore \/ \E f \in FaultId : Conclude(f) \/ Reopen(f)
  PROVE  Once'
<1>0. TypeOK /\ \A t \in Turn : call[t].fault \in FaultId \cup {None}
  BY DEF Inv, TypeOK, ToolCall
<1>1. UNCHANGED <<current, flags, call, proposals, overlapped, disturbed>>
  BY DEF ResetStore, Conclude, Reopen
<1>2. CASE ResetStore
  <2>1. \A f \in FaultId : diagnosis'[f] = {} /\ ~Present(f)' /\ Issued(f)' = Issued(f)
    BY <1>0, <1>2 DEF ResetStore, Present, Issued, TypeOK
  <2>2. NewHaveNothing' /\ DiagnosisComplete'
    BY <1>1, <2>1 DEF Once, NewHaveNothing, DiagnosisComplete
  <2>3. ASSUME Calm', NEW t \in Turn
        PROVE  CallOK(t)'
    <3>1. CallOK(t)
      BY <1>1, <2>3 DEF Once, Calm, Sequential
    <3>2. call[t].pc \in {"signature", "diagnosis", "propose"} => call[t].fault \in FaultId
      BY <1>0 DEF Inv, FaultsWereIssued, Pinning, Asking, Pausing
    <3> QED
      BY <1>0, <1>1, <2>1, <3>1, <3>2 DEF CallOK, Is
  <2>4. Calm' => CurrentOK' /\ FlagsOK'
    BY <1>0, <1>1, <2>1 DEF Once, Calm, Sequential, CurrentOK, FlagsOK, Is, Answered, TypeOK
  <2> QED
    BY <2>2, <2>3, <2>4 DEF Once
<1>3. CASE \E f \in FaultId : Conclude(f) \/ Reopen(f)
  <2>1. UNCHANGED diagnosis /\ \A f \in FaultId : Present(f)' = Present(f) /\ Issued(f)' = Issued(f)
    BY <1>0, <1>3 DEF Conclude, Reopen, Reopened, Present, Issued, TypeOK
  <2>2. NewHaveNothing' /\ DiagnosisComplete'
    BY <1>1, <2>1 DEF Once, NewHaveNothing, DiagnosisComplete, Calm, Sequential
  <2>3. ASSUME Calm', NEW t \in Turn
        PROVE  CallOK(t)'
    <3>1. CallOK(t)
      BY <1>1, <2>3 DEF Once, Calm, Sequential
    <3>2. call[t].pc \in {"signature", "diagnosis", "propose"} => call[t].fault \in FaultId
      BY <1>0 DEF Inv, FaultsWereIssued, Pinning, Asking, Pausing
    <3> QED
      BY <1>1, <2>1, <3>1, <3>2 DEF CallOK, Is
  <2>4. Calm' => CurrentOK' /\ FlagsOK'
    BY <1>1, <2>1 DEF Once, Calm, Sequential, CurrentOK, FlagsOK, Is, Answered
  <2> QED
    BY <2>2, <2>3, <2>4 DEF Once
<1> QED
  BY <1>2, <1>3

LEMMA OnceHolds == Spec => []Once
<1>1. Init => Once /\ UnissuedUnmarked
  BY DEF Init, Once, UnissuedUnmarked, NewHaveNothing, DiagnosisComplete, CurrentOK, FlagsOK,
     CallOK, NoCall
<1>2. Inv /\ Once /\ UnissuedUnmarked /\ [Next]_vars => Once' /\ UnissuedUnmarked'
  <2> SUFFICES ASSUME Inv, Once, UnissuedUnmarked, [Next]_vars
               PROVE  Once'
    BY UnissuedStep
  <2>1. ASSUME NEW t \in Turn, Continue(t)
        PROVE  Once'
    BY <2>1, PausesOnce, RegisteredOnce, SignatureRecordedOnce, KbNarratedOnce, MarksOnce
       DEF Continue
  <2>2. CASE UNCHANGED vars
    BY <2>2 DEF vars, gateway, Once, NewHaveNothing, DiagnosisComplete, CurrentOK, FlagsOK, CallOK,
       Answered, Is, Issued, Present, Calm, Sequential
  <2> QED
    BY <2>1, <2>2, StartOnce, ServeOnce, GatewayOnce DEF Next
<1> QED
  BY <1>1, <1>2, InvHolds, PTL DEF Spec

-----------------------------------------------------------------------------
\* The plugin's investigation and calls and the Gateway's faults keep their
\* types, overlapping calls included.
THEOREM TypeCorrect == Spec => []TypeOK
BY InvHolds, PTL DEF Inv

\* A calm agent never registers a second fault while the first is open, for
\* any number of wake-ups, decisions and resets.
THEOREM RegistersOnce == Spec => []OneInvestigation
BY InvHolds, PTL DEF Inv

\* A sequential agent never reads a null investigation after an await,
\* whatever requests are lost and whatever the Gateway forgets.
THEOREM SequentialCallsEnd == Spec => []NoCallBreaks
BY InvHolds, PTL DEF Inv

\* In a calm run a fault marked as proposed was proposed.
THEOREM MarksAreTrue == Spec => []MarkedWasProposed
BY InvHolds, PTL DEF Inv

\* In a calm run the Gateway never has an article of a fault without the
\* signature it was searched with (recordSignature, recordKbResult).
THEOREM DiagnosesAreComplete == Spec => []DiagnosisComplete
BY OnceHolds, PTL DEF Once

\* In a calm run no part of a diagnosis and no proposal is sent twice, for
\* any number of wake-ups.
THEOREM NothingIsRepeated == Spec => []RepeatsNothing
<1>1. Once => RepeatsNothing
  BY DEF Once, RepeatsNothing, CallOK
<1> QED
  BY <1>1, OnceHolds, PTL
===============================================================================
