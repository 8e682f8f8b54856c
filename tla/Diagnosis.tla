------------------------------ MODULE Diagnosis ------------------------------
(***************************************************************************)
(* What a turn of the agent reads: the assets and events its monitoring    *)
(* adapter gets from the Simulator's surface, the log bundle it gets from  *)
(* the Orchestrator and the article it finds in the knowledge base, while  *)
(* presenters inject and clear faults and services fail (FaultInjection).  *)
(* All services have loaded the same directory, or refused it.             *)
(*                                                                         *)
(* The agent calls its tools in any order.  A turn is the stretch from one *)
(* listing of assets or events to the next, so a later listing is that of  *)
(* a new turn.                                                             *)
(***************************************************************************)
EXTENDS ContentPack

CONSTANTS
  Scenario, Asset, Target, Request, None,  \* of FaultInjection
  Signature,  \* what the agent may search for
  Directory,  \* bound: directories a stack may be started on
  Semantic    \* the semantic search is installed

VARIABLES
  last, active, req, wire, sim, held, overlapped, disturbed,  \* of FaultInjection
  dir,    \* the directory PACK_ID names
  stack,  \* whether the services run on it
  turn,   \* what the agent has read in this turn
  was     \* history: what the Simulator held on each asset during the turn

Lab == INSTANCE FaultInjection

ASSUME LabAssumption == Lab!InjectionAssumption

\* The presenters' scenarios are those of the pack.
ASSUME DirectoryAssumption ==
  /\ Semantic \in BOOLEAN
  /\ \A d \in Directory :
       /\ d.files \in Seq(ScenarioFiles(d))
       /\ \A f \in ScenarioFiles(d) : f.valid => f.id \in Scenario /\ f.asset = Target[f.id]
       /\ Loadable(d) => Scenario \subseteq {f.id : f \in ScenarioFiles(d)}

labVars == <<last, active, req, wire, sim, held, overlapped, disturbed>>
vars == <<labVars, dir, stack, turn, was>>

Idle == [step |-> "idle", todo |-> {}, seen |-> [a \in Asset |-> "unread"], asset |-> None,
         logs |-> None, signature |-> None, article |-> None, via |-> "none"]

Turn == [step: {"idle", "assets", "viewed", "listed", "logs", "found", "missing"},
         todo: SUBSET Asset, seen: [Asset -> {"unread", "healthy", "faulted"}],
         asset: Asset \cup {None}, logs: Scenario \cup {None},
         signature: Signature \cup {None}, article: dir.kb \cup {None},
         via: {"none", "semantic", "deterministic"}]

TypeOK ==
  /\ Lab!TypeOK
  /\ dir \in Directory /\ stack \in {"down", "up", "refused"}
  /\ turn \in Turn
  /\ was \in [Asset -> SUBSET (Scenario \cup {None})]

Init ==
  /\ Lab!Init
  /\ dir \in Directory /\ stack = "down"
  /\ turn = Idle
  /\ was = [a \in Asset |-> {}]

\* Every service loads the directory by itself, to the same end.
StackStarts ==
  /\ stack = "down"
  /\ stack' = IF Loadable(dir) THEN "up" ELSE "refused"
  /\ UNCHANGED <<labVars, dir, turn, was>>

LabStep ==
  /\ stack = "up" /\ Lab!Next
  /\ was' = IF turn.step = "idle" THEN was ELSE [a \in Asset |-> was[a] \cup {sim'[a]}]
  /\ UNCHANGED <<dir, stack, turn>>

-----------------------------------------------------------------------------
(* The surfaces and the adapters                                           *)

\* Status.Health of a Redfish system, and the state of a generic asset.
Health(a) == IF sim[a] = None THEN "healthy" ELSE "faulted"

\* An event for every fault of the assets asked for.  A Redfish system asked
\* by itself answers with the log lines of its fault instead, however many.
Listed(asked) ==
  {a \in asked : /\ sim[a] # None
                 /\ dir.adapter = "redfish" /\ asked # Asset => ScenarioById(dir, sim[a]).lines > 0}

Begin(next) ==
  /\ stack = "up" /\ turn.step = "idle"
  /\ turn' = next
  /\ was' = [a \in Asset |-> {sim[a]}]
  /\ UNCHANGED <<labVars, dir, stack>>

Continue(next) == turn' = next /\ UNCHANGED <<labVars, dir, stack, was>>

\* A tool that may also be the first of a turn, or be called again.
Answer(next) ==
  /\ stack = "up" /\ turn.step # "assets"
  /\ turn' = next
  /\ was' = IF turn.step = "idle" THEN [a \in Asset |-> {sim[a]}] ELSE was
  /\ UNCHANGED <<labVars, dir, stack>>

\* list_assets: one request to a generic surface; on a Redfish one the
\* collection of systems, then each of them.
ListAssets ==
  Begin(IF dir.adapter = "generic"
        THEN [Idle EXCEPT !.step = "viewed", !.seen = [a \in Asset |-> Health(a)]]
        ELSE [Idle EXCEPT !.step = "assets", !.todo = Asset])

\* get_asset: the record of one asset.
GetAsset(a) == Begin([Idle EXCEPT !.step = "viewed", !.seen[a] = Health(a)])

\* Mutant of ReadAsset: the rest of the list is taken to be like the first.
ReadAssetOnce(a) ==
  /\ turn.step = "assets" /\ a \in turn.todo
  /\ Continue([turn EXCEPT !.seen = [b \in Asset |-> IF b \in turn.todo THEN Health(a) ELSE @[b]],
                           !.todo = {}, !.step = "viewed"])

ReadAsset(a) ==
  /\ turn.step = "assets" /\ a \in turn.todo
  /\ Continue([turn EXCEPT !.seen[a] = Health(a), !.todo = @ \ {a},
                           !.step = IF turn.todo = {a} THEN "viewed" ELSE @])

\* list_events, of all assets or of one.
ListEvents(asked) ==
  Begin([Idle EXCEPT !.step = "listed",
    !.seen = [a \in Asset |-> IF a \in Listed(asked) THEN "faulted" ELSE "unread"]])

Bundle(a, s) ==
  [turn EXCEPT !.step = "logs", !.asset = a, !.logs = s,
               !.signature = None, !.article = None, !.via = "none"]

\* Mutant of GetBundle: the bundle of whatever is active.
GetBundleOfAny(a) ==
  \E b \in Asset : active[b] # None /\ Answer(Bundle(a, active[b]))

\* logs.get_bundle, of any asset at any time: the log of the scenario that is
\* active on it for the Orchestrator, or 404.
GetBundle(a) == active[a] # None /\ Answer(Bundle(a, active[a]))

Found(signature, articles, via) ==
  IF articles = {}
  THEN Answer([turn EXCEPT !.step = "missing", !.signature = signature,
                           !.article = None, !.via = via])
  ELSE \E article \in articles :
         Answer([turn EXCEPT !.step = "found", !.signature = signature,
                             !.article = article, !.via = via])

\* kb.search: a semantic hit above the threshold may be any article.
KbSearch(signature, fallback) ==
  \/ Semantic /\ dir.kb # {} /\ Found(signature, dir.kb, "semantic")
  \/ Found(signature, Deterministic(dir, signature, fallback), "deterministic")

\* The turn ends, or a request of it fails.
EndTurn ==
  /\ turn.step # "idle"
  /\ turn' = Idle /\ was' = [a \in Asset |-> {}]
  /\ UNCHANGED <<labVars, dir, stack>>

Next ==
  \/ StackStarts
  \/ LabStep
  \/ ListAssets \/ EndTurn
  \/ \E a \in Asset : GetAsset(a) \/ ReadAsset(a) \/ ListEvents({a}) \/ GetBundle(a)
  \/ ListEvents(Asset)
  \/ \E signature \in Signature, fallback \in {{}} \cup {{k} : k \in dir.kb} :
       KbSearch(signature, fallback)

Spec == Init /\ [][Next]_vars

-----------------------------------------------------------------------------
(* Properties                                                              *)

\* Whatever an answer says of an asset held at some moment of the turn, also
\* where the list was put together from several requests while faults came
\* and went (RedfishAdapter.list_assets).
SeenWasTrue ==
  \A a \in Asset :
    /\ turn.seen[a] = "faulted" => was[a] # {None}
    /\ turn.seen[a] = "healthy" => None \in was[a]

\* The logs a turn reads are of a fault the Simulator has held on that very
\* asset.  If the turn saw the asset faulted, they are even of a fault the
\* asset had during the turn, as long as runs come one at a time, none of
\* their requests was lost and no service restarted: logs.get_bundle asks the
\* Orchestrator about what the agent has heard from the Simulator.  An asset
\* not seen faulted may still be served the logs of a remediated fault, which
\* the Orchestrator goes on believing.
LogsFitFault ==
  turn.logs # None =>
    /\ <<turn.asset, turn.logs>> \in held
    /\ ~overlapped /\ ~disturbed /\ turn.seen[turn.asset] = "faulted" =>
         turn.logs \in was[turn.asset]

\* The deterministic search for a signature of the logs finds the article
\* of their scenario, whatever the agent names as its fallback, unless
\* another scenario has the signature too (KBIndex.search).
ArticleFitsLogs ==
  turn.logs # None /\ turn.step \in {"found", "missing"} /\ turn.via # "semantic" =>
    LET f == ScenarioById(dir, turn.logs) IN
    (/\ turn.signature \in f.signatures
     /\ \A g \in ScenarioFiles(dir) : turn.signature \in g.signatures => g = f)
    => turn.article = f.article

\* Any signature known to the pack leads to an article of the pack.
KnownSignaturesFound ==
  turn.step = "missing" => \A f \in ScenarioFiles(dir) : turn.signature \notin f.signatures
=============================================================================
