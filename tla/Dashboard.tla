------------------------------ MODULE Dashboard ------------------------------
(***************************************************************************)
(* Browsers with the Operator Dashboard open and the Gateway they watch.   *)
(* A browser builds its view from two sources that do not know of each     *)
(* other: snapshots, each the answers to several GET requests that the     *)
(* Gateway reads one by one, and the events of the SSE stream, which are   *)
(* deltas.  The operator's own clicks write to the view as well.           *)
(*                                                                         *)
(* The Gateway runs on the in-memory store, whose handlers never suspend,  *)
(* so each is one step.  Faults are numbered in the order of detection.    *)
(* The activity feed travels like the notifications and is left out, and   *)
(* so are read marks, the pack and what only the screen keeps (selection,  *)
(* retained summary).                                                      *)
(***************************************************************************)
EXTENDS Naturals, Sequences, SequencesExt

CONSTANTS
  Browser,
  Asset,
  AssetOf,     \* asset of each fault, by number
  MaxChanges,  \* bound: changes of the store and decisions
  MaxDrops,    \* bound: dropped streams and failed requests
  None

Fault == DOMAIN AssetOf

ASSUME DashboardAssumption ==
  /\ AssetOf \in Seq(Asset) \ {<<>>} /\ IsFiniteSet(Asset)
  /\ {MaxChanges, MaxDrops} \subseteq Nat
  /\ None \notin Fault

VARIABLES
  store,     \* Gateway: faults, asset records and inbox
  stream,    \* each browser's EventSource: "new", "open" or "dropped"
  queue,     \* events on the way to each browser
  gets,      \* snapshots each browser has requested and not applied
  view,      \* what each browser shows
  deciding,  \* the operator's decision each browser waits for
  detected,  \* faults so far
  changes, drops,  \* counters for the bounds
  raced      \* history: the two sources of the view have crossed since it was last in order

local == <<view, deciding>>
counters == <<detected, changes, drops>>
vars == <<store, stream, queue, gets, local, counters, raced>>

Part == {"faults", "assets", "notes"}
Status == {"open", "waiting", "remediating", "resolved", "denied"}

\* What the Gateway holds; a fault with no status does not exist, and an
\* asset is faulted exactly if it is linked to a fault.
Contents == [faults: [Fault -> Status \cup {None}],
             assets: [Asset -> Fault \cup {None}],
             notes: Seq(Fault)]

Empty == [faults |-> [f \in Fault |-> None], assets |-> [a \in Asset |-> None], notes |-> <<>>]

\* The answers to the GET requests of a snapshot, as far as they have come.
Snapshot == [faults: [Fault -> Status \cup {None}] \cup {None},
             assets: [Asset -> Fault \cup {None}] \cup {None},
             notes: Seq(Fault) \cup {None}]

Event(part, id, value) == [part |-> part, id |-> id, value |-> value]
FaultEvent(f, s) == Event("faults", f, s)
AssetEvent(a, f) == Event("assets", a, f)

Message == {Event("reset", None, None)} \cup [part: {"faults"}, id: Fault, value: Status]
           \cup [part: {"assets"}, id: Asset, value: Fault \cup {None}]
           \cup [part: {"notes"}, id: Fault, value: {None}]

Unasked == [p \in Part |-> None]
Pending == [fault: Fault, decision: {"approved", "denied"}, answered: BOOLEAN, crossed: BOOLEAN]

TypeOK ==
  /\ store \in Contents
  /\ stream \in [Browser -> {"new", "open", "dropped"}]
  /\ queue \in [Browser -> Seq(Message)]
  /\ gets \in [Browser -> Seq(Snapshot)]
  /\ view \in [Browser -> Contents]
  /\ deciding \in [Browser -> Pending \cup {None}]
  /\ detected \in 0 .. Len(AssetOf)
  /\ changes \in 0 .. MaxChanges /\ drops \in 0 .. MaxDrops
  /\ raced \in [Browser -> BOOLEAN]

\* A view without a snapshot has no assets, which the model shows as healthy
\* ones.  A page is mounted while the Gateway waits for a decision on fault 1: it
\* has asked for its first snapshot and opens its stream.
Init ==
  /\ store = [faults |-> [Empty.faults EXCEPT ![1] = "waiting"],
              assets |-> [Empty.assets EXCEPT ![AssetOf[1]] = 1], notes |-> <<1>>]
  /\ stream = [b \in Browser |-> "new"]
  /\ queue = [b \in Browser |-> <<>>]
  /\ gets = [b \in Browser |-> <<Unasked>>]
  /\ view = [b \in Browser |-> Empty]
  /\ deciding = [b \in Browser |-> None]
  /\ detected = 1 /\ changes = 0 /\ drops = 0
  /\ raced = [b \in Browser |-> FALSE]

-----------------------------------------------------------------------------
(* The Gateway                                                             *)

Touches(e, p) == e.part = p \/ (e.part = "reset" /\ p # "assets")

\* Browser b has an answer that a change of part p makes outdated.
HasRead(b, p) == \E i \in DOMAIN gets[b] : gets[b][i][p] # None

\* A change that b gets no event of, and will not ask for again: the first
\* stream of a page is opened without another snapshot.
Unheard(b, p) == HasRead(b, p) \/ (stream[b] = "new" /\ gets[b] = <<>>)

Publish(es) ==
  /\ queue' = [b \in Browser |-> IF stream[b] = "open" THEN queue[b] \o es ELSE queue[b]]
  /\ raced' = [b \in Browser |-> raced[b] \/
       /\ stream[b] # "open"
       /\ \E i \in DOMAIN es, p \in Part : Touches(es[i], p) /\ Unheard(b, p)]

Change(new) == store' = new /\ UNCHANGED <<gets, view>>

Count == changes < MaxChanges /\ changes' = changes + 1 /\ UNCHANGED drops
Disturb == drops < MaxDrops /\ drops' = drops + 1 /\ UNCHANGED <<changes, detected>>

\* Ids are not used again after a reset.
CreateFault(f) ==
  /\ f = detected + 1 /\ detected' = f
  /\ LET a == AssetOf[f]
     IN /\ Count
        /\ Change([faults |-> [store.faults EXCEPT ![f] = "open"],
                   assets |-> [store.assets EXCEPT ![a] = f],
                   notes |-> <<f>> \o store.notes])
        /\ Publish(<<FaultEvent(f, "open"), Event("notes", f, None), AssetEvent(a, f)>>)
  /\ UNCHANGED <<stream, deciding>>

\* The agent's PATCH and the executor's steps: both release the asset of a
\* fault that resolves.
SetStatus(f, s) ==
  /\ store.faults[f] # None /\ s \in {"waiting", "remediating", "resolved"}
  /\ Count
  /\ LET released == IF s = "resolved" THEN <<AssetEvent(AssetOf[f], None)>> ELSE <<>>
     IN /\ Change([store EXCEPT !.faults[f] = s,
                     !.assets[AssetOf[f]] = IF s = "resolved" THEN None ELSE @])
        /\ Publish(released \o <<FaultEvent(f, s)>>)
  /\ UNCHANGED <<stream, deciding, detected>>

\* The Gateway handles a decision; what an approval sets going are later
\* steps SetStatus.  A fault that is gone by then is answered with 404,
\* which brings the buttons back.
PostDecision(b) ==
  /\ deciding[b] # None /\ ~deciding[b].answered
  /\ LET f == deciding[b].fault
     IN /\ deciding' = [deciding EXCEPT ![b] =
             IF store.faults[f] = None THEN None ELSE [@ EXCEPT !.answered = TRUE]]
        /\ IF deciding[b].decision = "denied" /\ store.faults[f] # None
           THEN /\ Change([store EXCEPT !.faults[f] = "denied"])
                /\ Publish(<<FaultEvent(f, "denied")>>)
           ELSE UNCHANGED <<store, queue, gets, view, raced>>
  /\ UNCHANGED <<stream, counters>>

\* The POST fails or its answer is lost: the buttons come back.
DecisionFails(b) ==
  /\ Disturb
  /\ deciding[b] # None /\ deciding' = [deciding EXCEPT ![b] = None]
  /\ UNCHANGED <<store, stream, queue, gets, view, raced>>

\* Mutant of ResetEvents: the fresh asset states are not pushed.
ResetEventsOnly(as) == <<Event("reset", None, None)>>

\* "reset" clears no asset record in a browser; the events after it do.
ResetEvents(as) == <<Event("reset", None, None)>> \o [i \in DOMAIN as |-> AssetEvent(as[i], None)]

PresenterReset ==
  /\ Count /\ Change(Empty)
  /\ \E as \in [1 .. Cardinality(Asset) -> Asset] :
       /\ {as[i] : i \in DOMAIN as} = Asset
       /\ Publish(ResetEvents(as))
  /\ UNCHANGED <<stream, deciding, detected>>

\* The process starts again with an empty store; all streams break.
GatewayRestart ==
  /\ Count /\ Change(Empty)
  /\ stream' = [b \in Browser |-> IF stream[b] = "open" THEN "dropped" ELSE stream[b]]
  /\ queue' = [b \in Browser |-> <<>>]
  /\ raced' = [b \in Browser |-> raced[b] \/ \E p \in Part : Unheard(b, p)]
  /\ UNCHANGED <<deciding, detected>>

-----------------------------------------------------------------------------
(* useSSE and fetchSnapshot                                                *)

\* Mutant of Refetch: the stream comes back without a new snapshot.
RefetchNothing(b) ==
  /\ UNCHANGED gets
  /\ raced' = [raced EXCEPT ![b] = @ /\ gets[b] # <<>>]

\* EventSource.onopen.  A stream that comes back after a drop asks for a
\* new snapshot; the view is in order again if no older one is under way.
Refetch(b) ==
  /\ gets' = [gets EXCEPT ![b] = Append(@, Unasked)]
  /\ raced' = [raced EXCEPT ![b] = @ /\ gets[b] # <<>>]

Open(b) ==
  /\ stream[b] # "open"
  /\ stream' = [stream EXCEPT ![b] = "open"]
  /\ IF stream[b] = "dropped" THEN Refetch(b) ELSE UNCHANGED <<gets, raced>>
  /\ UNCHANGED <<store, queue, local, counters>>

\* EventSource.onerror: events under way are lost.
Drop(b) ==
  /\ Disturb
  /\ stream[b] # "dropped"
  /\ stream' = [stream EXCEPT ![b] = "dropped"]
  /\ queue' = [queue EXCEPT ![b] = <<>>]
  /\ raced' = [raced EXCEPT ![b] = @ \/
       \E i \in DOMAIN queue[b], p \in Part : Touches(queue[b][i], p) /\ HasRead(b, p)]
  /\ UNCHANGED <<store, gets, local>>

\* One of the GET requests of a snapshot is answered.
Answer(b, i, p) ==
  /\ gets[b][i][p] = None
  /\ gets' = [gets EXCEPT ![b][i][p] = store[p]]
  /\ UNCHANGED <<store, stream, queue, local, counters, raced>>

Forget(b, i) == gets' = [gets EXCEPT ![b] = SubSeq(@, 1, i - 1) \o SubSeq(@, i + 1, Len(@))]

\* A decision that waits while the view changes under it.
Crossed(b, fs) ==
  IF deciding[b] # None /\ deciding[b].fault \in fs
  THEN deciding' = [deciding EXCEPT ![b].crossed = TRUE]
  ELSE UNCHANGED deciding

\* Promise.all has every answer: the view is replaced.
ApplySnapshot(b, i) ==
  /\ \A p \in Part : gets[b][i][p] # None
  /\ view' = [view EXCEPT ![b] = gets[b][i]]
  /\ Forget(b, i) /\ Crossed(b, Fault)
  /\ UNCHANGED <<store, stream, queue, counters, raced>>

\* One request fails and the snapshot is given up; nobody asks again.
FailSnapshot(b, i) ==
  /\ Disturb /\ Forget(b, i)
  /\ raced' = [raced EXCEPT ![b] = TRUE]
  /\ UNCHANGED <<store, stream, queue, local>>

\* handleSSE.  An event that overtakes an answer is wiped out by it, except
\* that one already in a snapshot still on its way comes twice to a list.
Receive(v, e) ==
  CASE e.part = "faults" -> [v EXCEPT !.faults[e.id] = e.value]
    [] e.part = "assets" -> [v EXCEPT !.assets[e.id] = e.value]
    [] e.part = "notes"  -> [v EXCEPT !.notes = <<e.id>> \o @]
    [] e.part = "reset"  -> [v EXCEPT !.faults = Empty.faults, !.notes = <<>>]

HandleSSE(b) ==
  /\ queue[b] # <<>>
  /\ LET e == Head(queue[b])
     IN /\ view' = [view EXCEPT ![b] = Receive(@, e)]
        /\ raced' = [raced EXCEPT ![b] = @ \/ \E p \in Part : Touches(e, p) /\ HasRead(b, p)]
        /\ Crossed(b, IF e.part = "reset" THEN Fault ELSE {e.id})
  /\ queue' = [queue EXCEPT ![b] = Tail(@)]
  /\ UNCHANGED <<store, stream, gets, counters>>

-----------------------------------------------------------------------------
(* The operator                                                            *)

\* Approve and Deny are shown for a fault that awaits approval; selecting
\* its asset shows any fault.
Decide(b, f, decision) ==
  /\ Count
  /\ deciding[b] = None /\ view[b].faults[f] = "waiting"
  /\ deciding' = [deciding EXCEPT ![b] =
       [fault |-> f, decision |-> decision, answered |-> FALSE, crossed |-> FALSE]]
  /\ UNCHANGED <<store, stream, queue, gets, view, detected, raced>>

\* Mutant of Written: the decision itself is written.
WrittenAsIs(decision) == decision

Written(decision) == IF decision = "approved" THEN "waiting" ELSE "denied"

\* handleDecision writes what the click meant, whatever came in since.
HandleDecision(b) ==
  /\ deciding[b] # None /\ deciding[b].answered
  /\ LET f == deciding[b].fault
         new == Written(deciding[b].decision)
     IN /\ view' = [view EXCEPT ![b].faults[f] = IF @ = None THEN None ELSE new]
        /\ raced' = [raced EXCEPT ![b] = @ \/
             (deciding[b].crossed /\ view[b].faults[f] \notin {None, new})]
  /\ deciding' = [deciding EXCEPT ![b] = None]
  /\ UNCHANGED <<store, stream, queue, gets, counters>>

-----------------------------------------------------------------------------
Gateway ==
  \/ \E f \in Fault : CreateFault(f)
  \/ \E f \in Fault, s \in Status : SetStatus(f, s)
  \/ PresenterReset
  \/ GatewayRestart

Deliver(b) ==
  \/ Open(b)
  \/ \E i \in DOMAIN gets[b] : ApplySnapshot(b, i) \/ \E p \in Part : Answer(b, i, p)
  \/ HandleSSE(b)
  \/ PostDecision(b)
  \/ HandleDecision(b)

Operator(b) ==
  \E f \in Fault : Decide(b, f, "approved") \/ Decide(b, f, "denied")

Next ==
  \/ Gateway
  \/ \E b \in Browser :
       \/ Deliver(b)
       \/ Operator(b)
       \/ Drop(b) \/ DecisionFails(b)
       \/ \E i \in DOMAIN gets[b] : FailSnapshot(b, i)

Spec == Init /\ [][Next]_vars

\* Browsers and the network deliver what is under way and reconnect; the
\* operator and the disturbances owe nothing.
FairSpec == Spec /\ \A b \in Browser : WF_vars(Deliver(b))

-----------------------------------------------------------------------------
(* Properties                                                              *)

\* Nothing is under way between browser b and the Gateway.
Settled(b) ==
  stream[b] = "open" /\ queue[b] = <<>> /\ gets[b] = <<>> /\ deciding[b] = None

Agrees(b) ==
  /\ view[b].faults = store.faults
  /\ view[b].assets = store.assets
  /\ Range(view[b].notes) = Range(store.notes)

\* A browser at rest shows the faults, asset states and notifications the
\* Gateway holds, after any drops, resets and restarts of the Gateway,
\* unless an answer and an event crossed on the way (fetchSnapshot,
\* handleSSE, useSSE).
ViewAgrees == \A b \in Browser : Settled(b) /\ ~raced[b] => Agrees(b)

\* Once the lab is left alone every browser comes to rest with a view that
\* agrees with the Gateway, or that was raced and stays stale: no drop goes
\* without its new snapshot (useSSE onReconnect).
ComesToAgree == \A b \in Browser : <>[](Settled(b) /\ (raced[b] \/ Agrees(b)))
=============================================================================
