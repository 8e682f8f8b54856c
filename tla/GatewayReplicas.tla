--------------------------- MODULE GatewayReplicas ---------------------------
(***************************************************************************)
(* Several Gateway replicas over one Redis: the deployment of the Helm     *)
(* chart.  Every access to Redis is an await, so a handler is a sequence   *)
(* of steps, and an update reads a whole fault and writes a whole fault    *)
(* back.  Events go through a Redis channel: each replica has a listener   *)
(* that fans them out to its own browsers.                                 *)
(*                                                                         *)
(* A fault stands for itself and its asset (RemediationGate has assets     *)
(* shared by faults).  There is one browser per replica; its snapshot is   *)
(* read as it connects (Dashboard has the races of a snapshot).            *)
(***************************************************************************)
EXTENDS Naturals, Sequences

CONSTANTS
  Replica,
  Slot,        \* requests that may be handled at one time
  Fault,
  Status, Field,  \* of a fault and of its diagnosis
  MaxRequests, \* bound: requests
  MaxFailures, \* bound: restarts, failing listeners and disconnects
  None

ASSUME ReplicasAssumption ==
  /\ MaxRequests \in Nat /\ MaxFailures \in Nat
  /\ {"detected", "resolved"} \subseteq Status
  /\ None \notin Status \cup Field /\ Status \cap Field = {}

VARIABLES
  faults,    \* Redis: record of each fault, or None
  faulted,   \* Redis: faults whose asset is recorded as faulted
  request,   \* the request in each slot
  listener,  \* each replica's listener: "off", "starting" or "on"
  browser,   \* what the browser of each replica shows, or None
  queue,     \* events on the way to it
  requests, failures,  \* counters for the bounds
  granted,   \* history: each fault as its answered updates left it
  flaws,     \* history: what went wrong with each fault's handlers
  unheard    \* history: replicas whose browser was not told of an event

redis == <<faults, faulted>>
streams == <<listener, browser, queue, unheard>>
history == <<granted, flaws>>
vars == <<redis, request, streams, requests, failures, history>>

Record == [status: Status, fields: SUBSET Field]
New == [status |-> "detected", fields |-> {}]

\* create_fault, PATCH status and PATCH diagnosis; copy is the fault as read.
Kind == {"create", "status", "field"}
Request == [pc: {"read", "write", "asset", "publish"}, fault: Fault, kind: Kind,
            arg: Status \cup Field \cup {None}, copy: Record \cup {None}]

ASSUME NoneAssumption == None \notin Record \cup Request \cup [Fault -> Record \cup {None}]

Flaw == {"overlap", "cut", "reseeded", "reopened"}

TypeOK ==
  /\ faults \in [Fault -> Record \cup {None}]
  /\ faulted \subseteq Fault
  /\ request \in [Slot -> Request \cup {None}]
  /\ listener \in [Replica -> {"off", "starting", "on"}]
  /\ browser \in [Replica -> [Fault -> Record \cup {None}] \cup {None}]
  /\ queue \in [Replica -> Seq([fault: Fault, record: Record])]
  /\ requests \in Nat /\ failures \in Nat
  /\ granted \in [Fault -> Record \cup {None}]
  /\ flaws \in [Fault -> SUBSET Flaw]
  /\ unheard \subseteq Replica

Init ==
  /\ faults = [f \in Fault |-> None] /\ faulted = {}
  /\ request = [q \in Slot |-> None]
  /\ listener = [r \in Replica |-> "off"]
  /\ browser = [r \in Replica |-> None]
  /\ queue = [r \in Replica |-> <<>>]
  /\ requests = 0 /\ failures = 0
  /\ granted = faults
  /\ flaws = [f \in Fault |-> {}]
  /\ unheard = {}

-----------------------------------------------------------------------------
(* Handlers                                                                *)

On(f) == {q \in Slot : request[q] # None /\ request[q].fault = f}
At(q, pc) == request[q] # None /\ request[q].pc = pc
Goto(q, pc, copy) == request' = [request EXCEPT ![q].pc = pc, ![q].copy = copy]
Return(q) == request' = [request EXCEPT ![q] = None]

\* What an update makes of the record it has read.
Updated(q, record) ==
  CASE request[q].kind = "create" -> New
    [] request[q].kind = "status" -> [record EXCEPT !.status = request[q].arg]
    [] request[q].kind = "field"  -> [record EXCEPT !.fields = @ \cup {request[q].arg}]

\* A request arrives at some replica.  A create makes up a new id; an update
\* of an unknown one is a 404 and left out.
Begin(q, f, kind, arg) ==
  /\ requests < MaxRequests /\ requests' = requests + 1
  /\ request[q] = None
  /\ IF kind = "create" THEN faults[f] = None /\ On(f) = {} ELSE faults[f] # None
  /\ request' = [request EXCEPT ![q] =
       [pc |-> IF kind = "create" THEN "write" ELSE "read", fault |-> f, kind |-> kind,
        arg |-> arg, copy |-> None]]
  /\ flaws' = [flaws EXCEPT ![f] = @ \cup (IF On(f) # {} THEN {"overlap"} ELSE {})]
  /\ UNCHANGED <<redis, streams, failures, granted>>

\* HGET; no fault is ever removed from Redis.
ReadFault(q) ==
  /\ At(q, "read")
  /\ Goto(q, "write", faults[request[q].fault])
  /\ UNCHANGED <<redis, streams, requests, failures, history>>

\* Mutant of Written: an update writes only what it was given.
WrittenBlank(q) == Updated(q, New)

Written(q) == Updated(q, request[q].copy)

\* Mutant of Returned: the record as read is handed on.
ReturnedOld(q) == IF request[q].copy = None THEN New ELSE request[q].copy

Returned(q) == Written(q)

\* Mutant of ChangesAsset: a resolved fault leaves its asset faulted.
ChangesAssetOnCreate(q) == request[q].kind = "create"

ChangesAsset(q) == request[q].kind = "create" \/ request[q].arg = "resolved"

\* HSET of the whole fault.
WriteFault(q) ==
  /\ At(q, "write")
  /\ LET f == request[q].fault
         new == Written(q)
     IN /\ faults' = [faults EXCEPT ![f] = new]
        /\ Goto(q, IF ChangesAsset(q) THEN "asset" ELSE "publish", Returned(q))
        /\ flaws' = [flaws EXCEPT ![f] = @ \cup
             (IF faults[f] # None /\ faults[f].status = "resolved" /\ new.status # "resolved" THEN {"reopened"} ELSE {})]
  /\ UNCHANGED <<faulted, streams, requests, failures, granted>>

\* The asset's new record does not depend on the one read before.
WriteAsset(q) ==
  /\ At(q, "asset")
  /\ faulted' = IF request[q].kind = "create" THEN faulted \cup {request[q].fault}
                                              ELSE faulted \ {request[q].fault}
  /\ Goto(q, "publish", request[q].copy)
  /\ UNCHANGED <<faults, streams, requests, failures, history>>

\* PUBLISH reaches the listeners that hold the channel at that time.
Told(r) == browser[r] # None /\ listener[r] = "on"

Broadcast(e) ==
  /\ queue' = [r \in Replica |-> IF Told(r) THEN Append(queue[r], e) ELSE queue[r]]
  /\ unheard' = unheard \cup {r \in Replica : browser[r] # None /\ ~Told(r)}

\* Mutant of Event: the event carries what has changed only.
EventDelta(q) == [fault |-> request[q].fault, record |-> request[q].arg]

\* The event carries the record this handler has written.
Event(q) == [fault |-> request[q].fault, record |-> request[q].copy]

Publish(q) ==
  /\ At(q, "publish")
  /\ Broadcast(Event(q))
  /\ LET f == request[q].fault
     IN granted' = [granted EXCEPT ![f] = Updated(q, IF @ = None THEN New ELSE @)]
  /\ Return(q)
  /\ UNCHANGED <<redis, listener, browser, requests, failures, flaws>>

-----------------------------------------------------------------------------
(* Streams                                                                 *)

\* subscribe() starts the listener if none runs and does not wait for it.
Connect(r) ==
  /\ browser[r] = None
  /\ browser' = [browser EXCEPT ![r] = faults]
  /\ queue' = [queue EXCEPT ![r] = <<>>]
  /\ unheard' = unheard \ {r}
  /\ listener' = [listener EXCEPT ![r] = IF @ = "off" THEN "starting" ELSE @]
  /\ UNCHANGED <<redis, request, requests, failures, history>>

\* A second browser of the replica subscribes after the listener has ended.
ConnectAnother(r) ==
  /\ browser[r] # None /\ listener[r] = "off"
  /\ listener' = [listener EXCEPT ![r] = "starting"]
  /\ UNCHANGED <<redis, request, browser, queue, unheard, requests, failures, history>>

ListenerReady(r) ==
  /\ listener[r] = "starting" /\ listener' = [listener EXCEPT ![r] = "on"]
  /\ UNCHANGED <<redis, request, browser, queue, unheard, requests, failures, history>>

Deliver(r) ==
  /\ queue[r] # <<>>
  /\ browser' = [browser EXCEPT ![r][Head(queue[r]).fault] = Head(queue[r]).record]
  /\ queue' = [queue EXCEPT ![r] = Tail(@)]
  /\ UNCHANGED <<redis, request, listener, unheard, requests, failures, history>>

Fail == failures < MaxFailures /\ failures' = failures + 1

Close(r) ==
  /\ browser' = [browser EXCEPT ![r] = None]
  /\ queue' = [queue EXCEPT ![r] = <<>>]
  /\ unheard' = unheard \ {r}

Disconnect(r) ==
  /\ Fail /\ browser[r] # None /\ Close(r)
  /\ UNCHANGED <<redis, request, listener, requests, history>>

\* The connection to Redis breaks and the task ends; its browsers are not
\* told and nothing starts it again before the next subscription.
ListenerFails(r) ==
  /\ Fail /\ listener[r] # "off"
  /\ listener' = [listener EXCEPT ![r] = "off"]
  /\ UNCHANGED <<redis, request, browser, queue, unheard, requests, history>>

\* A replica restarts: the requests it handles end where they are, its browser and
\* its listener are gone, and every asset is seeded healthy.  store.reset
\* of RESET_STATE_ON_START=1 does not exist and its error is suppressed.
Restart(r) ==
  /\ Fail
  /\ \E lost \in SUBSET {q \in Slot : request[q] # None} :
        /\ request' = [q \in Slot |-> IF q \in lost THEN None ELSE request[q]]
        /\ flaws' = [f \in Fault |-> flaws[f]
             \cup (IF lost \cap On(f) # {} THEN {"cut"} ELSE {})
             \cup (IF faults[f] # None THEN {"reseeded"} ELSE {})]
  /\ faulted' = {}
  /\ listener' = [listener EXCEPT ![r] = "off"]
  /\ Close(r)
  /\ UNCHANGED <<faults, requests, granted>>

-----------------------------------------------------------------------------
Next ==
  \/ \E q \in Slot, f \in Fault :
       \/ Begin(q, f, "create", None)
       \/ \E s \in Status : Begin(q, f, "status", s)
       \/ \E x \in Field : Begin(q, f, "field", x)
  \/ \E q \in Slot : ReadFault(q) \/ WriteFault(q) \/ WriteAsset(q) \/ Publish(q)
  \/ \E r \in Replica :
       \/ Connect(r) \/ ConnectAnother(r) \/ ListenerReady(r) \/ Deliver(r)
       \/ Disconnect(r) \/ ListenerFails(r) \/ Restart(r)

Spec == Init /\ [][Next]_vars

-----------------------------------------------------------------------------
(* Properties                                                              *)

Clean(f) == flaws[f] \cap {"overlap", "cut"} = {}
Idle(f) == On(f) = {}

\* A fault no two handlers have been at together, and none has died at,
\* holds everything its answered updates wrote (update_fault_status,
\* update_fault_fields: read, await, write back whole).
UpdatesKept == \A f \in Fault : Clean(f) /\ Idle(f) => faults[f] = granted[f]

\* A browser whose listener was there for every event shows such a fault
\* as Redis holds it, whichever replica handled the requests
\* (RedisSSEBroker).
StreamsAgree ==
  \A r \in Replica, f \in Fault :
    browser[r] # None /\ queue[r] = <<>> /\ r \notin unheard /\ Clean(f) /\ Idle(f)
      => browser[r][f] = faults[f]

\* Its asset is faulted until it is resolved, and healthy from then on,
\* unless its handlers overlapped or died, a replica was started meanwhile
\* (lifespan seeds healthy assets), or the resolved fault was given another
\* status again: update_fault_status then leaves the asset healthy.
AssetsFollow ==
  \A f \in Fault : flaws[f] = {} /\ Idle(f) /\ faults[f] # None
    => ((f \in faulted) = (faults[f].status # "resolved"))

\* Updates of a fault that do not overlap are atomic, with any number of
\* replicas that fail at any time: the store implements AtomicFaults.
Atomic == INSTANCE AtomicFaults WITH
  record <- faults,
  contended <- {f \in Fault : "overlap" \in flaws[f]}
ImplementsAtomicFaults == Atomic!Spec
=============================================================================
