------------------------ MODULE GatewayReplicasProofs ------------------------
(***************************************************************************)
(* Proofs about GatewayReplicas, for any number of replicas, faults,       *)
(* requests at one time, restarts and failing listeners.  The inductive    *)
(* invariant says, for every step of a handler, how the copy it has read   *)
(* and the answers given so far relate to what Redis holds, and what a     *)
(* browser will show once it has read its queue.                           *)
(***************************************************************************)
EXTENDS GatewayReplicas, SequenceTheorems, TLAPS

\* A handler that has written, or needs no fault to be there.
Creating(q) == request[q].kind = "create" /\ request[q].pc = "write"

HandlersOK ==
  \A q \in Slot : request[q] # None =>
    /\ request[q].kind = "status" => request[q].arg \in Status
    /\ request[q].kind = "field" => request[q].arg \in Field
    /\ request[q].kind = "create" => request[q].arg = None /\ request[q].pc # "read"
    /\ Creating(q) => faults[request[q].fault] = None
    /\ ~Creating(q) => faults[request[q].fault] # None
    /\ request[q].pc = "write" /\ ~Creating(q) => request[q].copy \in Record
    /\ request[q].pc \in {"asset", "publish"} => request[q].copy \in Record
    /\ request[q].pc = "asset" => ChangesAsset(q)

CreatesAlone == \A q \in Slot : request[q] # None /\ Creating(q) => On(request[q].fault) = {q}

Overlapped(f) == "overlap" \in flaws[f]

OneAtATime == \A f \in Fault : ~Overlapped(f) => \A p, q \in On(f) : p = q

\* Nobody else has written since a handler read, or wrote, the fault.
CopiesCurrent ==
  \A q \in Slot : request[q] # None /\ ~Overlapped(request[q].fault) =>
    \/ request[q].pc = "read" \/ Creating(q)
    \/ request[q].copy = faults[request[q].fault]

\* What an answered update finds.
Base(f) == IF granted[f] = None THEN New ELSE granted[f]
Unwritten(q) == request[q].pc \in {"read", "write"}

Kept(f) ==
  /\ Idle(f) => faults[f] = granted[f]
  /\ \A q \in On(f) : Unwritten(q) => faults[f] = granted[f]
  /\ \A q \in On(f) : ~Unwritten(q) => faults[f] = Updated(q, Base(f))

AnswersKept == \A f \in Fault : Clean(f) => Kept(f)

\* The asset lags behind its fault while a handler has still to write it.
AssetPending(f) ==
  \E q \in On(f) :
    /\ request[q].pc = "asset"
    /\ faults[f].status = IF request[q].kind = "create" THEN "detected" ELSE "resolved"

AssetsTracked ==
  \A f \in Fault : flaws[f] = {} /\ faults[f] # None =>
    AssetPending(f) \/ ((f \in faulted) = (faults[f].status # "resolved"))

\* What a browser shows of a fault when it has read its queue.
LastOf(r, i) == \A j \in 1 .. Len(queue[r]) : j > i => queue[r][j].fault # queue[r][i].fault
Silent(r, f) == \A i \in 1 .. Len(queue[r]) : queue[r][i].fault # f

BrowsersTold ==
  \A r \in Replica : browser[r] # None /\ r \notin unheard =>
    \A f \in Fault : Clean(f) =>
      /\ Silent(r, f) => browser[r][f] \in {granted[f], faults[f]}
      /\ \A i \in 1 .. Len(queue[r]) :
           queue[r][i].fault = f /\ LastOf(r, i) => queue[r][i].record \in {granted[f], faults[f]}

QueuesHaveReaders == \A r \in Replica : browser[r] = None => queue[r] = <<>>

Inv ==
  /\ TypeOK
  /\ HandlersOK
  /\ CreatesAlone
  /\ OneAtATime
  /\ CopiesCurrent
  /\ AnswersKept
  /\ AssetsTracked
  /\ QueuesHaveReaders
  /\ BrowsersTold

-----------------------------------------------------------------------------
\* Handler q is now at pc and holds copy; the others stay as they are.
Moved(q, pc, copy) ==
  /\ request' \in [Slot -> Request \cup {None}]
  /\ request'[q] \in Request /\ request'[q] # None
  /\ request'[q].pc = pc /\ request'[q].copy = copy
  /\ request'[q].fault = request[q].fault
  /\ request'[q].kind = request[q].kind
  /\ request'[q].arg = request[q].arg
  /\ \A p \in Slot \ {q} : request'[p] = request[p]

LEMMA GotoUpdate ==
  ASSUME TypeOK, NEW q \in Slot, request[q] # None,
         NEW pc \in {"read", "write", "asset", "publish"},
         NEW copy \in Record \cup {None}, Goto(q, pc, copy)
  PROVE  Moved(q, pc, copy) /\ \A f \in Fault : On(f)' = On(f)
<1>1. request[q] \in Request /\ request \in [Slot -> Request \cup {None}]
  BY DEF TypeOK
<1>2. [request[q] EXCEPT !.pc = pc, !.copy = copy] \in Request
  BY <1>1 DEF Request
<1>3. request' = [request EXCEPT ![q] = [request[q] EXCEPT !.pc = pc, !.copy = copy]]
  BY <1>1 DEF Goto
<1>4. Moved(q, pc, copy)
  <2>1. request'[q] = [request[q] EXCEPT !.pc = pc, !.copy = copy]
    BY <1>1, <1>3
  <2>2. request'[q] \in Request /\ request'[q] # None
    BY <1>2, <2>1, NoneAssumption
  <2>3. request' \in [Slot -> Request \cup {None}]
    BY <1>1, <1>2, <1>3
  <2> QED
    BY <1>1, <1>3, <2>1, <2>2, <2>3 DEF Moved, Request
<1>5. \A f \in Fault : On(f)' = On(f)
  BY <1>4 DEF Moved, On
<1> QED
  BY <1>4, <1>5

LEMMA UpdatedIsRecord ==
  ASSUME TypeOK, HandlersOK, NEW q \in Slot, request[q] # None, NEW record \in Record
  PROVE  Updated(q, record) \in Record
<1>1. request[q].kind \in {"create", "status", "field"}
  BY DEF TypeOK, Request, Kind
<1>2. CASE request[q].kind = "create"
  BY <1>2, ReplicasAssumption DEF Updated, Record, New
<1>3. CASE request[q].kind = "status"
  <2>1. request[q].arg \in Status
    BY <1>3 DEF HandlersOK
  <2> QED
    BY <1>3, <2>1 DEF Updated, Record
<1>4. CASE request[q].kind = "field"
  <2>1. request[q].arg \in Field
    BY <1>4 DEF HandlersOK
  <2> QED
    BY <1>4, <2>1 DEF Updated, Record
<1> QED
  BY <1>1, <1>2, <1>3, <1>4

LEMMA WrittenIsRecord ==
  ASSUME TypeOK, HandlersOK, NEW q \in Slot, At(q, "write")
  PROVE  Written(q) \in Record
<1>1. CASE request[q].kind = "create"
  BY <1>1, ReplicasAssumption DEF Written, Updated, Record, New
<1>2. CASE request[q].kind # "create"
  <2>1. request[q].copy \in Record
    BY <1>2 DEF At, HandlersOK, Creating
  <2> QED
    BY <2>1, UpdatedIsRecord DEF At, Written
<1> QED
  BY <1>1, <1>2

LEMMA KeptStays ==
  ASSUME NEW f \in Fault, Kept(f), On(f)' = On(f),
         faults'[f] = faults[f], granted'[f] = granted[f],
         \A q \in On(f) : request'[q] = request[q]
  PROVE  Kept(f)'
<1>1. \A q \in On(f) : Unwritten(q)' = Unwritten(q)
  BY DEF Unwritten
<1>2. Base(f)' = Base(f)
  BY DEF Base
<1>3. \A q \in On(f) : Updated(q, Base(f))' = Updated(q, Base(f))
  BY <1>2 DEF Updated
<1> QED
  BY <1>1, <1>3 DEF Kept, Idle

-----------------------------------------------------------------------------
\* A request arrives.
LEMMA BeginSafe ==
  ASSUME Inv, NEW q \in Slot, NEW f \in Fault, NEW kind \in Kind,
         NEW arg \in Status \cup Field \cup {None},
         kind = "create" => arg = None,
         kind = "status" => arg \in Status,
         kind = "field" => arg \in Field,
         Begin(q, f, kind, arg)
  PROVE  Inv'
<1> DEFINE new == [pc |-> IF kind = "create" THEN "write" ELSE "read", fault |-> f,
                   kind |-> kind, arg |-> arg, copy |-> None]
<1>1. new \in Request /\ new # None
  BY NoneAssumption DEF Request
<1>2. /\ request' = [request EXCEPT ![q] = new]
      /\ request[q] = None
      /\ UNCHANGED <<faults, faulted, listener, browser, queue, unheard, failures, granted>>
      /\ IF kind = "create" THEN faults[f] = None /\ On(f) = {} ELSE faults[f] # None
  BY DEF Begin, redis, streams
<1>3. /\ request'[q].pc = (IF kind = "create" THEN "write" ELSE "read")
      /\ request'[q].fault = f /\ request'[q].kind = kind /\ request'[q].arg = arg
      /\ request'[q] # None
      /\ \A p \in Slot \ {q} : request'[p] = request[p]
  BY <1>1, <1>2 DEF Inv, TypeOK
<1> HIDE DEF new
<1>4. \A g \in Fault : On(g)' = IF g = f THEN On(g) \cup {q} ELSE On(g)
  BY <1>2, <1>3 DEF On
<1>5. /\ flaws' \in [Fault -> SUBSET Flaw]
      /\ \A g \in Fault \ {f} : flaws'[g] = flaws[g]
      /\ flaws'[f] = flaws[f] \cup (IF On(f) # {} THEN {"overlap"} ELSE {})
  BY DEF Begin, Inv, TypeOK, Flaw
<1>6. \A g \in Fault : flaws[g] \subseteq flaws'[g]
  BY <1>5
<1>7. Overlapped(f)' \/ On(f) = {}
  BY <1>5 DEF Overlapped
<1>8. TypeOK'
  <2>1. request' \in [Slot -> Request \cup {None}]
    BY <1>1, <1>2 DEF Inv, TypeOK
  <2>2. requests' \in Nat
    BY DEF Inv, TypeOK, Begin
  <2> QED
    BY <1>2, <1>5, <2>1, <2>2 DEF Inv, TypeOK
<1>9. HandlersOK'
  BY <1>2, <1>3 DEF Inv, HandlersOK, Creating, ChangesAsset, Kind
<1>10. CreatesAlone'
  <2> SUFFICES ASSUME NEW p \in Slot, request'[p] # None, Creating(p)'
               PROVE  On(request[p].fault)' = {p}
    BY DEF CreatesAlone
  <2>1. CASE p = q
    BY <2>1, <1>2, <1>3, <1>4 DEF Creating
  <2>2. CASE p # q
    <3>1. request[p] # None /\ Creating(p) /\ request'[p].fault = request[p].fault
      BY <2>2, <1>3 DEF Creating
    <3>2. On(request[p].fault) = {p} /\ faults[request[p].fault] = None
      BY <3>1 DEF Inv, CreatesAlone, HandlersOK
    <3>3. request[p].fault # f
      BY <3>2, <1>2
    <3> QED
      BY <3>1, <3>2, <3>3, <1>4 DEF Inv, TypeOK, Request
  <2> QED
    BY <2>1, <2>2
<1>11. OneAtATime'
  BY <1>4, <1>6, <1>7 DEF Inv, OneAtATime, Overlapped
<1>12. CopiesCurrent'
  BY <1>2, <1>3, <1>6 DEF Inv, TypeOK, Request, CopiesCurrent, Overlapped, Creating
<1>13. AnswersKept'
  <2> SUFFICES ASSUME NEW g \in Fault, Clean(g)'
               PROVE  Kept(g)'
    BY DEF AnswersKept
  <2>1. Kept(g)
    BY <1>6 DEF Clean, Inv, AnswersKept
  <2>2. CASE g = f
    <3>1. On(f) = {} /\ On(f)' = {q}
      BY <2>2, <1>4, <1>7 DEF Clean, Overlapped
    <3>2. faults[f] = granted[f]
      BY <2>1, <2>2, <3>1 DEF Kept, Idle
    <3> QED
      BY <2>2, <3>1, <3>2, <1>2, <1>3 DEF Unwritten, Kept, Idle
  <2>3. CASE g # f
    <3>1. On(g)' = On(g) /\ q \notin On(g)
      BY <2>3, <1>2, <1>4 DEF On
    <3> QED
      BY <2>1, <3>1, <1>2, <1>3, KeptStays DEF On
  <2> QED
    BY <2>2, <2>3
<1>14. AssetsTracked'
  <2>1. \A g \in Fault : flaws'[g] = {} => flaws[g] = {}
    BY <1>6
  <2>2. \A g \in Fault : AssetPending(g) => AssetPending(g)'
    BY <1>2, <1>3, <1>4 DEF AssetPending, On
  <2> QED
    BY <1>2, <2>1, <2>2 DEF Inv, AssetsTracked
<1>15. QueuesHaveReaders'
  BY <1>2 DEF Inv, QueuesHaveReaders
<1>16. BrowsersTold'
  BY <1>2, <1>6 DEF Inv, BrowsersTold, Clean, Silent, LastOf
<1> QED
  BY <1>8, <1>9, <1>10, <1>11, <1>12, <1>13, <1>14, <1>15, <1>16 DEF Inv

LEMMA ReadSafe ==
  ASSUME Inv, NEW q \in Slot, ReadFault(q)
  PROVE  Inv'
<1> DEFINE f == request[q].fault
<1>1. /\ request[q] # None /\ request[q].pc = "read" /\ f \in Fault
      /\ UNCHANGED <<faults, faulted, listener, browser, queue, unheard, requests,
                     failures, granted, flaws>>
  BY DEF ReadFault, At, redis, streams, history, Inv, TypeOK, Request
<1>2. ~Creating(q) /\ faults[f] \in Record
  BY <1>1 DEF Creating, Inv, HandlersOK, TypeOK
<1>3. Moved(q, "write", faults[f]) /\ \A g \in Fault : On(g)' = On(g)
  BY <1>1, <1>2, GotoUpdate DEF ReadFault, Inv
<1>4. TypeOK'
  BY <1>1, <1>3 DEF Inv, TypeOK, Moved
<1>5. request[q].kind # "create"
  BY <1>1 DEF Inv, HandlersOK
<1>6. HandlersOK'
  BY <1>1, <1>2, <1>3, <1>5 DEF Inv, HandlersOK, Moved, Creating, ChangesAsset
<1>7. CreatesAlone'
  <2> SUFFICES ASSUME NEW p \in Slot, request'[p] # None, Creating(p)'
               PROVE  On(request[p].fault)' = {p}
    BY DEF CreatesAlone
  <2>1. p # q
    BY <1>3, <1>5 DEF Moved, Creating
  <2>2. request'[p] = request[p] /\ request[p].fault \in Fault
    BY <2>1, <1>3 DEF Moved, Inv, TypeOK, Request
  <2> QED
    BY <2>2, <1>3 DEF Inv, CreatesAlone, Creating
<1>8. OneAtATime'
  BY <1>1, <1>3 DEF Inv, OneAtATime, Overlapped
<1>9. CopiesCurrent'
  BY <1>1, <1>3 DEF Inv, CopiesCurrent, Overlapped, Moved, Creating
<1>10. AnswersKept'
  <2> SUFFICES ASSUME NEW g \in Fault, Clean(g)
               PROVE  Kept(g)'
    BY <1>1 DEF AnswersKept, Clean
  <2>1. CASE q \in On(g)
    <3>1. On(g) = {q} /\ g = f
      BY <2>1 DEF Clean, Inv, OneAtATime, Overlapped, On
    <3>2. faults[g] = granted[g]
      BY <1>1, <3>1 DEF Inv, AnswersKept, Kept, Unwritten
    <3> QED
      BY <1>1, <1>3, <3>1, <3>2 DEF Kept, Idle, Unwritten, Moved
  <2>2. CASE q \notin On(g)
    BY <1>1, <1>3, <2>2, KeptStays DEF Inv, AnswersKept, Moved, On
  <2> QED
    BY <2>1, <2>2
<1>11. AssetsTracked'
  <2>1. \A g \in Fault : AssetPending(g) => AssetPending(g)'
    BY <1>1, <1>3 DEF AssetPending, On, Moved
  <2> QED
    BY <1>1, <2>1 DEF Inv, AssetsTracked
<1>12. QueuesHaveReaders' /\ BrowsersTold'
  BY <1>1 DEF Inv, QueuesHaveReaders, BrowsersTold, Clean, Silent, LastOf
<1> QED
  BY <1>4, <1>6, <1>7, <1>8, <1>9, <1>10, <1>11, <1>12 DEF Inv

\* The whole record goes back.  For a fault with one handler it is the
\* record as read, with what the request names changed.
LEMMA WriteSafe ==
  ASSUME Inv, NEW q \in Slot, WriteFault(q)
  PROVE  Inv'
<1>0. PICK f \in Fault : f = request[q].fault
  BY DEF WriteFault, At, Inv, TypeOK, Request
<1> DEFINE new == Written(q)
           pc == IF ChangesAsset(q) THEN "asset" ELSE "publish"
<1>1. /\ request[q] # None /\ request[q].pc = "write" /\ request[q].fault = f
      /\ UNCHANGED <<faulted, listener, browser, queue, unheard, requests, failures, granted>>
      /\ request[q].kind \in Kind
  BY <1>0 DEF WriteFault, At, streams, Inv, TypeOK, Request
<1>2. new \in Record /\ new # None
  BY WrittenIsRecord, NoneAssumption DEF WriteFault, Inv
<1>3. /\ faults' = [faults EXCEPT ![f] = new]
      /\ flaws' = [flaws EXCEPT ![f] = @ \cup
           (IF faults[f] # None /\ faults[f].status = "resolved" /\ new.status # "resolved"
              THEN {"reopened"} ELSE {})]
      /\ Goto(q, pc, new)
  BY <1>0 DEF WriteFault, Returned
<1> HIDE DEF new
<1>4. Moved(q, pc, new) /\ \A g \in Fault : On(g)' = On(g)
  BY <1>1, <1>2, <1>3, GotoUpdate DEF Inv
<1>5. /\ \A g \in Fault : faults'[g] = IF g = f THEN new ELSE faults[g]
      /\ \A g \in Fault : flaws[g] \subseteq flaws'[g] /\ flaws'[g] \subseteq flaws[g] \cup {"reopened"}
      /\ \A g \in Fault \ {f} : flaws'[g] = flaws[g]
      /\ "reopened" \in flaws'[f] \/ faults[f] = None \/ faults[f].status # "resolved" \/ new.status = "resolved"
  BY <1>1, <1>3 DEF Inv, TypeOK
<1>6. TypeOK'
  BY <1>1, <1>2, <1>3, <1>4 DEF Inv, TypeOK, Moved, Flaw
<1>7. \A g \in Fault : Overlapped(g)' = Overlapped(g) /\ Clean(g)' = Clean(g)
  BY <1>5 DEF Overlapped, Clean
<1>8. HandlersOK'
  <2> SUFFICES ASSUME NEW p \in Slot, request'[p] # None
               PROVE  /\ request'[p].kind = "status" => request'[p].arg \in Status
                      /\ request'[p].kind = "field" => request'[p].arg \in Field
                      /\ request'[p].kind = "create" => request'[p].arg = None /\ request'[p].pc # "read"
                      /\ Creating(p)' => faults'[request'[p].fault] = None
                      /\ ~Creating(p)' => faults'[request'[p].fault] # None
                      /\ request'[p].pc = "write" /\ ~Creating(p)' => request'[p].copy \in Record
                      /\ request'[p].pc \in {"asset", "publish"} => request'[p].copy \in Record
                      /\ request'[p].pc = "asset" => ChangesAsset(p)'
    BY DEF HandlersOK
  <2>1. CASE p = q
    BY <2>1, <1>1, <1>2, <1>4, <1>5 DEF Inv, HandlersOK, Moved, Creating, ChangesAsset
  <2>2. CASE p # q
    <3>1. request'[p] = request[p] /\ request[p] # None /\ request[p].fault \in Fault
      BY <2>2, <1>4 DEF Moved, Inv, TypeOK, Request
    <3>2. Creating(p) => request[p].fault # f
      BY <2>2, <3>1, <1>1 DEF Inv, CreatesAlone, On
    <3>3. Creating(p)' = Creating(p) /\ ChangesAsset(p)' = ChangesAsset(p)
      BY <3>1 DEF Creating, ChangesAsset
    <3> QED
      BY <3>1, <3>2, <3>3, <1>2, <1>5 DEF Inv, HandlersOK
  <2> QED
    BY <2>1, <2>2
<1>9. CreatesAlone'
  <2> SUFFICES ASSUME NEW p \in Slot, request'[p] # None, Creating(p)'
               PROVE  On(request[p].fault)' = {p}
    BY DEF CreatesAlone
  <2>1. p # q
    BY <1>4 DEF Moved, Creating
  <2>2. request'[p] = request[p] /\ request[p].fault \in Fault
    BY <2>1, <1>4 DEF Moved, Inv, TypeOK, Request
  <2> QED
    BY <2>2, <1>4 DEF Inv, CreatesAlone, Creating
<1>10. OneAtATime'
  BY <1>4, <1>7 DEF Inv, OneAtATime
<1>11. CopiesCurrent'
  <2> SUFFICES ASSUME NEW p \in Slot, request'[p] # None, ~Overlapped(request[p].fault)'
               PROVE  \/ request'[p].pc = "read" \/ Creating(p)'
                      \/ request'[p].copy = faults'[request'[p].fault]
    BY DEF CopiesCurrent
  <2>1. CASE p = q
    BY <2>1, <1>1, <1>4, <1>5 DEF Moved
  <2>2. CASE p # q
    <3>1. request'[p] = request[p] /\ request[p] # None /\ request[p].fault \in Fault
      BY <2>2, <1>4 DEF Moved, Inv, TypeOK, Request
    <3>2. ~Overlapped(request[p].fault)
      BY <3>1, <1>7
    <3>3. request[p].fault # f
      BY <2>2, <3>1, <3>2, <1>1 DEF Inv, OneAtATime, On
    <3> QED
      BY <3>1, <3>2, <3>3, <1>5 DEF Inv, CopiesCurrent, Creating
  <2> QED
    BY <2>1, <2>2
<1>12. Clean(f) => /\ On(f) = {q}
                   /\ faults[f] = granted[f]
                   /\ new = Updated(q, Base(f))
  <2> SUFFICES ASSUME Clean(f)
               PROVE  On(f) = {q} /\ faults[f] = granted[f] /\ new = Updated(q, Base(f))
    OBVIOUS
  <2>1. On(f) = {q} /\ ~Overlapped(f)
    BY <1>1 DEF Clean, Overlapped, Inv, OneAtATime, On
  <2>2. faults[f] = granted[f]
    BY <1>1, <2>1 DEF Inv, AnswersKept, Kept, Unwritten
  <2>3. CASE request[q].kind = "create"
    BY <2>1, <2>2, <2>3 DEF new, Written, Updated
  <2>4. CASE request[q].kind # "create"
    <3>1. request[q].copy = faults[f] /\ faults[f] # None
      BY <2>1, <2>4, <1>1 DEF Inv, HandlersOK, CopiesCurrent, Creating
    <3>2. Base(f) = request[q].copy
      BY <2>2, <3>1 DEF Base
    <3> QED
      BY <2>1, <2>2, <3>2 DEF new, Written
  <2> QED
    BY <2>1, <2>2, <2>3, <2>4
<1>13. AnswersKept'
  <2> SUFFICES ASSUME NEW g \in Fault, Clean(g)
               PROVE  Kept(g)'
    BY <1>7 DEF AnswersKept
  <2>1. CASE g = f
    <3>1. Updated(q, Base(f))' = Updated(q, Base(f))
      BY <1>1, <1>4 DEF Updated, Base, Moved
    <3>2. ~Unwritten(q)'
      BY <1>4 DEF Moved, Unwritten
    <3> QED
      BY <2>1, <3>1, <3>2, <1>4, <1>5, <1>12 DEF Kept, Idle
  <2>2. CASE g # f
    <3>1. q \notin On(g)
      BY <2>2, <1>1 DEF On
    <3> QED
      BY <2>2, <3>1, <1>1, <1>4, <1>5, KeptStays DEF Inv, AnswersKept, Moved, On
  <2> QED
    BY <2>1, <2>2
<1>14. AssetsTracked'
  <2> SUFFICES ASSUME NEW g \in Fault, flaws'[g] = {}, faults'[g] # None
               PROVE  AssetPending(g)' \/ ((g \in faulted) = (faults'[g].status # "resolved"))
    BY <1>1 DEF AssetsTracked
  <2>1. flaws[g] = {}
    BY <1>5
  <2>2. CASE g = f
    <3>1. On(f) = {q} /\ ~Overlapped(f) /\ On(f)' = {q}
      BY <2>1, <2>2, <1>4, <1>12 DEF Clean, Overlapped
    <3>2. CASE request[q].kind = "create"
      <4>1. new.status = "detected"
        BY <3>2 DEF new, Written, Updated, New
      <4>2. request'[q].pc = "asset" /\ request'[q].kind = "create"
        BY <3>2, <1>4 DEF Moved, ChangesAsset
      <4> QED
        BY <2>2, <3>1, <4>1, <4>2, <1>1, <1>5 DEF AssetPending
    <3>3. CASE request[q].kind = "status"
      <4>1. request[q].copy \in Record /\ faults[f] = request[q].copy
        BY <1>1, <3>1, <3>3 DEF Inv, HandlersOK, CopiesCurrent, Creating
      <4>2. new.status = request[q].arg
        BY <3>3, <4>1 DEF new, Written, Updated, Record
      <4>3. CASE request[q].arg = "resolved"
        <5>1. request'[q].pc = "asset" /\ request'[q].kind # "create"
          BY <3>3, <4>3, <1>4 DEF Moved, ChangesAsset
        <5> QED
          BY <2>2, <3>1, <4>2, <4>3, <5>1, <1>1, <1>5 DEF AssetPending
      <4>4. CASE request[q].arg # "resolved"
        <5>1. faults[f] # None /\ faults[f].status # "resolved"
          BY <2>2, <4>1, <4>2, <4>4, <1>5, NoneAssumption
        <5>2. ~AssetPending(f)
          BY <3>1, <1>1 DEF AssetPending
        <5> QED
          BY <2>1, <2>2, <4>2, <4>4, <5>1, <5>2, <1>5 DEF Inv, AssetsTracked
      <4> QED
        BY <4>3, <4>4
    <3>4. CASE request[q].kind = "field"
      <4>1. request[q].copy \in Record /\ faults[f] = request[q].copy
        BY <1>1, <3>1, <3>4 DEF Inv, HandlersOK, CopiesCurrent, Creating
      <4>2. new.status = faults[f].status /\ faults[f] # None
        BY <3>4, <4>1, NoneAssumption DEF new, Written, Updated, Record
      <4>3. ~AssetPending(f)
        BY <3>1, <1>1 DEF AssetPending
      <4> QED
        BY <2>1, <2>2, <4>2, <4>3, <1>5 DEF Inv, AssetsTracked
    <3> QED
      BY <3>2, <3>3, <3>4, <1>1 DEF Kind
  <2>3. CASE g # f
    <3>1. AssetPending(g) => AssetPending(g)'
      BY <2>3, <1>1, <1>4, <1>5 DEF AssetPending, On, Moved
    <3> QED
      BY <2>1, <2>3, <3>1, <1>1, <1>5 DEF Inv, AssetsTracked
  <2> QED
    BY <2>2, <2>3
<1>15. QueuesHaveReaders'
  BY <1>1 DEF Inv, QueuesHaveReaders
<1>16. BrowsersTold'
  <2>1. \A g \in Fault : Clean(g) => {granted[g], faults[g]} \subseteq {granted[g], faults'[g]}
    BY <1>5, <1>12
  <2> QED
    BY <2>1, <1>1, <1>7 DEF Inv, BrowsersTold, Silent, LastOf
<1> QED
  BY <1>6, <1>8, <1>9, <1>10, <1>11, <1>13, <1>14, <1>15, <1>16 DEF Inv

LEMMA AssetSafe ==
  ASSUME Inv, NEW q \in Slot, WriteAsset(q)
  PROVE  Inv'
<1>0. PICK f \in Fault : f = request[q].fault
  BY DEF WriteAsset, At, Inv, TypeOK, Request
<1>1. /\ request[q] # None /\ request[q].pc = "asset" /\ request[q].fault = f
      /\ UNCHANGED <<faults, listener, browser, queue, unheard, requests, failures, granted, flaws>>
      /\ faulted' = IF request[q].kind = "create" THEN faulted \cup {f} ELSE faulted \ {f}
  BY <1>0 DEF WriteAsset, At, streams, history
<1>2. request[q].copy \in Record /\ ~Creating(q)
  BY <1>1 DEF Inv, HandlersOK, Creating
<1>3. Moved(q, "publish", request[q].copy) /\ \A g \in Fault : On(g)' = On(g)
  BY <1>1, <1>2, GotoUpdate DEF WriteAsset, Inv
<1>4. TypeOK'
  BY <1>1, <1>3 DEF Inv, TypeOK, Moved
<1>5. HandlersOK'
  BY <1>1, <1>2, <1>3 DEF Inv, HandlersOK, Moved, Creating, ChangesAsset
<1>6. CreatesAlone'
  <2> SUFFICES ASSUME NEW p \in Slot, request'[p] # None, Creating(p)'
               PROVE  On(request[p].fault)' = {p}
    BY DEF CreatesAlone
  <2>1. p # q
    BY <1>3 DEF Moved, Creating
  <2>2. request'[p] = request[p] /\ request[p].fault \in Fault
    BY <2>1, <1>3 DEF Moved, Inv, TypeOK, Request
  <2> QED
    BY <2>2, <1>3 DEF Inv, CreatesAlone, Creating
<1>7. OneAtATime'
  BY <1>1, <1>3 DEF Inv, OneAtATime, Overlapped
<1>8. CopiesCurrent'
  BY <1>1, <1>2, <1>3 DEF Inv, CopiesCurrent, Overlapped, Moved, Creating
<1>9. AnswersKept'
  <2> SUFFICES ASSUME NEW g \in Fault, Clean(g)
               PROVE  Kept(g)'
    BY <1>1 DEF AnswersKept, Clean
  <2>1. CASE q \in On(g)
    <3>1. On(g) = {q} /\ g = f
      BY <2>1, <1>1 DEF Clean, Inv, OneAtATime, Overlapped, On
    <3>2. faults[g] = Updated(q, Base(g))
      BY <1>1, <3>1 DEF Inv, AnswersKept, Kept, Unwritten
    <3>3. Updated(q, Base(g))' = Updated(q, Base(g))
      BY <1>1, <1>3 DEF Updated, Base, Moved
    <3> QED
      BY <1>1, <1>3, <3>1, <3>2, <3>3 DEF Kept, Idle, Unwritten, Moved
  <2>2. CASE q \notin On(g)
    BY <1>1, <1>3, <2>2, KeptStays DEF Inv, AnswersKept, Moved, On
  <2> QED
    BY <2>1, <2>2
<1>10. AssetsTracked'
  <2> SUFFICES ASSUME NEW g \in Fault, flaws[g] = {}, faults[g] # None
               PROVE  AssetPending(g)' \/ ((g \in faulted') = (faults[g].status # "resolved"))
    BY <1>1 DEF AssetsTracked
  <2>1. CASE g = f
    <3>1. On(f) = {q}
      BY <2>1, <1>1 DEF Inv, OneAtATime, Overlapped, On
    <3>2. faults[f] = Updated(q, Base(f))
      BY <2>1, <3>1, <1>1 DEF Clean, Inv, AnswersKept, Kept, Unwritten
    <3>3. CASE request[q].kind = "create"
      BY <2>1, <3>2, <3>3, <1>1 DEF Updated, New
    <3>4. CASE request[q].kind # "create"
      <4>1. request[q].kind = "status" /\ request[q].arg = "resolved"
        BY <3>4, <1>1, ReplicasAssumption
        DEF Inv, HandlersOK, ChangesAsset, TypeOK, Request, Kind
      <4>2. Base(f) \in Record
        BY ReplicasAssumption DEF Base, Inv, TypeOK, New, Record
      <4>3. faults[f].status = "resolved"
        BY <3>2, <4>1, <4>2 DEF Updated, Record
      <4> QED
        BY <2>1, <3>4, <4>3, <1>1
    <3> QED
      BY <3>3, <3>4
  <2>2. CASE g # f
    <3>1. AssetPending(g) => AssetPending(g)'
      BY <2>2, <1>1, <1>3 DEF AssetPending, On, Moved
    <3> QED
      BY <2>2, <3>1, <1>1 DEF Inv, AssetsTracked
  <2> QED
    BY <2>1, <2>2
<1>11. QueuesHaveReaders' /\ BrowsersTold'
  BY <1>1 DEF Inv, QueuesHaveReaders, BrowsersTold, Clean, Silent, LastOf
<1> QED
  BY <1>4, <1>5, <1>6, <1>7, <1>8, <1>9, <1>10, <1>11 DEF Inv

\* An event is the last of its fault in every queue it is appended to, and
\* the last of another fault stays the last.
LEMMA BroadcastUpdate ==
  ASSUME TypeOK, NEW e \in [fault: Fault, record: Record], Broadcast(e), NEW r \in Replica
  PROVE  /\ queue' \in [Replica -> Seq([fault: Fault, record: Record])]
         /\ unheard \subseteq unheard' /\ unheard' \subseteq Replica
         /\ Told(r) =>
              /\ Len(queue'[r]) = Len(queue[r]) + 1
              /\ \A i \in 1 .. Len(queue[r]) : queue'[r][i] = queue[r][i]
              /\ queue'[r][Len(queue[r]) + 1] = e
         /\ ~Told(r) => queue'[r] = queue[r]
         /\ browser[r] # None /\ ~Told(r) => r \in unheard'
<1> DEFINE Events == [fault: Fault, record: Record]
<1>1. queue \in [Replica -> Seq(Events)] /\ e \in Events
  BY DEF TypeOK
<1>2. /\ queue' = [s \in Replica |-> IF Told(s) THEN Append(queue[s], e) ELSE queue[s]]
      /\ unheard' = unheard \cup {s \in Replica : browser[s] # None /\ ~Told(s)}
      /\ unheard \subseteq Replica
  BY DEF Broadcast, TypeOK
<1> HIDE DEF Events
<1>3. \A s \in Replica : queue[s] \in Seq(Events) /\ Append(queue[s], e) \in Seq(Events)
  BY <1>1, AppendProperties
<1>4. queue' \in [Replica -> Seq(Events)]
  BY <1>2, <1>3
<1>5. Told(r) => queue'[r] = Append(queue[r], e)
  BY <1>2
<1>6. Told(r) =>
        /\ Len(queue'[r]) = Len(queue[r]) + 1
        /\ \A i \in 1 .. Len(queue[r]) : queue'[r][i] = queue[r][i]
        /\ queue'[r][Len(queue[r]) + 1] = e
  <2>1. queue[r] \in Seq(Events) /\ e \in Events
    BY <1>1, <1>3
  <2>2. /\ Len(Append(queue[r], e)) = Len(queue[r]) + 1
        /\ \A i \in 1 .. Len(queue[r]) : Append(queue[r], e)[i] = queue[r][i]
        /\ Append(queue[r], e)[Len(queue[r]) + 1] = e
    BY <2>1, AppendProperties
  <2> QED
    BY <1>5, <2>2
<1> QED
  BY <1>2, <1>4, <1>6 DEF Events

LEMMA PublishSafe ==
  ASSUME Inv, NEW q \in Slot, Publish(q)
  PROVE  Inv'
<1>0. PICK f \in Fault : f = request[q].fault
  BY DEF Publish, At, Inv, TypeOK, Request
<1>1. /\ request[q] # None /\ request[q].pc = "publish" /\ request[q].fault = f
      /\ UNCHANGED <<faults, faulted, listener, browser, requests, failures, flaws>>
  BY <1>0 DEF Publish, At, redis
<1>2. request[q].copy \in Record /\ ~Creating(q)
  BY <1>1 DEF Inv, HandlersOK, Creating
<1> DEFINE e == [fault |-> f, record |-> request[q].copy]
<1>3. e \in [fault: Fault, record: Record] /\ Broadcast(e)
  BY <1>0, <1>2 DEF Publish, Event
<1> HIDE DEF e
<1>4. /\ request' \in [Slot -> Request \cup {None}]
      /\ request'[q] = None
      /\ \A p \in Slot \ {q} : request'[p] = request[p]
  BY DEF Publish, Return, Inv, TypeOK
<1>5. \A g \in Fault : On(g)' = On(g) \ {q}
  BY <1>4 DEF On
<1>6. Base(f) \in Record
  BY ReplicasAssumption DEF Base, Inv, TypeOK, New, Record
<1>7. Updated(q, Base(f)) \in Record
  BY <1>1, <1>6, UpdatedIsRecord DEF Inv
<1>8. granted' = [granted EXCEPT ![f] = Updated(q, Base(f))]
  BY <1>0 DEF Publish, Base, Inv, TypeOK
<1>9. /\ granted' \in [Fault -> Record \cup {None}]
      /\ \A g \in Fault : granted'[g] = IF g = f THEN Updated(q, Base(f)) ELSE granted[g]
  BY <1>7, <1>8 DEF Inv, TypeOK
<1>10. queue' \in [Replica -> Seq([fault: Fault, record: Record])] /\ unheard' \subseteq Replica
  BY <1>3, BroadcastUpdate DEF Inv, TypeOK, Broadcast
<1>11. TypeOK'
  BY <1>1, <1>4, <1>9, <1>10 DEF Inv, TypeOK
<1>12. HandlersOK'
  BY <1>1, <1>4 DEF Inv, HandlersOK, Creating, ChangesAsset
<1>13. CreatesAlone'
  <2> SUFFICES ASSUME NEW p \in Slot, request'[p] # None, Creating(p)'
               PROVE  On(request[p].fault)' = {p}
    BY DEF CreatesAlone
  <2>1. p # q /\ request'[p] = request[p] /\ request[p].fault \in Fault
    BY <1>4 DEF Inv, TypeOK, Request
  <2> QED
    BY <2>1, <1>5 DEF Inv, CreatesAlone, Creating
<1>14. OneAtATime'
  BY <1>1, <1>5 DEF Inv, OneAtATime, Overlapped
<1>15. CopiesCurrent'
  BY <1>1, <1>4 DEF Inv, CopiesCurrent, Overlapped, Creating
<1>16. Clean(f) => On(f) = {q} /\ faults[f] = Updated(q, Base(f)) /\ request[q].copy = faults[f]
  <2> SUFFICES ASSUME Clean(f)
               PROVE  On(f) = {q} /\ faults[f] = Updated(q, Base(f)) /\ request[q].copy = faults[f]
    OBVIOUS
  <2>1. On(f) = {q} /\ ~Overlapped(f)
    BY <1>1 DEF Clean, Inv, OneAtATime, Overlapped, On
  <2>2. faults[f] = Updated(q, Base(f))
    BY <2>1, <1>1 DEF Inv, AnswersKept, Kept, Unwritten
  <2>3. request[q].copy = faults[f]
    BY <2>1, <1>1, <1>2 DEF Inv, CopiesCurrent
  <2> QED
    BY <2>1, <2>2, <2>3
<1>17. AnswersKept'
  <2> SUFFICES ASSUME NEW g \in Fault, Clean(g)
               PROVE  Kept(g)'
    BY <1>1 DEF AnswersKept, Clean
  <2>1. CASE g = f
    BY <2>1, <1>1, <1>5, <1>9, <1>16 DEF Kept, Idle
  <2>2. CASE g # f
    <3>1. q \notin On(g)
      BY <2>2, <1>1 DEF On
    <3> QED
      BY <2>2, <3>1, <1>1, <1>4, <1>5, <1>9, KeptStays DEF Inv, AnswersKept, On
  <2> QED
    BY <2>1, <2>2
<1>18. AssetsTracked'
  <2>1. \A g \in Fault : AssetPending(g) => AssetPending(g)'
    BY <1>1, <1>4, <1>5 DEF AssetPending, On
  <2> QED
    BY <1>1, <2>1 DEF Inv, AssetsTracked
<1>19. QueuesHaveReaders'
  BY <1>1, <1>3, BroadcastUpdate DEF Inv, QueuesHaveReaders, Told
<1>20. BrowsersTold'
  <2> SUFFICES ASSUME NEW r \in Replica, browser[r] # None, r \notin unheard',
                      NEW g \in Fault, Clean(g)
               PROVE  /\ Silent(r, g)' => browser[r][g] \in {granted'[g], faults[g]}
                      /\ \A i \in 1 .. Len(queue'[r]) :
                           queue'[r][i].fault = g /\ LastOf(r, i)' =>
                             queue'[r][i].record \in {granted'[g], faults[g]}
    BY <1>1 DEF BrowsersTold, Clean
  <2> DEFINE n == Len(queue[r])
  <2>1. /\ n \in Nat /\ Len(queue'[r]) = n + 1
        /\ \A i \in 1 .. n : queue'[r][i] = queue[r][i]
        /\ queue'[r][n + 1].fault = f /\ queue'[r][n + 1].record = request[q].copy
        /\ r \notin unheard
    <3>1. Told(r)
      BY <1>3, BroadcastUpdate DEF Inv
    <3>2. n \in Nat
      BY DEF Inv, TypeOK
    <3>3. e.fault = f /\ e.record = request[q].copy
      BY DEF e
    <3> QED
      BY <1>3, <3>1, <3>2, <3>3, BroadcastUpdate DEF Inv
  <2> HIDE DEF n
  <2>2. CASE g = f
    <3>1. ~Silent(r, g)'
      BY <2>1, <2>2 DEF Silent
    <3>2. \A i \in 1 .. n : queue'[r][i].fault = g => ~LastOf(r, i)'
      BY <2>1, <2>2 DEF LastOf
    <3>3. queue'[r][n + 1].record \in {granted'[g], faults[g]}
      BY <2>1, <2>2, <1>16
    <3>4. \A i \in 1 .. Len(queue'[r]) : i \in 1 .. n \/ i = n + 1
      BY <2>1
    <3> QED
      BY <3>1, <3>2, <3>3, <3>4
  <2>3. CASE g # f
    <3>1. Silent(r, g)' => Silent(r, g)
      BY <2>1 DEF Silent, n
    <3>2. \A i \in 1 .. n : LastOf(r, i)' => LastOf(r, i)
      BY <2>1 DEF LastOf, n
    <3>3. \A i \in 1 .. n : queue[r][i].fault = g /\ LastOf(r, i) =>
            queue[r][i].record \in {granted[g], faults[g]}
      BY <2>1 DEF n, Inv, BrowsersTold
    <3>4. Silent(r, g) => browser[r][g] \in {granted[g], faults[g]}
      BY <2>1 DEF Inv, BrowsersTold
    <3> QED
      BY <2>1, <2>3, <3>1, <3>2, <3>3, <3>4, <1>9
  <2> QED
    BY <2>2, <2>3
<1> QED
  BY <1>11, <1>12, <1>13, <1>14, <1>15, <1>17, <1>18, <1>19, <1>20 DEF Inv

-----------------------------------------------------------------------------
StoreInv ==
  HandlersOK /\ CreatesAlone /\ OneAtATime /\ CopiesCurrent /\ AnswersKept /\ AssetsTracked

\* Streams come and go without the store.
LEMMA StoreStays ==
  ASSUME Inv, UNCHANGED <<faults, faulted, request, granted, flaws>>
  PROVE  StoreInv'
<1>1. \A f \in Fault : On(f)' = On(f) /\ AssetPending(f)' = AssetPending(f)
  BY DEF On, AssetPending
<1>2. \A f \in Fault : Kept(f) => Kept(f)'
  BY <1>1, KeptStays DEF On
<1>3. HandlersOK' /\ CopiesCurrent'
  BY DEF Inv, HandlersOK, CopiesCurrent, Creating, ChangesAsset, Overlapped
<1>4. CreatesAlone' /\ OneAtATime'
  BY DEF Inv, CreatesAlone, OneAtATime, Creating, Overlapped, On
<1>5. AnswersKept' /\ AssetsTracked'
  BY <1>1, <1>2 DEF Inv, AnswersKept, AssetsTracked, Clean
<1> QED
  BY <1>3, <1>4, <1>5 DEF StoreInv

LEMMA QueueStays ==
  ASSUME NEW r \in Replica, queue'[r] = queue[r]
  PROVE  /\ \A f \in Fault : Silent(r, f)' = Silent(r, f)
         /\ \A i \in 1 .. Len(queue[r]) : LastOf(r, i)' = LastOf(r, i)
BY DEF Silent, LastOf

LEMMA ConnectSafe ==
  ASSUME Inv, NEW r \in Replica, Connect(r)
  PROVE  Inv'
<1>1. /\ UNCHANGED <<faults, faulted, request, requests, failures, granted, flaws>>
      /\ browser' = [browser EXCEPT ![r] = faults]
      /\ queue' = [queue EXCEPT ![r] = <<>>]
      /\ unheard' = unheard \ {r}
      /\ listener' \in [Replica -> {"off", "starting", "on"}]
  BY DEF Connect, redis, history, Inv, TypeOK
<1>2. TypeOK'
  <2>1. queue' \in [Replica -> Seq([fault: Fault, record: Record])]
    BY <1>1, EmptySeq DEF Inv, TypeOK
  <2> QED
    BY <1>1, <2>1 DEF Inv, TypeOK
<1>3. StoreInv'
  BY <1>1, StoreStays
<1>4. QueuesHaveReaders'
  BY <1>1 DEF Inv, TypeOK, QueuesHaveReaders
<1>5. BrowsersTold'
  <2> SUFFICES ASSUME NEW s \in Replica, browser'[s] # None, s \notin unheard',
                      NEW f \in Fault, Clean(f)
               PROVE  /\ Silent(s, f)' => browser'[s][f] \in {granted[f], faults[f]}
                      /\ \A i \in 1 .. Len(queue'[s]) :
                           queue'[s][i].fault = f /\ LastOf(s, i)' =>
                             queue'[s][i].record \in {granted[f], faults[f]}
    BY <1>1 DEF BrowsersTold, Clean
  <2>1. CASE s = r
    BY <2>1, <1>1 DEF Inv, TypeOK
  <2>2. CASE s # r
    <3>1. browser'[s] = browser[s] /\ queue'[s] = queue[s] /\ s \notin unheard
      BY <2>2, <1>1 DEF Inv, TypeOK
    <3> QED
      BY <3>1, <1>1, QueueStays DEF Inv, BrowsersTold
  <2> QED
    BY <2>1, <2>2
<1> QED
  BY <1>2, <1>3, <1>4, <1>5 DEF Inv, StoreInv

LEMMA ListenerSafe ==
  ASSUME Inv, listener' \in [Replica -> {"off", "starting", "on"}], failures' \in Nat,
         UNCHANGED <<faults, faulted, request, browser, queue, unheard, requests, granted, flaws>>
  PROVE  Inv'
<1>1. StoreInv'
  BY StoreStays
<1>2. TypeOK'
  BY DEF Inv, TypeOK
<1>3. QueuesHaveReaders' /\ BrowsersTold'
  BY DEF Inv, QueuesHaveReaders, BrowsersTold, Clean, Silent, LastOf
<1> QED
  BY <1>1, <1>2, <1>3 DEF Inv, StoreInv

LEMMA DeliverSafe ==
  ASSUME Inv, NEW r \in Replica, Deliver(r)
  PROVE  Inv'
<1> DEFINE e == Head(queue[r])
           Events == [fault: Fault, record: Record]
<1>1. /\ UNCHANGED <<faults, faulted, request, listener, unheard, requests, failures, granted, flaws>>
      /\ browser' = [browser EXCEPT ![r][e.fault] = e.record]
      /\ queue' = [queue EXCEPT ![r] = Tail(@)]
      /\ queue[r] # <<>>
  BY DEF Deliver, redis, history
<1>2. queue[r] \in Seq(Events) /\ queue \in [Replica -> Seq(Events)]
  BY DEF Inv, TypeOK
<1> HIDE DEF Events
<1>3. /\ e \in Events /\ Tail(queue[r]) \in Seq(Events)
      /\ e = queue[r][1]
      /\ Len(queue[r]) = Len(Tail(queue[r])) + 1
      /\ \A i \in 1 .. Len(Tail(queue[r])) : Tail(queue[r])[i] = queue[r][i + 1]
  BY <1>1, <1>2, HeadTailProperties
<1>4. e.fault \in Fault /\ e.record \in Record
  BY <1>3 DEF Events
<1>5. browser[r] # None /\ browser[r] \in [Fault -> Record \cup {None}]
  BY <1>1 DEF Inv, TypeOK, QueuesHaveReaders
<1> HIDE DEF e
<1>6. /\ browser' \in [Replica -> [Fault -> Record \cup {None}] \cup {None}]
      /\ \A f \in Fault : browser'[r][f] = IF f = e.fault THEN e.record ELSE browser[r][f]
      /\ \A s \in Replica \ {r} : browser'[s] = browser[s]
  BY <1>1, <1>4, <1>5 DEF Inv, TypeOK
<1>7. /\ queue' \in [Replica -> Seq(Events)]
      /\ queue'[r] = Tail(queue[r])
      /\ \A s \in Replica \ {r} : queue'[s] = queue[s]
  BY <1>1, <1>2, <1>3
<1>8. TypeOK'
  BY <1>1, <1>6, <1>7 DEF Inv, TypeOK, Events
<1>9. StoreInv'
  BY <1>1, StoreStays
<1>10. QueuesHaveReaders'
  <2>1. browser'[r] \in [Fault -> Record \cup {None}]
    BY <1>1, <1>4, <1>5 DEF Inv, TypeOK
  <2> QED
    BY <2>1, <1>6, <1>7, NoneAssumption DEF Inv, QueuesHaveReaders
<1>11. BrowsersTold'
  <2> SUFFICES ASSUME NEW s \in Replica, browser'[s] # None, s \notin unheard,
                      NEW f \in Fault, Clean(f)
               PROVE  /\ Silent(s, f)' => browser'[s][f] \in {granted[f], faults[f]}
                      /\ \A i \in 1 .. Len(queue'[s]) :
                           queue'[s][i].fault = f /\ LastOf(s, i)' =>
                             queue'[s][i].record \in {granted[f], faults[f]}
    BY <1>1 DEF BrowsersTold, Clean
  <2>1. CASE s # r
    <3>1. browser'[s] = browser[s] /\ queue'[s] = queue[s] /\ browser[s] # None
      BY <2>1, <1>6, <1>7
    <3>2. /\ Silent(s, f) => browser[s][f] \in {granted[f], faults[f]}
          /\ \A i \in 1 .. Len(queue[s]) :
               queue[s][i].fault = f /\ LastOf(s, i) =>
                 queue[s][i].record \in {granted[f], faults[f]}
      BY <3>1 DEF Inv, BrowsersTold
    <3> QED
      BY <3>1, <3>2, QueueStays
  <2>2. CASE s = r
    <3> DEFINE n == Len(queue'[r])
    <3>1. /\ n \in Nat /\ Len(queue[r]) = n + 1
          /\ \A i \in 1 .. n : queue'[r][i] = queue[r][i + 1]
          /\ queue[r][1] = e
      BY <1>3, <1>7, LenProperties
    <3> HIDE DEF n
    <3>2. \A i \in 1 .. n + 1 : queue[r][i].fault = f /\ LastOf(r, i) =>
            queue[r][i].record \in {granted[f], faults[f]}
      <4>1. browser[r] # None /\ r \notin unheard
        BY <2>2, <1>5
      <4> QED
        BY <4>1, <3>1 DEF Inv, BrowsersTold
    <3>3. \A i \in 1 .. n : LastOf(r, i)' => LastOf(r, i + 1)
      <4> SUFFICES ASSUME NEW i \in 1 .. n, LastOf(r, i)', NEW j \in 1 .. n + 1, j > i + 1
                   PROVE  queue[r][j].fault # queue[r][i + 1].fault
        BY <3>1 DEF LastOf
      <4>1. j - 1 \in 1 .. n /\ j - 1 > i /\ (j - 1) + 1 = j
        BY <3>1
      <4>2. queue'[r][j - 1].fault # queue'[r][i].fault
        BY <4>1 DEF LastOf, n
      <4> QED
        BY <3>1, <4>1, <4>2
    <3>4. \A i \in 1 .. n : queue'[r][i].fault = f /\ LastOf(r, i)' =>
            queue'[r][i].record \in {granted[f], faults[f]}
      BY <3>1, <3>2, <3>3
    <3>5. ASSUME Silent(r, f)'
          PROVE  browser'[r][f] \in {granted[f], faults[f]}
      <4>1. \A j \in 1 .. n + 1 : j > 1 => queue[r][j].fault # f
        <5> TAKE j \in 1 .. n + 1
        <5> HAVE j > 1
        <5>1. j - 1 \in 1 .. n /\ queue'[r][j - 1] = queue[r][j]
          BY <3>1
        <5> QED
          BY <3>5, <5>1 DEF Silent, n
      <4>2. CASE e.fault = f
        <5>1. LastOf(r, 1) /\ 1 \in 1 .. n + 1
          BY <4>1, <4>2, <3>1 DEF LastOf
        <5> QED
          BY <4>2, <5>1, <3>1, <3>2, <1>6
      <4>3. CASE e.fault # f
        <5>1. Silent(r, f)
          BY <4>1, <4>3, <3>1 DEF Silent
        <5>2. browser[r] # None /\ r \notin unheard
          BY <2>2, <1>5
        <5> QED
          BY <4>3, <5>1, <5>2, <1>6 DEF Inv, BrowsersTold
      <4> QED
        BY <4>2, <4>3
    <3> QED
      BY <2>2, <3>4, <3>5 DEF n
  <2> QED
    BY <2>1, <2>2
<1> QED
  BY <1>8, <1>9, <1>10, <1>11 DEF Inv, StoreInv

LEMMA CloseSafe ==
  ASSUME Inv, NEW r \in Replica, Close(r)
  PROVE  /\ browser' \in [Replica -> [Fault -> Record \cup {None}] \cup {None}]
         /\ queue' \in [Replica -> Seq([fault: Fault, record: Record])]
         /\ unheard' \subseteq Replica
         /\ QueuesHaveReaders'
         /\ (/\ UNCHANGED <<faults, granted>>
             /\ \A f \in Fault : Clean(f)' => Clean(f)) => BrowsersTold'
<1>1. /\ browser' = [browser EXCEPT ![r] = None]
      /\ queue' = [queue EXCEPT ![r] = <<>>]
      /\ unheard' = unheard \ {r}
  BY DEF Close
<1>2. queue' \in [Replica -> Seq([fault: Fault, record: Record])]
  BY <1>1, EmptySeq DEF Inv, TypeOK
<1>3. QueuesHaveReaders'
  BY <1>1 DEF Inv, TypeOK, QueuesHaveReaders
<1>4. ASSUME UNCHANGED <<faults, granted>>, \A f \in Fault : Clean(f)' => Clean(f),
             NEW s \in Replica, browser'[s] # None, s \notin unheard',
             NEW f \in Fault, Clean(f)'
      PROVE  /\ Silent(s, f)' => browser'[s][f] \in {granted[f], faults[f]}
             /\ \A i \in 1 .. Len(queue'[s]) :
                  queue'[s][i].fault = f /\ LastOf(s, i)' =>
                    queue'[s][i].record \in {granted[f], faults[f]}
  <2>1. /\ s # r /\ browser'[s] = browser[s] /\ queue'[s] = queue[s] /\ s \notin unheard
        /\ Clean(f)
    BY <1>1, <1>4 DEF Inv, TypeOK
  <2> QED
    BY <2>1, <1>4, QueueStays DEF Inv, BrowsersTold
<1> QED
  BY <1>1, <1>2, <1>3, <1>4 DEF Inv, TypeOK, BrowsersTold

LEMMA DisconnectSafe ==
  ASSUME Inv, NEW r \in Replica, Disconnect(r)
  PROVE  Inv'
<1>1. /\ UNCHANGED <<faults, faulted, request, listener, requests, granted, flaws>>
      /\ Close(r) /\ failures' \in Nat
  BY DEF Disconnect, Fail, redis, history, Inv, TypeOK
<1>2. StoreInv'
  BY <1>1, StoreStays
<1>3. \A f \in Fault : Clean(f)' => Clean(f)
  BY <1>1 DEF Clean
<1> QED
  BY <1>1, <1>2, <1>3, CloseSafe DEF Inv, StoreInv, TypeOK

LEMMA RestartSafe ==
  ASSUME Inv, NEW r \in Replica, Restart(r)
  PROVE  Inv'
<1>1. PICK lost \in SUBSET {q \in Slot : request[q] # None} :
        /\ request' = [q \in Slot |-> IF q \in lost THEN None ELSE request[q]]
        /\ flaws' = [f \in Fault |-> flaws[f]
             \cup (IF lost \cap On(f) # {} THEN {"cut"} ELSE {})
             \cup (IF faults[f] # None THEN {"reseeded"} ELSE {})]
  BY DEF Restart
<1>2. /\ UNCHANGED <<faults, requests, granted>>
      /\ faulted' = {} /\ Close(r) /\ failures' \in Nat
      /\ listener' \in [Replica -> {"off", "starting", "on"}]
  BY DEF Restart, Fail, Inv, TypeOK
<1>3. \A f \in Fault : /\ flaws[f] \subseteq flaws'[f]
                       /\ Overlapped(f)' = Overlapped(f)
                       /\ Clean(f)' => Clean(f) /\ lost \cap On(f) = {}
                       /\ flaws'[f] = {} => faults[f] = None
  BY <1>1 DEF Overlapped, Clean
<1>4. \A q \in Slot : request'[q] # None => request'[q] = request[q] /\ q \notin lost
  BY <1>1
<1>5. \A f \in Fault : On(f)' = On(f) \ lost
  BY <1>1 DEF On
<1>6. TypeOK'
  <2>1. request' \in [Slot -> Request \cup {None}]
    BY <1>1 DEF Inv, TypeOK
  <2>2. flaws' \in [Fault -> SUBSET Flaw]
    BY <1>1 DEF Inv, TypeOK, Flaw
  <2> QED
    BY <1>2, <2>1, <2>2, CloseSafe DEF Inv, TypeOK
<1>7. HandlersOK'
  BY <1>2, <1>4 DEF Inv, HandlersOK, Creating, ChangesAsset
<1>8. CreatesAlone'
  <2> SUFFICES ASSUME NEW q \in Slot, request'[q] # None, Creating(q)'
               PROVE  On(request[q].fault)' = {q}
    BY <1>4 DEF CreatesAlone
  <2>1. request[q] # None /\ Creating(q) /\ q \notin lost /\ request[q].fault \in Fault
    BY <1>4 DEF Creating, Inv, TypeOK, Request
  <2> QED
    BY <2>1, <1>4, <1>5 DEF Inv, CreatesAlone
<1>9. OneAtATime'
  BY <1>3, <1>5 DEF Inv, OneAtATime
<1>10. CopiesCurrent'
  <2> SUFFICES ASSUME NEW q \in Slot, request'[q] # None, ~Overlapped(request[q].fault)'
               PROVE  \/ request[q].pc = "read" \/ Creating(q)'
                      \/ request[q].copy = faults[request[q].fault]
    BY <1>2, <1>4 DEF CopiesCurrent
  <2>1. /\ request'[q] = request[q] /\ request[q] # None /\ request[q].fault \in Fault
        /\ Creating(q)' = Creating(q)
    BY <1>4 DEF Creating, Inv, TypeOK, Request
  <2> QED
    BY <2>1, <1>3 DEF Inv, CopiesCurrent
<1>11. AnswersKept'
  <2> SUFFICES ASSUME NEW f \in Fault, Clean(f)'
               PROVE  Kept(f)'
    BY DEF AnswersKept
  <2>1. Clean(f) /\ On(f)' = On(f) /\ \A q \in On(f) : request'[q] = request[q]
    BY <1>1, <1>3, <1>5 DEF On
  <2> QED
    BY <2>1, <1>2, KeptStays DEF Inv, AnswersKept
<1>12. AssetsTracked'
  BY <1>2, <1>3 DEF AssetsTracked
<1>13. QueuesHaveReaders' /\ BrowsersTold'
  BY <1>2, <1>3, CloseSafe
<1> QED
  BY <1>6, <1>7, <1>8, <1>9, <1>10, <1>11, <1>12, <1>13 DEF Inv

-----------------------------------------------------------------------------
LEMMA InitSafe == Init => Inv
<1> SUFFICES ASSUME Init
             PROVE  Inv
  OBVIOUS
<1>1. TypeOK
  <2>1. queue \in [Replica -> Seq([fault: Fault, record: Record])]
    BY EmptySeq DEF Init
  <2> QED
    BY <2>1 DEF Init, TypeOK
<1>2. HandlersOK /\ CreatesAlone /\ CopiesCurrent
  BY DEF Init, HandlersOK, CreatesAlone, CopiesCurrent
<1>3. \A f \in Fault : On(f) = {}
  BY DEF Init, On
<1>4. OneAtATime /\ AnswersKept
  BY <1>3 DEF Init, OneAtATime, AnswersKept, Kept
<1>5. AssetsTracked /\ QueuesHaveReaders /\ BrowsersTold
  BY DEF Init, AssetsTracked, QueuesHaveReaders, BrowsersTold
<1> QED
  BY <1>1, <1>2, <1>4, <1>5 DEF Inv

LEMMA StepSafe == Inv /\ [Next]_vars => Inv'
<1> SUFFICES ASSUME Inv, [Next]_vars
             PROVE  Inv'
  OBVIOUS
<1>1. CASE UNCHANGED vars
  <2>1. /\ UNCHANGED <<faults, faulted, request, granted, flaws>>
        /\ UNCHANGED <<listener, browser, queue, unheard, requests, failures>>
    BY <1>1 DEF vars, redis, streams, history
  <2> QED
    BY <2>1, ListenerSafe DEF Inv, TypeOK
<1>2. ASSUME NEW q \in Slot, NEW f \in Fault,
             \/ Begin(q, f, "create", None)
             \/ \E s \in Status : Begin(q, f, "status", s)
             \/ \E x \in Field : Begin(q, f, "field", x)
      PROVE  Inv'
  BY <1>2, BeginSafe DEF Kind
<1>3. ASSUME NEW q \in Slot, ReadFault(q) \/ WriteFault(q) \/ WriteAsset(q) \/ Publish(q)
      PROVE  Inv'
  BY <1>3, ReadSafe, WriteSafe, AssetSafe, PublishSafe
<1>4. ASSUME NEW r \in Replica, Connect(r) \/ Deliver(r) \/ Disconnect(r) \/ Restart(r)
      PROVE  Inv'
  BY <1>4, ConnectSafe, DeliverSafe, DisconnectSafe, RestartSafe
<1>5. ASSUME NEW r \in Replica, ConnectAnother(r) \/ ListenerReady(r) \/ ListenerFails(r)
      PROVE  Inv'
  <2>1. /\ UNCHANGED <<faults, faulted, request, browser, queue, unheard, requests, granted, flaws>>
        /\ listener' \in [Replica -> {"off", "starting", "on"}]
        /\ failures' \in Nat
    <3> USE DEF Inv, TypeOK
    <3>1. CASE ConnectAnother(r)
      BY <3>1 DEF ConnectAnother, redis, history
    <3>2. CASE ListenerReady(r)
      BY <3>2 DEF ListenerReady, redis, history
    <3>3. CASE ListenerFails(r)
      BY <3>3 DEF ListenerFails, Fail, redis, history
    <3> QED
      BY <1>5, <3>1, <3>2, <3>3
  <2> QED
    BY <2>1, ListenerSafe
<1> QED
  BY <1>1, <1>2, <1>3, <1>4, <1>5 DEF Next

LEMMA Invariant == Spec => []Inv
BY InitSafe, StepSafe, PTL DEF Spec

\* Every variable keeps to what the code can hold.
THEOREM ReplicasTypeCorrect == Spec => []TypeOK
<1>1. Inv => TypeOK
  BY DEF Inv
<1> QED
  BY <1>1, Invariant, PTL

\* Every answered update of a fault stays, whichever replicas answered, as
\* long as no two of its handlers overlap and none dies (update_fault_status,
\* update_fault_fields).
THEOREM NoUpdateLost == Spec => []UpdatesKept
<1>1. Inv => UpdatesKept
  BY DEF Inv, AnswersKept, Kept, UpdatesKept
<1> QED
  BY <1>1, Invariant, PTL

\* A browser that has read its queue shows such a fault as Redis holds it,
\* for any number of replicas and listeners that fail (RedisSSEBroker).
THEOREM BrowsersAgree == Spec => []StreamsAgree
<1>1. Inv => StreamsAgree
  <2> SUFFICES ASSUME Inv, NEW r \in Replica, NEW f \in Fault,
                      browser[r] # None, queue[r] = <<>>, r \notin unheard, Clean(f), Idle(f)
               PROVE  browser[r][f] = faults[f]
    BY DEF StreamsAgree
  <2>1. Silent(r, f)
    BY DEF Silent
  <2>2. faults[f] = granted[f]
    BY DEF Inv, AnswersKept, Kept
  <2> QED
    BY <2>1, <2>2 DEF Inv, BrowsersTold
<1> QED
  BY <1>1, Invariant, PTL

\* The asset follows its fault when no replica was started meanwhile
\* (create_fault and PATCH status write it after the fault).
THEOREM AssetsAgree == Spec => []AssetsFollow
<1>1. Inv => AssetsFollow
  BY DEF Inv, AssetsTracked, AssetPending, AssetsFollow, Idle
<1> QED
  BY <1>1, Invariant, PTL

-----------------------------------------------------------------------------
(* Refinement                                                              *)

Contended == {f \in Fault : Overlapped(f)}
AtomicStep == Atomic!Next \/ UNCHANGED <<faults, Contended>>

LEMMA WriteIsAtomic ==
  ASSUME Inv, NEW q \in Slot, WriteFault(q)
  PROVE  AtomicStep
<1>0. PICK f \in Fault : f = request[q].fault
  BY DEF WriteFault, At, Inv, TypeOK, Request
<1> DEFINE new == Written(q)
<1>1. /\ request[q] # None /\ request[q].pc = "write" /\ request[q].fault = f
      /\ request[q].kind \in Kind
      /\ faults' = [faults EXCEPT ![f] = new]
  BY <1>0 DEF WriteFault, At, Inv, TypeOK, Request
<1>2. new \in Record
  BY WrittenIsRecord DEF WriteFault, Inv
<1>3. \A g \in Fault : Overlapped(g)' = Overlapped(g)
  BY DEF WriteFault, Overlapped, Inv, TypeOK
<1>4. UNCHANGED Contended
  BY <1>3 DEF Contended
<1>5. CASE request[q].kind = "create"
  <2>1. faults[f] = None /\ new = New
    BY <1>1, <1>5 DEF Inv, HandlersOK, Creating, Written, Updated
  <2>2. Atomic!Create(f)
    BY <1>1, <1>4, <2>1 DEF Atomic!Create, New, Contended, Overlapped
  <2> QED
    BY <2>2 DEF AtomicStep, Atomic!Next
<1>6. CASE request[q].kind # "create" /\ Overlapped(f)
  <2>1. faults[f] # None
    BY <1>1, <1>6 DEF Inv, HandlersOK, Creating
  <2>2. Atomic!Overwrite(f)
    BY <1>1, <1>2, <1>4, <1>6, <2>1
    DEF Atomic!Overwrite, Atomic!Record, Record, Contended, Overlapped
  <2> QED
    BY <2>2 DEF AtomicStep, Atomic!Next
<1>7. CASE request[q].kind # "create" /\ ~Overlapped(f)
  <2>1. faults[f] \in Record /\ faults[f] # None /\ new = Updated(q, faults[f])
    BY <1>1, <1>7 DEF Inv, TypeOK, HandlersOK, CopiesCurrent, Creating, Written
  <2>2. CASE request[q].kind = "status"
    <3>1. request[q].arg \in Status
      BY <1>1, <2>2 DEF Inv, HandlersOK
    <3>2. new = [faults[f] EXCEPT !.status = request[q].arg]
      BY <2>1, <2>2 DEF Updated
    <3>3. Atomic!SetStatus(f, request[q].arg)
      BY <1>1, <1>4, <2>1, <3>2 DEF Atomic!SetStatus, Contended, Overlapped
    <3> QED
      BY <3>1, <3>3 DEF AtomicStep, Atomic!Next
  <2>3. CASE request[q].kind = "field"
    <3>1. request[q].arg \in Field
      BY <1>1, <2>3 DEF Inv, HandlersOK
    <3>2. new = [faults[f] EXCEPT !.fields = @ \cup {request[q].arg}]
      BY <2>1, <2>3 DEF Updated
    <3>3. Atomic!AddField(f, request[q].arg)
      BY <1>1, <1>4, <2>1, <3>2 DEF Atomic!AddField, Contended, Overlapped
    <3> QED
      BY <3>1, <3>3 DEF AtomicStep, Atomic!Next
  <2> QED
    BY <1>1, <1>7, <2>2, <2>3 DEF Kind
<1> QED
  BY <1>5, <1>6, <1>7

LEMMA BeginIsAtomic ==
  ASSUME Inv, NEW q \in Slot, NEW f \in Fault, NEW kind, NEW arg, Begin(q, f, kind, arg)
  PROVE  AtomicStep
<1>1. /\ UNCHANGED faults
      /\ flaws' = [flaws EXCEPT ![f] = @ \cup (IF On(f) # {} THEN {"overlap"} ELSE {})]
  BY DEF Begin, redis
<1>2. CASE On(f) = {}
  <2>1. \A g \in Fault : Overlapped(g)' = Overlapped(g)
    BY <1>1, <1>2 DEF Overlapped, Inv, TypeOK
  <2> QED
    BY <1>1, <2>1 DEF AtomicStep, Contended
<1>3. CASE On(f) # {}
  <2>1. \A g \in Fault : Overlapped(g)' = (Overlapped(g) \/ g = f)
    BY <1>1, <1>3 DEF Overlapped, Inv, TypeOK
  <2>2. Contended' = Contended \cup {f}
    BY <2>1 DEF Contended
  <2>3. Atomic!Contend(f)
    BY <1>1, <2>2 DEF Atomic!Contend, Contended, Overlapped
  <2> QED
    BY <2>3 DEF AtomicStep, Atomic!Next
<1> QED
  BY <1>2, <1>3

LEMMA OthersStutter ==
  ASSUME Inv, UNCHANGED faults,
         \A f \in Fault : Overlapped(f)' = Overlapped(f)
  PROVE  AtomicStep
BY DEF AtomicStep, Contended

\* Over Redis, the handlers of all the replicas update a fault atomically
\* unless they overlap on it: GatewayReplicas implements AtomicFaults.
THEOREM StoreIsAtomic == Spec => ImplementsAtomicFaults
<1>1. Init => Atomic!Init
  BY DEF Init, Atomic!Init
<1>2. Inv /\ [Next]_vars => [Atomic!Next]_<<faults, {f \in Fault : "overlap" \in flaws[f]}>>
  <2> SUFFICES ASSUME Inv, [Next]_vars
               PROVE  AtomicStep
    BY DEF AtomicStep, Contended, Overlapped
  <2>1. CASE UNCHANGED vars
    BY <2>1, OthersStutter DEF vars, redis, history, Overlapped
  <2>2. ASSUME NEW q \in Slot, NEW f \in Fault,
               \/ Begin(q, f, "create", None)
               \/ \E s \in Status : Begin(q, f, "status", s)
               \/ \E x \in Field : Begin(q, f, "field", x)
        PROVE  AtomicStep
    BY <2>2, BeginIsAtomic
  <2>3. ASSUME NEW q \in Slot, WriteFault(q)
        PROVE  AtomicStep
    BY <2>3, WriteIsAtomic
  <2>4. ASSUME NEW q \in Slot, ReadFault(q) \/ WriteAsset(q) \/ Publish(q)
        PROVE  AtomicStep
    BY <2>4, OthersStutter DEF ReadFault, WriteAsset, Publish, redis, history, Overlapped
  <2>5. ASSUME NEW r \in Replica,
               \/ Connect(r) \/ ConnectAnother(r) \/ ListenerReady(r) \/ Deliver(r)
               \/ Disconnect(r) \/ ListenerFails(r)
        PROVE  AtomicStep
    BY <2>5, OthersStutter
    DEF Connect, ConnectAnother, ListenerReady, Deliver, Disconnect, ListenerFails,
        redis, history, Overlapped
  <2>6. ASSUME NEW r \in Replica, Restart(r)
        PROVE  AtomicStep
    <3>1. UNCHANGED faults /\ \A f \in Fault : Overlapped(f)' = Overlapped(f)
      BY <2>6 DEF Restart, Overlapped
    <3> QED
      BY <3>1, OthersStutter
  <2> QED
    BY <2>1, <2>2, <2>3, <2>4, <2>5, <2>6 DEF Next
<1> QED
  BY <1>1, <1>2, Invariant, PTL DEF Spec, ImplementsAtomicFaults, Atomic!Spec
=============================================================================
