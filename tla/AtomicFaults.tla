---------------------------- MODULE AtomicFaults -----------------------------
(***************************************************************************)
(* What a store of fault records promises to handlers that update the same *)
(* fault one at a time: each update changes what it names and keeps the    *)
(* rest.  A fault whose updates have overlapped is contended, and nothing  *)
(* is promised for it any more.                                            *)
(***************************************************************************)
CONSTANTS Fault, Field, Status, None

VARIABLES
  record,    \* the stored fault, or None
  contended  \* faults whose updates have overlapped

Record == [status: Status, fields: SUBSET Field]

Init == record = [f \in Fault |-> None] /\ contended = {}

Create(f) ==
  /\ record[f] = None
  /\ record' = [record EXCEPT ![f] = [status |-> "detected", fields |-> {}]]
  /\ UNCHANGED contended

SetStatus(f, s) ==
  /\ record[f] # None
  /\ record' = [record EXCEPT ![f].status = s]
  /\ UNCHANGED contended

AddField(f, x) ==
  /\ record[f] # None
  /\ record' = [record EXCEPT ![f].fields = @ \cup {x}]
  /\ UNCHANGED contended

Contend(f) == contended' = contended \cup {f} /\ UNCHANGED record

\* A contended fault may fall back to what an update had read before.
Overwrite(f) ==
  /\ f \in contended /\ record[f] # None
  /\ \E new \in Record : record' = [record EXCEPT ![f] = new]
  /\ UNCHANGED contended

Next ==
  \E f \in Fault :
    \/ Create(f)
    \/ \E s \in Status : SetStatus(f, s)
    \/ \E x \in Field : AddField(f, x)
    \/ Contend(f)
    \/ Overwrite(f)

Spec == Init /\ [][Next]_<<record, contended>>
=============================================================================
