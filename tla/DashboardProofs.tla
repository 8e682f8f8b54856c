--------------------------- MODULE DashboardProofs ---------------------------
(***************************************************************************)
(* Proofs about Dashboard, for any number of browsers, assets, faults,     *)
(* changes and disturbances.  Contents are looked at key by key: a fault's *)
(* status, an asset's link, whether a fault has a notification.  For every *)
(* key the last event on the way to a browser is what the Gateway holds;   *)
(* a source of the view that no event will correct agrees with the Gateway *)
(* unless the two sources have crossed.                                    *)
(***************************************************************************)
EXTENDS Dashboard, SequenceTheorems, FiniteSetTheorems, TLAPS

Key(p) == IF p = "assets" THEN Asset ELSE Fault

\* What contents c hold for key k of part p.
Holds(c, p, k) == IF p = "notes" THEN k \in Range(c.notes) ELSE c[p][k]

\* Whether event e sets key k of part p, and what it leaves there.
Sets(e, p, k) == (e.part = p /\ e.id = k) \/ (e.part = "reset" /\ p # "assets")

Effect(e, p) ==
  IF p = "notes" THEN e.part # "reset" ELSE IF e.part = "reset" THEN None ELSE e.value

\* An event for the key is among es; the i-th is the last such event.
Told(es, p, k) == \E i \in DOMAIN es : Sets(es[i], p, k)

LastFor(es, p, k, i) ==
  /\ i \in DOMAIN es /\ Sets(es[i], p, k)
  /\ \A j \in DOMAIN es : Sets(es[j], p, k) => j <= i

\* The last event of es for each of its keys is what contents c hold.
Leads(es, c) ==
  \A p \in Part : \A k \in Key(p), i \in DOMAIN es :
    LastFor(es, p, k, i) => Effect(es[i], p) = Holds(c, p, k)

\* Part p of contents c agrees with the Gateway, but for the keys that an
\* event is on its way to browser b for.
Current(b, c, p) ==
  \A k \in Key(p) : ~Told(queue[b], p, k) => Holds(c, p, k) = Holds(store, p, k)

SnapshotsCurrent(b) ==
  ~raced[b] => \A i \in DOMAIN gets[b], p \in Part :
                 gets[b][i][p] # None => Current(b, gets[b][i], p)

ViewCurrent(b) ==
  ~raced[b] /\ gets[b] = <<>> /\ stream[b] # "dropped" =>
    \A p \in Part : Current(b, view[b], p)

\* A click that nothing has crossed was on a fault still shown as waiting; if
\* the Gateway has taken the denial, its event is on the way.
Waiting(b) == deciding[b] # None /\ ~deciding[b].crossed

WaitingShown(b) == Waiting(b) => view[b].faults[deciding[b].fault] = "waiting"

DenialTold(b) ==
  Waiting(b) /\ deciding[b].answered /\ deciding[b].decision = "denied"
             /\ ~raced[b] /\ gets[b] = <<>> /\ stream[b] # "dropped" =>
    Told(queue[b], "faults", deciding[b].fault)

SourcesOK(b) ==
  /\ stream[b] # "open" => queue[b] = <<>>
  /\ Leads(queue[b], store)
  /\ SnapshotsCurrent(b)
  /\ ViewCurrent(b)

BrowserOK(b) == SourcesOK(b) /\ WaitingShown(b) /\ DenialTold(b)

Inv == TypeOK /\ \A b \in Browser : BrowserOK(b)

-----------------------------------------------------------------------------
(* Events on the way                                                       *)

LEMMA NothingTold ==
  ASSUME NEW p, NEW k
  PROVE  ~Told(<<>>, p, k)
BY DEF Told

LEMMA ToldConcat ==
  ASSUME NEW q \in Seq(Message), NEW es \in Seq(Message), NEW p, NEW k
  PROVE  Told(q \o es, p, k) <=> Told(q, p, k) \/ Told(es, p, k)
<1>1. /\ DOMAIN (q \o es) = 1 .. Len(q) + Len(es)
      /\ \A i \in 1 .. Len(q) : (q \o es)[i] = q[i]
      /\ \A i \in 1 .. Len(es) : (q \o es)[Len(q) + i] = es[i]
  OBVIOUS
<1>2. ASSUME NEW i \in 1 .. Len(q) + Len(es)
      PROVE  i \in 1 .. Len(q) \/ \E j \in 1 .. Len(es) : i = Len(q) + j
  <2>1. Len(q) \in Nat /\ Len(es) \in Nat
    OBVIOUS
  <2>2. CASE i > Len(q)
    <3>1. i - Len(q) \in 1 .. Len(es) /\ i = Len(q) + (i - Len(q))
      BY <2>1, <2>2
    <3> QED
      BY <3>1
  <2> QED
    BY <2>1, <2>2
<1>3. ASSUME Told(q \o es, p, k)
      PROVE  Told(q, p, k) \/ Told(es, p, k)
  <2>1. PICK i \in 1 .. Len(q) + Len(es) : Sets((q \o es)[i], p, k)
    BY <1>1, <1>3 DEF Told
  <2> QED
    BY <1>1, <1>2, <2>1 DEF Told
<1>4. ASSUME Told(q, p, k)
      PROVE  Told(q \o es, p, k)
  <2>1. PICK i \in 1 .. Len(q) : Sets(q[i], p, k)
    BY <1>4 DEF Told
  <2>2. i \in 1 .. Len(q) + Len(es) /\ (q \o es)[i] = q[i]
    BY <1>1
  <2> QED
    BY <1>1, <2>1, <2>2 DEF Told
<1>5. ASSUME Told(es, p, k)
      PROVE  Told(q \o es, p, k)
  <2>1. PICK i \in 1 .. Len(es) : Sets(es[i], p, k)
    BY <1>5 DEF Told
  <2>2. Len(q) + i \in 1 .. Len(q) + Len(es) /\ (q \o es)[Len(q) + i] = es[i]
    BY <1>1
  <2> QED
    BY <1>1, <2>1, <2>2 DEF Told
<1> QED
  BY <1>3, <1>4, <1>5

\* Contents d differ from c only in what the events es tell of.
LEMMA LeadsConcat ==
  ASSUME NEW q \in Seq(Message), NEW es \in Seq(Message), NEW c, NEW d,
         Leads(q, c), Leads(es, d),
         \A p \in Part : \A k \in Key(p) : ~Told(es, p, k) => Holds(d, p, k) = Holds(c, p, k)
  PROVE  Leads(q \o es, d)
<1> SUFFICES ASSUME NEW p \in Part, NEW k \in Key(p), NEW i, LastFor(q \o es, p, k, i)
             PROVE  Effect((q \o es)[i], p) = Holds(d, p, k)
  BY DEF Leads
<1>1. /\ DOMAIN (q \o es) = 1 .. Len(q) + Len(es)
      /\ \A j \in 1 .. Len(q) : (q \o es)[j] = q[j]
      /\ \A j \in 1 .. Len(es) : (q \o es)[Len(q) + j] = es[j]
      /\ Len(q) \in Nat /\ Len(es) \in Nat
      /\ DOMAIN q = 1 .. Len(q) /\ DOMAIN es = 1 .. Len(es)
  OBVIOUS
<1>2. i \in 1 .. Len(q) + Len(es) /\ Sets((q \o es)[i], p, k)
  BY <1>1 DEF LastFor
<1>3. \A j \in 1 .. Len(q) : Sets(q[j], p, k) => j <= i
  BY <1>1 DEF LastFor
<1>4. \A j \in 1 .. Len(es) : Sets(es[j], p, k) => Len(q) + j <= i
  BY <1>1 DEF LastFor
<1>5. CASE i <= Len(q)
  <2>1. ~Told(es, p, k)
    BY <1>1, <1>2, <1>4, <1>5 DEF Told
  <2>2. i \in DOMAIN q /\ (q \o es)[i] = q[i]
    BY <1>1, <1>2, <1>5
  <2>3. LastFor(q, p, k, i)
    BY <1>1, <1>2, <1>3, <2>2 DEF LastFor
  <2> QED
    BY <2>1, <2>2, <2>3 DEF Leads
<1>6. CASE i > Len(q)
  <2> DEFINE j == i - Len(q)
  <2>1. j \in 1 .. Len(es) /\ i = Len(q) + j
    BY <1>1, <1>2, <1>6
  <2>2. (q \o es)[i] = es[j]
    BY <1>1, <2>1
  <2>3. \A m \in 1 .. Len(es) : Sets(es[m], p, k) => m <= j
    BY <1>1, <1>2, <1>4, <2>1
  <2> HIDE DEF j
  <2>4. LastFor(es, p, k, j)
    BY <1>1, <1>2, <2>1, <2>2, <2>3 DEF LastFor
  <2> QED
    BY <1>1, <2>1, <2>2, <2>4 DEF Leads
<1> QED
  BY <1>1, <1>2, <1>5, <1>6

LEMMA ToldTail ==
  ASSUME NEW q \in Seq(Message), q # <<>>, NEW p, NEW k
  PROVE  Told(q, p, k) <=> Sets(Head(q), p, k) \/ Told(Tail(q), p, k)
<1>1. /\ DOMAIN q = 1 .. Len(q) /\ Head(q) = q[1] /\ Len(q) \in Nat \ {0}
      /\ DOMAIN Tail(q) = 1 .. Len(q) - 1
      /\ \A i \in 1 .. Len(q) - 1 : Tail(q)[i] = q[i + 1]
  OBVIOUS
<1>2. ASSUME NEW i \in 1 .. Len(q), i # 1
      PROVE  i - 1 \in 1 .. Len(q) - 1 /\ q[i] = Tail(q)[i - 1]
  BY <1>1, <1>2
<1>3. ASSUME Told(q, p, k)
      PROVE  Sets(Head(q), p, k) \/ Told(Tail(q), p, k)
  <2>1. PICK i \in 1 .. Len(q) : Sets(q[i], p, k)
    BY <1>1, <1>3 DEF Told
  <2> QED
    BY <1>1, <1>2, <2>1 DEF Told
<1>4. ASSUME Told(Tail(q), p, k)
      PROVE  Told(q, p, k)
  <2>1. PICK i \in 1 .. Len(q) - 1 : Sets(Tail(q)[i], p, k)
    BY <1>1, <1>4 DEF Told
  <2>2. i + 1 \in 1 .. Len(q) /\ Sets(q[i + 1], p, k)
    BY <1>1, <2>1
  <2> QED
    BY <1>1, <2>2 DEF Told
<1>5. Sets(Head(q), p, k) => Told(q, p, k)
  BY <1>1 DEF Told
<1> QED
  BY <1>3, <1>4, <1>5

LEMMA LeadsTail ==
  ASSUME NEW q \in Seq(Message), q # <<>>, NEW c, Leads(q, c)
  PROVE  Leads(Tail(q), c)
<1> SUFFICES ASSUME NEW p \in Part, NEW k \in Key(p), NEW i, LastFor(Tail(q), p, k, i)
             PROVE  Effect(Tail(q)[i], p) = Holds(c, p, k)
  BY DEF Leads
<1>1. /\ DOMAIN q = 1 .. Len(q) /\ Len(q) \in Nat \ {0}
      /\ DOMAIN Tail(q) = 1 .. Len(q) - 1
      /\ \A j \in 1 .. Len(q) - 1 : Tail(q)[j] = q[j + 1]
  OBVIOUS
<1>2. i \in 1 .. Len(q) - 1 /\ i + 1 \in 1 .. Len(q) /\ Tail(q)[i] = q[i + 1]
  BY <1>1 DEF LastFor
<1>3. ASSUME NEW j \in 1 .. Len(q), Sets(q[j], p, k)
      PROVE  j <= i + 1
  <2>1. CASE j # 1
    <3>1. j - 1 \in 1 .. Len(q) - 1 /\ Tail(q)[j - 1] = q[j]
      BY <1>1, <2>1
    <3>2. j - 1 \in DOMAIN Tail(q) /\ Sets(Tail(q)[j - 1], p, k)
      BY <1>1, <1>3, <3>1
    <3>3. j - 1 <= i
      BY <3>2 DEF LastFor
    <3> QED
      BY <1>2, <3>3
  <2> QED
    BY <1>2, <2>1
<1>4. LastFor(q, p, k, i + 1)
  BY <1>1, <1>2, <1>3 DEF LastFor
<1> QED
  BY <1>1, <1>2, <1>4 DEF Leads

LEMMA LeadsHead ==
  ASSUME NEW q \in Seq(Message), q # <<>>, NEW c, Leads(q, c), NEW p \in Part, NEW k \in Key(p),
         Sets(Head(q), p, k), ~Told(Tail(q), p, k)
  PROVE  Effect(Head(q), p) = Holds(c, p, k)
<1>1. /\ DOMAIN q = 1 .. Len(q) /\ Head(q) = q[1] /\ Len(q) \in Nat \ {0}
      /\ DOMAIN Tail(q) = 1 .. Len(q) - 1
      /\ \A j \in 1 .. Len(q) - 1 : Tail(q)[j] = q[j + 1]
  OBVIOUS
<1>2. ASSUME NEW j \in 1 .. Len(q), Sets(q[j], p, k), j # 1
      PROVE  FALSE
  <2>1. j - 1 \in 1 .. Len(q) - 1 /\ Tail(q)[j - 1] = q[j]
    BY <1>1, <1>2
  <2> QED
    BY <1>1, <1>2, <2>1 DEF Told
<1>3. LastFor(q, p, k, 1)
  BY <1>1, <1>2 DEF LastFor
<1> QED
  BY <1>1, <1>3 DEF Leads
-----------------------------------------------------------------------------
(* Contents                                                                *)

LEMMA RangePrepend ==
  ASSUME NEW s \in Seq(Fault), NEW f \in Fault, NEW k
  PROVE  k \in Range(<<f>> \o s) <=> k = f \/ k \in Range(s)
<1>1. /\ <<f>> \o s \in Seq(Fault) /\ Len(<<f>> \o s) = Len(s) + 1 /\ Len(s) \in Nat
      /\ DOMAIN (<<f>> \o s) = 1 .. Len(s) + 1 /\ DOMAIN s = 1 .. Len(s)
      /\ (<<f>> \o s)[1] = f
      /\ \A i \in 1 .. Len(s) : (<<f>> \o s)[i + 1] = s[i]
  OBVIOUS
<1>2. ASSUME NEW i \in 1 .. Len(s) + 1, i # 1
      PROVE  i - 1 \in 1 .. Len(s) /\ (<<f>> \o s)[i] = s[i - 1]
  <2>1. i - 1 \in 1 .. Len(s) /\ (i - 1) + 1 = i
    BY <1>1, <1>2
  <2> QED
    BY <1>1, <2>1
<1>3. ASSUME NEW i \in 1 .. Len(s)
      PROVE  i + 1 \in 1 .. Len(s) + 1
  BY <1>1
<1>4. ASSUME k \in Range(<<f>> \o s)
      PROVE  k = f \/ k \in Range(s)
  <2>1. PICK i \in 1 .. Len(s) + 1 : (<<f>> \o s)[i] = k
    BY <1>1, <1>4 DEF Range
  <2> QED
    BY <1>1, <1>2, <2>1 DEF Range
<1>5. ASSUME k = f \/ k \in Range(s)
      PROVE  k \in Range(<<f>> \o s)
  <2>1. CASE k = f
    <3>1. 1 \in DOMAIN (<<f>> \o s) /\ (<<f>> \o s)[1] = k
      BY <1>1, <2>1
    <3> QED
      BY <3>1 DEF Range
  <2>2. CASE k \in Range(s)
    <3>1. PICK i \in 1 .. Len(s) : s[i] = k
      BY <1>1, <2>2 DEF Range
    <3>2. i + 1 \in DOMAIN (<<f>> \o s) /\ (<<f>> \o s)[i + 1] = k
      BY <1>1, <1>3, <3>1
    <3> QED
      BY <3>2 DEF Range
  <2> QED
    BY <1>5, <2>1, <2>2
<1> QED
  BY <1>4, <1>5

LEMMA NothingInRange ==
  ASSUME NEW k
  PROVE  k \notin Range(<<>>)
BY DEF Range

LEMMA EmptyHolds ==
  ASSUME NEW p \in Part, NEW k \in Key(p)
  PROVE  /\ Empty \in Contents
         /\ p = "notes" => ~Holds(Empty, p, k)
         /\ p # "notes" => Holds(Empty, p, k) = None
<1>1. Empty \in Contents
  BY DEF Empty, Contents
<1>2. CASE p = "notes"
  BY <1>1, <1>2, NothingInRange DEF Holds, Empty
<1>3. CASE p = "faults" \/ p = "assets"
  BY <1>1, <1>3 DEF Holds, Empty, Key
<1> QED
  BY <1>1, <1>2, <1>3 DEF Part

\* What a browser makes of an event is what the event says.
LEMMA ReceiveSets ==
  ASSUME NEW v \in Contents, NEW e \in Message
  PROVE  /\ Receive(v, e) \in Contents
         /\ \A p \in Part : \A k \in Key(p) :
              /\ Sets(e, p, k) => Holds(Receive(v, e), p, k) = Effect(e, p)
              /\ ~Sets(e, p, k) => Holds(Receive(v, e), p, k) = Holds(v, p, k)
<1>0. e.part \in {"faults", "assets", "notes", "reset"}
  BY DEF Message, Event
<1>1. CASE e.part = "faults"
  <2>1. e.id \in Fault /\ e.value \in Status
    BY <1>1 DEF Message, Event
  <2>2. Receive(v, e) = [v EXCEPT !.faults[e.id] = e.value]
    BY <1>1 DEF Receive
  <2>3. /\ Receive(v, e) \in Contents
        /\ Receive(v, e).assets = v.assets /\ Receive(v, e).notes = v.notes
        /\ \A k \in Fault : Receive(v, e).faults[k] = IF k = e.id THEN e.value ELSE v.faults[k]
    BY <2>1, <2>2 DEF Contents
  <2> QED
    BY <1>1, <2>3 DEF Holds, Sets, Effect, Part, Key
<1>2. CASE e.part = "assets"
  <2>1. e.id \in Asset /\ e.value \in Fault \cup {None}
    BY <1>2 DEF Message, Event
  <2>2. Receive(v, e) = [v EXCEPT !.assets[e.id] = e.value]
    BY <1>2 DEF Receive
  <2>3. /\ Receive(v, e) \in Contents
        /\ Receive(v, e).faults = v.faults /\ Receive(v, e).notes = v.notes
        /\ \A k \in Asset : Receive(v, e).assets[k] = IF k = e.id THEN e.value ELSE v.assets[k]
    BY <2>1, <2>2 DEF Contents
  <2> QED
    BY <1>2, <2>3 DEF Holds, Sets, Effect, Part, Key
<1>3. CASE e.part = "notes"
  <2>1. e.id \in Fault
    BY <1>3 DEF Message, Event
  <2>2. Receive(v, e) = [v EXCEPT !.notes = <<e.id>> \o v.notes]
    BY <1>3 DEF Receive
  <2>3. v.notes \in Seq(Fault)
    BY DEF Contents
  <2>4. /\ Receive(v, e) \in Contents
        /\ Receive(v, e).faults = v.faults /\ Receive(v, e).assets = v.assets
        /\ Receive(v, e).notes = <<e.id>> \o v.notes
    <3>1. <<e.id>> \o v.notes \in Seq(Fault)
      BY <2>1, <2>3
    <3>2. PICK ns \in Seq(Fault) : ns = <<e.id>> \o v.notes
      BY <3>1
    <3>3. Receive(v, e) = [v EXCEPT !.notes = ns]
      BY <2>2, <3>2
    <3> QED
      BY <3>2, <3>3 DEF Contents
  <2>5. \A k \in Fault : k \in Range(Receive(v, e).notes) <=> k = e.id \/ k \in Range(v.notes)
    BY <2>1, <2>3, <2>4, RangePrepend
  <2> QED
    BY <1>3, <2>4, <2>5 DEF Holds, Sets, Effect, Part, Key
<1>4. CASE e.part = "reset"
  <2>1. Receive(v, e) = [v EXCEPT !.faults = Empty.faults, !.notes = <<>>]
    BY <1>4 DEF Receive
  <2>2. /\ Receive(v, e) \in Contents
        /\ \A k \in Fault : Receive(v, e).faults[k] = None
        /\ Receive(v, e).assets = v.assets /\ Receive(v, e).notes = <<>>
    <3>1. <<>> \in Seq(Fault) /\ Empty.faults \in [Fault -> Status \cup {None}]
      BY DEF Empty
    <3>2. \A k \in Fault : Empty.faults[k] = None
      BY DEF Empty
    <3>3. PICK ns \in Seq(Fault), fs \in [Fault -> Status \cup {None}] :
             ns = <<>> /\ fs = Empty.faults
      BY <3>1
    <3>4. Receive(v, e) = [v EXCEPT !.faults = fs, !.notes = ns]
      BY <2>1, <3>3
    <3>5. Receive(v, e) \in Contents /\ Receive(v, e).faults = fs
          /\ Receive(v, e).assets = v.assets /\ Receive(v, e).notes = ns
      BY <3>3, <3>4 DEF Contents
    <3> QED
      BY <3>2, <3>3, <3>5
  <2>3. \A k : k \notin Range(Receive(v, e).notes)
    BY <2>2, NothingInRange
  <2> QED
    BY <1>4, <2>2, <2>3 DEF Holds, Sets, Effect, Part, Key
<1> QED
  BY <1>0, <1>1, <1>2, <1>3, <1>4
-----------------------------------------------------------------------------
(* Steps of the Gateway                                                    *)

LEMMA Typed ==
  ASSUME TypeOK, NEW b \in Browser
  PROVE  /\ stream[b] \in {"new", "open", "dropped"} /\ queue[b] \in Seq(Message)
         /\ gets[b] \in Seq(Snapshot) /\ view[b] \in Contents
         /\ deciding[b] \in Pending \cup {None} /\ raced[b] \in BOOLEAN
BY DEF TypeOK

LEMMA SetsTouches ==
  ASSUME NEW e, NEW p, NEW k, Sets(e, p, k)
  PROVE  Touches(e, p)
BY DEF Sets, Touches

\* A browser that published events do not reach and whose sources they do
\* not outdate has no source they are about.
LEMMA NotOutdated ==
  ASSUME TypeOK, NEW b \in Browser, NEW es \in Seq(Message), Publish(es),
         stream[b] # "open", ~raced'[b], NEW p \in Part, Unheard(b, p), NEW k
  PROVE  ~Told(es, p, k)
<1>1. ~ \E i \in DOMAIN es, q \in Part : Touches(es[i], q) /\ Unheard(b, q)
  BY DEF Publish
<1> QED
  BY <1>1, SetsTouches DEF Told

\* A step that publishes what it changes keeps every browser's events and
\* sources in order.
LEMMA Published ==
  ASSUME TypeOK, NEW b \in Browser, SourcesOK(b),
         NEW es \in Seq(Message), Publish(es), Leads(es, store'),
         \A p \in Part : \A k \in Key(p) :
           ~Told(es, p, k) => Holds(store', p, k) = Holds(store, p, k),
         UNCHANGED <<stream, gets, view>>
  PROVE  /\ SourcesOK(b)'
         /\ raced[b] => raced'[b]
         /\ \A p, k : Told(queue[b], p, k) => Told(queue'[b], p, k)
         /\ ~raced'[b] /\ gets[b] = <<>> /\ stream[b] # "dropped" =>
              \A p \in Part : \A k : Told(es, p, k) => Told(queue'[b], p, k)
<1>0. queue[b] \in Seq(Message)
  BY Typed
<1>1. CASE stream[b] = "open"
  <2>1. queue'[b] = queue[b] \o es /\ raced'[b] = raced[b]
    BY <1>1, Typed DEF Publish
  <2>2. \A p, k : Told(queue'[b], p, k) <=> Told(queue[b], p, k) \/ Told(es, p, k)
    BY <1>0, <2>1, ToldConcat
  <2>3. ASSUME NEW c, NEW p \in Part, Current(b, c, p)
        PROVE  Current(b, c, p)'
    BY <2>2, <2>3 DEF Current
  <2>4. Leads(queue'[b], store')
    <3>1. Leads(queue[b], store)
      BY DEF SourcesOK
    <3>2. Leads(queue[b] \o es, store')
      BY <1>0, <3>1, LeadsConcat
    <3> QED
      BY <2>1, <3>2
  <2>5. SnapshotsCurrent(b)'
    BY <2>1, <2>3 DEF SnapshotsCurrent, SourcesOK
  <2>6. ViewCurrent(b)'
    BY <2>1, <2>3 DEF ViewCurrent, SourcesOK
  <2> QED
    BY <1>1, <2>1, <2>2, <2>4, <2>5, <2>6 DEF SourcesOK
<1>2. CASE stream[b] # "open"
  <2>1. queue'[b] = <<>> /\ queue[b] = <<>> /\ (raced[b] => raced'[b])
    BY <1>2 DEF Publish, SourcesOK, TypeOK
  <2>2. ASSUME NEW p \in Part, Unheard(b, p), ~raced'[b], NEW c, Current(b, c, p)
        PROVE  Current(b, c, p)'
    <3>1. \A k : ~Told(es, p, k)
      BY <1>2, <2>2, NotOutdated
    <3> QED
      BY <2>1, <2>2, <3>1 DEF Current
  <2>3. SnapshotsCurrent(b)'
    <3> SUFFICES ASSUME ~raced'[b], NEW i \in DOMAIN gets[b], NEW p \in Part, gets[b][i][p] # None
                 PROVE  Current(b, gets[b][i], p)'
      BY DEF SnapshotsCurrent
    <3>1. Unheard(b, p) /\ ~raced[b]
      BY <2>1 DEF Unheard, HasRead
    <3>2. Current(b, gets[b][i], p)
      BY <3>1 DEF SourcesOK, SnapshotsCurrent
    <3> QED
      BY <2>2, <3>1, <3>2
  <2>4. ASSUME ~raced'[b], gets[b] = <<>>, stream[b] # "dropped", NEW p \in Part
        PROVE  Unheard(b, p) /\ ~raced[b]
    BY <1>2, <2>1, <2>4, Typed DEF Unheard
  <2>5. ViewCurrent(b)'
    <3> SUFFICES ASSUME ~raced'[b], gets[b] = <<>>, stream[b] # "dropped", NEW p \in Part
                 PROVE  Current(b, view[b], p)'
      BY DEF ViewCurrent
    <3>1. Current(b, view[b], p)
      BY <2>4 DEF SourcesOK, ViewCurrent
    <3> QED
      BY <2>2, <2>4, <3>1
  <2>6. Leads(queue'[b], store')
    BY <2>1 DEF Leads
  <2>7. ASSUME ~raced'[b], gets[b] = <<>>, stream[b] # "dropped", NEW p \in Part, NEW k
        PROVE  ~Told(es, p, k)
    BY <1>2, <2>4, <2>7, NotOutdated
  <2> QED
    BY <2>1, <2>3, <2>5, <2>6, <2>7 DEF SourcesOK
<1> QED
  BY <1>1, <1>2
LEMMA DecisionKept ==
  ASSUME TypeOK, NEW b \in Browser, BrowserOK(b),
         view'[b] = view[b], deciding'[b] = deciding[b], stream'[b] = stream[b],
         gets'[b] = gets[b], raced[b] => raced'[b],
         \A p, k : Told(queue[b], p, k) => Told(queue'[b], p, k)
  PROVE  WaitingShown(b)' /\ DenialTold(b)'
BY DEF BrowserOK, WaitingShown, DenialTold, Waiting

LEMMA SourcesSame ==
  ASSUME NEW b \in Browser, SourcesOK(b), store' = store,
         stream'[b] = stream[b], queue'[b] = queue[b], gets'[b] = gets[b],
         view'[b] = view[b], raced'[b] = raced[b]
  PROVE  SourcesOK(b)'
<1>1. \A c, p : Current(b, c, p) => Current(b, c, p)'
  BY DEF Current
<1> QED
  BY <1>1 DEF SourcesOK, SnapshotsCurrent, ViewCurrent

\* A step that changes one browser only keeps the invariant of the others.
LEMMA OneBrowser ==
  ASSUME Inv, TypeOK', NEW b \in Browser, store' = store, BrowserOK(b)',
         \A c \in Browser \ {b} :
           /\ stream'[c] = stream[c] /\ queue'[c] = queue[c] /\ gets'[c] = gets[c]
           /\ view'[c] = view[c] /\ deciding'[c] = deciding[c] /\ raced'[c] = raced[c]
  PROVE  Inv'
<1>1. ASSUME NEW c \in Browser, c # b
      PROVE  BrowserOK(c)'
  <2>1. SourcesOK(c)'
    BY <1>1, SourcesSame DEF Inv, BrowserOK
  <2>2. WaitingShown(c)' /\ DenialTold(c)'
    BY <1>1 DEF Inv, BrowserOK, WaitingShown, DenialTold, Waiting
  <2> QED
    BY <2>1, <2>2 DEF BrowserOK
<1> QED
  BY <1>1 DEF Inv

LEMMA PublishTyped ==
  ASSUME TypeOK, NEW es \in Seq(Message), Publish(es)
  PROVE  queue' \in [Browser -> Seq(Message)] /\ raced' \in [Browser -> BOOLEAN]
<1>1. \A b \in Browser : queue[b] \o es \in Seq(Message) /\ queue[b] \in Seq(Message)
  BY Typed
<1> QED
  BY <1>1 DEF Publish

LEMMA CountTyped ==
  ASSUME TypeOK, Count
  PROVE  changes' \in 0 .. MaxChanges /\ drops' \in 0 .. MaxDrops
BY DashboardAssumption DEF TypeOK, Count

LEMMA DisturbTyped ==
  ASSUME TypeOK, Disturb
  PROVE  /\ changes' \in 0 .. MaxChanges /\ drops' \in 0 .. MaxDrops
         /\ detected' \in 0 .. Len(AssetOf)
BY DashboardAssumption DEF TypeOK, Disturb

\* A change of the store keeps the invariant if the events published with it
\* tell of every key that changes, and tell it truly.
LEMMA GatewayStep ==
  ASSUME Inv, NEW es \in Seq(Message), Publish(es), Leads(es, store'),
         \A p \in Part : \A k \in Key(p) :
           ~Told(es, p, k) => Holds(store', p, k) = Holds(store, p, k),
         store' \in Contents, Count, detected' \in 0 .. Len(AssetOf),
         UNCHANGED <<stream, gets, view, deciding>>
  PROVE  Inv'
<1>1. TypeOK'
  BY PublishTyped, CountTyped DEF Inv, TypeOK
<1>2. ASSUME NEW b \in Browser
      PROVE  BrowserOK(b)'
  <2>1. TypeOK /\ BrowserOK(b) /\ SourcesOK(b) /\ UNCHANGED <<stream, gets, view>>
    BY DEF Inv, BrowserOK
  <2>2. /\ SourcesOK(b)'
        /\ raced[b] => raced'[b]
        /\ \A p, k : Told(queue[b], p, k) => Told(queue'[b], p, k)
    BY <2>1, Published
  <2>3. WaitingShown(b)' /\ DenialTold(b)'
    BY <2>1, <2>2, DecisionKept
  <2> QED
    BY <2>2, <2>3 DEF BrowserOK
<1> QED
  BY <1>1, <1>2 DEF Inv

LEMMA Faults ==
  /\ Fault = 1 .. Len(AssetOf) /\ Len(AssetOf) \in Nat
  /\ \A f \in Fault : AssetOf[f] \in Asset
  /\ None \notin Fault
BY DashboardAssumption DEF Fault

LEMMA CreateFaultStep ==
  ASSUME Inv, NEW f \in Fault, CreateFault(f)
  PROVE  Inv'
<1> DEFINE a == AssetOf[f]
           e1 == FaultEvent(f, "open")
           e2 == Event("notes", f, None)
           e3 == AssetEvent(a, f)
           es == <<e1, e2, e3>>
<1>1. /\ store' = [faults |-> [store.faults EXCEPT ![f] = "open"],
                   assets |-> [store.assets EXCEPT ![a] = f],
                   notes |-> <<f>> \o store.notes]
      /\ Publish(es) /\ Count /\ UNCHANGED <<stream, gets, view, deciding>>
  BY DEF CreateFault, Change
<1>2. detected' \in 0 .. Len(AssetOf)
  BY Faults DEF CreateFault, Inv, TypeOK
<1>3. a \in Asset /\ f \in Fault
  BY Faults
<1>4. store \in Contents
  BY DEF Inv, TypeOK
<1>5. store.notes \in Seq(Fault) /\ <<f>> \o store.notes \in Seq(Fault)
  BY <1>4 DEF Contents
<1>6. store' \in Contents
  BY <1>1, <1>3, <1>4, <1>5 DEF Contents, Status
<1>7. /\ e1 \in Message /\ e1.part = "faults" /\ e1.id = f /\ e1.value = "open"
      /\ e2 \in Message /\ e2.part = "notes" /\ e2.id = f
      /\ e3 \in Message /\ e3.part = "assets" /\ e3.id = a /\ e3.value = f
  BY <1>3 DEF FaultEvent, AssetEvent, Event, Message, Status
<1> HIDE DEF a, e1, e2, e3
<1>8. /\ es \in Seq(Message) /\ DOMAIN es = {1, 2, 3}
      /\ es[1] = e1 /\ es[2] = e2 /\ es[3] = e3
  BY <1>7
<1> HIDE DEF es
<1>9. /\ \A k \in Fault : Holds(store', "faults", k) = IF k = f THEN "open" ELSE Holds(store, "faults", k)
      /\ \A k \in Asset : Holds(store', "assets", k) = IF k = a THEN f ELSE Holds(store, "assets", k)
  BY <1>1, <1>3, <1>4 DEF Holds, Contents
<1>10. ASSUME NEW k \in Fault
       PROVE  /\ k = f => Holds(store', "notes", k) = TRUE
              /\ k # f => Holds(store', "notes", k) = Holds(store, "notes", k)
  <2>1. k \in Range(store'.notes) <=> k = f \/ k \in Range(store.notes)
    BY <1>1, <1>5, RangePrepend
  <2> QED
    BY <2>1 DEF Holds
<1>11. Leads(es, store')
  <2> SUFFICES ASSUME NEW p \in Part, NEW k \in Key(p), NEW i \in {1, 2, 3}, Sets(es[i], p, k)
               PROVE  Effect(es[i], p) = Holds(store', p, k)
    BY <1>8 DEF Leads, LastFor
  <2>1. CASE i = 1
    BY <1>7, <1>8, <1>9, <2>1 DEF Sets, Effect, Key
  <2>2. CASE i = 2
    <3>1. p = "notes" /\ k = f /\ Effect(es[i], p) = TRUE
      BY <1>7, <1>8, <2>2 DEF Sets, Effect
    <3> QED
      BY <1>10, <3>1
  <2>3. CASE i = 3
    BY <1>7, <1>8, <1>9, <2>3 DEF Sets, Effect, Key
  <2> QED
    BY <2>1, <2>2, <2>3
<1>12. ASSUME NEW p \in Part, NEW k \in Key(p), ~Told(es, p, k)
       PROVE  Holds(store', p, k) = Holds(store, p, k)
  <2>1. ~Sets(e1, p, k) /\ ~Sets(e2, p, k) /\ ~Sets(e3, p, k)
    BY <1>8, <1>12 DEF Told
  <2> QED
    BY <1>7, <1>9, <1>10, <2>1 DEF Sets, Part, Key
<1> QED
  BY <1>1, <1>2, <1>6, <1>8, <1>11, <1>12, GatewayStep
\* The event of a fault's new status tells of the change, and of no other.
LEMMA StatusTold ==
  ASSUME store \in Contents, NEW f \in Fault, NEW s \in Status,
         store' = [store EXCEPT !.faults[f] = s],
         NEW es, es = <<FaultEvent(f, s)>>
  PROVE  /\ store' \in Contents /\ es \in Seq(Message) /\ Leads(es, store')
         /\ \A p \in Part : \A k \in Key(p) :
              ~Told(es, p, k) => Holds(store', p, k) = Holds(store, p, k)
         /\ Told(es, "faults", f)
<1> DEFINE e == FaultEvent(f, s)
<1>1. e \in Message /\ e.part = "faults" /\ e.id = f /\ e.value = s
  BY DEF FaultEvent, Event, Message
<1> HIDE DEF e
<1>2. es \in Seq(Message) /\ DOMAIN es = {1} /\ es[1] = e
  BY <1>1 DEF e
<1>3. /\ store' \in Contents /\ store'.assets = store.assets /\ store'.notes = store.notes
      /\ \A k \in Fault : store'.faults[k] = IF k = f THEN s ELSE store.faults[k]
  BY DEF Contents
<1>4. Leads(es, store')
  <2> SUFFICES ASSUME NEW p \in Part, NEW k \in Key(p), NEW i \in {1}, Sets(es[i], p, k)
               PROVE  Effect(es[i], p) = Holds(store', p, k)
    BY <1>2 DEF Leads, LastFor
  <2>1. es[i] = e /\ p = "faults" /\ k = f
    BY <1>1, <1>2 DEF Sets
  <2>2. Effect(es[i], p) = s
    BY <1>1, <2>1 DEF Effect
  <2>3. Holds(store', p, k) = s
    BY <1>3, <2>1 DEF Holds
  <2> QED
    BY <2>2, <2>3
<1>5. ASSUME NEW p \in Part, NEW k \in Key(p), ~Told(es, p, k)
      PROVE  Holds(store', p, k) = Holds(store, p, k)
  <2>1. ~Sets(e, p, k)
    BY <1>2, <1>5 DEF Told
  <2>2. CASE p = "faults"
    BY <1>1, <1>3, <2>1, <2>2 DEF Sets, Holds, Key
  <2>3. CASE p = "assets"
    BY <1>3, <2>3 DEF Holds
  <2>4. CASE p = "notes"
    BY <1>3, <2>4 DEF Holds
  <2> QED
    BY <2>2, <2>3, <2>4 DEF Part
<1>6. Told(es, "faults", f)
  BY <1>1, <1>2 DEF Told, Sets
<1> QED
  BY <1>2, <1>3, <1>4, <1>5, <1>6

LEMMA SetStatusStep ==
  ASSUME Inv, NEW f \in Fault, NEW s \in Status, SetStatus(f, s)
  PROVE  Inv'
<1>1. store \in Contents /\ AssetOf[f] \in Asset /\ detected' \in 0 .. Len(AssetOf)
  BY Faults DEF Inv, TypeOK, SetStatus
<1>2. CASE s = "resolved"
  <2> DEFINE a == AssetOf[f]
             e1 == AssetEvent(a, None)
             e2 == FaultEvent(f, s)
             es == <<e1>> \o <<e2>>
  <2>1. /\ store' = [store EXCEPT !.faults[f] = s, !.assets[a] = None]
        /\ Publish(es) /\ Count /\ UNCHANGED <<stream, gets, view, deciding>>
    BY <1>2 DEF SetStatus, Change
  <2>2. /\ e1 \in Message /\ e1.part = "assets" /\ e1.id = a /\ e1.value = None
        /\ e2 \in Message /\ e2.part = "faults" /\ e2.id = f /\ e2.value = s
    BY <1>1 DEF FaultEvent, AssetEvent, Event, Message
  <2> HIDE DEF a, e1, e2
  <2>3. es \in Seq(Message) /\ DOMAIN es = {1, 2} /\ es[1] = e1 /\ es[2] = e2
    BY <2>2
  <2> HIDE DEF es
  <2>4. /\ store' \in Contents /\ store'.notes = store.notes
        /\ \A k \in Fault : store'.faults[k] = IF k = f THEN s ELSE store.faults[k]
        /\ \A k \in Asset : store'.assets[k] = IF k = a THEN None ELSE store.assets[k]
    BY <1>1, <2>1 DEF Contents, a
  <2>5. Leads(es, store')
    <3> SUFFICES ASSUME NEW p \in Part, NEW k \in Key(p), NEW i \in {1, 2}, Sets(es[i], p, k)
                 PROVE  Effect(es[i], p) = Holds(store', p, k)
      BY <2>3 DEF Leads, LastFor
    <3> QED
      BY <2>2, <2>3, <2>4 DEF Sets, Effect, Holds, Key
  <2>6. ASSUME NEW p \in Part, NEW k \in Key(p), ~Told(es, p, k)
        PROVE  Holds(store', p, k) = Holds(store, p, k)
    <3>1. ~Sets(e1, p, k) /\ ~Sets(e2, p, k)
      BY <2>3, <2>6 DEF Told
    <3> QED
      BY <2>2, <2>4, <3>1 DEF Sets, Holds, Part, Key
  <2> QED
    BY <1>1, <2>1, <2>3, <2>4, <2>5, <2>6, GatewayStep
<1>3. CASE s # "resolved"
  <2>1. /\ store' = [store EXCEPT !.faults[f] = s, !.assets[AssetOf[f]] = @]
        /\ Publish(<<>> \o <<FaultEvent(f, s)>>)
        /\ Count /\ UNCHANGED <<stream, gets, view, deciding>>
    BY <1>3 DEF SetStatus, Change
  <2>2. store' = [store EXCEPT !.faults[f] = s]
    BY <1>1, <2>1 DEF Contents
  <2>3. PICK es : es = <<FaultEvent(f, s)>>
    OBVIOUS
  <2>4. es = <<>> \o <<FaultEvent(f, s)>>
    BY <2>3
  <2>5. Publish(es)
    BY <2>1, <2>4
  <2>6. /\ store' \in Contents /\ es \in Seq(Message) /\ Leads(es, store')
        /\ \A p \in Part : \A k \in Key(p) :
             ~Told(es, p, k) => Holds(store', p, k) = Holds(store, p, k)
    BY <1>1, <2>2, <2>3, StatusTold
  <2> QED
    BY <1>1, <2>1, <2>5, <2>6, GatewayStep
<1> QED
  BY <1>2, <1>3

LEMMA PresenterResetStep ==
  ASSUME Inv, PresenterReset
  PROVE  Inv'
<1>1. /\ store' = Empty /\ Count /\ UNCHANGED <<stream, gets, view, deciding>>
      /\ detected' = detected
  BY DEF PresenterReset, Change
<1>2. PICK as \in [1 .. Cardinality(Asset) -> Asset] :
        {as[i] : i \in DOMAIN as} = Asset /\ Publish(ResetEvents(as))
  BY DEF PresenterReset
<1> DEFINE n == Cardinality(Asset)
           e == Event("reset", None, None)
           rest == [i \in 1 .. n |-> AssetEvent(as[i], None)]
           es == <<e>> \o rest
<1>3. n \in Nat
  BY DashboardAssumption, FS_CardinalityType
<1>4. e \in Message /\ e.part = "reset"
  BY DEF Event, Message
<1>5. \A i \in 1 .. n : /\ rest[i] \in Message /\ rest[i].part = "assets"
                        /\ rest[i].id = as[i] /\ rest[i].value = None
  BY <1>2 DEF AssetEvent, Event, Message
<1>6. Publish(es)
  BY <1>2 DEF ResetEvents
<1> HIDE DEF e
<1>7. rest \in Seq(Message) /\ DOMAIN rest = 1 .. n
  <2>1. rest \in [1 .. n -> Message]
    BY <1>5
  <2> QED
    BY <1>3, <2>1, SeqDef
<1> HIDE DEF rest
<1>8. PICK first \in Seq(Message) : first = <<e>> /\ DOMAIN first = {1} /\ first[1] = e
  <2>1. <<e>> \in Seq(Message) /\ DOMAIN <<e>> = {1} /\ <<e>>[1] = e
    BY <1>4
  <2> QED
    BY <2>1
<1>9. es = first \o rest /\ es \in Seq(Message)
  BY <1>7, <1>8
<1>10. /\ \A k \in Fault : Holds(Empty, "faults", k) = None
       /\ \A k \in Asset : Holds(Empty, "assets", k) = None
       /\ \A k \in Fault : Holds(Empty, "notes", k) = FALSE
  BY EmptyHolds DEF Part, Key
<1>11. Leads(first, Empty)
  <2> SUFFICES ASSUME NEW p \in Part, NEW k \in Key(p), NEW i \in {1}, Sets(first[i], p, k)
               PROVE  Effect(first[i], p) = Holds(Empty, p, k)
    BY <1>8 DEF Leads, LastFor
  <2>1. first[i] = e
    BY <1>8
  <2> QED
    BY <1>4, <1>10, <2>1 DEF Sets, Effect, Part, Key
<1>12. Leads(rest, Empty)
  <2> SUFFICES ASSUME NEW p \in Part, NEW k \in Key(p), NEW i \in 1 .. n, Sets(rest[i], p, k)
               PROVE  Effect(rest[i], p) = Holds(Empty, p, k)
    BY <1>7 DEF Leads, LastFor
  <2> QED
    BY <1>5, <1>10 DEF Sets, Effect, Part, Key
<1>13. Leads(es, store')
  <2>1. Leads(first \o rest, Empty)
    BY <1>7, <1>11, <1>12, LeadsConcat
  <2> QED
    BY <1>1, <1>9, <2>1
<1>14. ASSUME NEW p \in Part, NEW k \in Key(p)
       PROVE  Told(es, p, k)
  <2>1. Told(es, p, k) <=> Told(first, p, k) \/ Told(rest, p, k)
    BY <1>7, <1>9, ToldConcat
  <2>2. CASE p = "assets"
    <3>1. PICK i \in 1 .. n : as[i] = k
      BY <1>2, <2>2 DEF Key
    <3> QED
      BY <1>5, <1>7, <2>1, <2>2, <3>1 DEF Told, Sets
  <2>3. CASE p # "assets"
    BY <1>4, <1>8, <2>1, <2>3 DEF Told, Sets
  <2> QED
    BY <2>2, <2>3
<1>15. store' \in Contents
  BY <1>1 DEF Empty, Contents
<1>16. detected' \in 0 .. Len(AssetOf)
  BY <1>1 DEF Inv, TypeOK
<1> HIDE DEF es
<1> QED
  BY <1>1, <1>6, <1>9, <1>13, <1>14, <1>15, <1>16, GatewayStep
LEMMA PostDecisionStep ==
  ASSUME Inv, NEW b \in Browser, PostDecision(b)
  PROVE  Inv'
<1> DEFINE f == deciding[b].fault
           es == <<FaultEvent(f, "denied")>>
<1>1. /\ deciding[b] # None /\ deciding[b] \in Pending /\ f \in Fault
      /\ store \in Contents /\ deciding \in [Browser -> Pending \cup {None}]
  BY DEF PostDecision, Inv, TypeOK, Pending
<1>2. /\ UNCHANGED <<stream, counters, gets, view>>
      /\ deciding' = [deciding EXCEPT ![b] =
           IF store.faults[f] = None THEN None ELSE [@ EXCEPT !.answered = TRUE]]
  BY DEF PostDecision, Change
<1>3. deciding' \in [Browser -> Pending \cup {None}]
  <2>1. [deciding[b] EXCEPT !.answered = TRUE] \in Pending
    BY <1>1 DEF Pending
  <2> QED
    BY <1>1, <1>2, <2>1
<1>4. /\ \A c \in Browser \ {b} : deciding'[c] = deciding[c]
      /\ Waiting(b)' => /\ Waiting(b) /\ deciding'[b].fault = f
                        /\ deciding'[b].decision = deciding[b].decision
                        /\ store.faults[f] # None
  BY <1>1, <1>2 DEF Waiting, Pending
<1>5. WaitingShown(b)'
  BY <1>2, <1>4 DEF Inv, BrowserOK, WaitingShown
<1>6. CASE deciding[b].decision = "denied" /\ store.faults[f] # None
  <2>1. store' = [store EXCEPT !.faults[f] = "denied"] /\ Publish(es)
    BY <1>6 DEF PostDecision, Change
  <2> HIDE DEF es
  <2>2. /\ store' \in Contents /\ es \in Seq(Message) /\ Leads(es, store')
        /\ \A p \in Part : \A k \in Key(p) :
             ~Told(es, p, k) => Holds(store', p, k) = Holds(store, p, k)
        /\ Told(es, "faults", f)
    BY <1>1, <2>1, StatusTold DEF Status, es
  <2>3. TypeOK'
    BY <1>2, <1>3, <2>1, <2>2, PublishTyped DEF Inv, TypeOK, counters
  <2>4. ASSUME NEW c \in Browser
        PROVE  /\ SourcesOK(c)'
               /\ raced[c] => raced'[c]
               /\ \A p, k : Told(queue[c], p, k) => Told(queue'[c], p, k)
               /\ ~raced'[c] /\ gets[c] = <<>> /\ stream[c] # "dropped" =>
                    \A p \in Part : \A k : Told(es, p, k) => Told(queue'[c], p, k)
    <3>1. TypeOK /\ SourcesOK(c) /\ UNCHANGED <<stream, gets, view>>
      BY <1>2 DEF Inv, BrowserOK
    <3> QED
      BY <2>1, <2>2, <3>1, Published
  <2>5. ASSUME NEW c \in Browser, c # b
        PROVE  WaitingShown(c)' /\ DenialTold(c)'
    <3>1. TypeOK /\ BrowserOK(c)
      BY DEF Inv
    <3>2. /\ view'[c] = view[c] /\ deciding'[c] = deciding[c] /\ stream'[c] = stream[c]
          /\ gets'[c] = gets[c]
      BY <1>2, <1>4, <2>5
    <3>3. raced[c] => raced'[c]
      BY <2>4
    <3>4. \A p, k : Told(queue[c], p, k) => Told(queue'[c], p, k)
      BY <2>4
    <3> QED
      BY <3>1, <3>2, <3>3, <3>4, DecisionKept
  <2>6. DenialTold(b)'
    BY <1>2, <1>4, <2>2, <2>4 DEF DenialTold, Part
  <2>7. \A c \in Browser : SourcesOK(c)'
    BY <2>4
  <2>8. \A c \in Browser : WaitingShown(c)' /\ DenialTold(c)'
    BY <1>5, <2>5, <2>6
  <2> QED
    BY <2>3, <2>7, <2>8 DEF Inv, BrowserOK
<1>7. CASE ~(deciding[b].decision = "denied" /\ store.faults[f] # None)
  <2>1. UNCHANGED <<store, queue, raced>>
    BY <1>7 DEF PostDecision
  <2>2. TypeOK'
    BY <1>2, <1>3, <2>1 DEF Inv, TypeOK, counters
  <2>3. DenialTold(b)'
    BY <1>4, <1>7 DEF DenialTold
  <2>4. SourcesOK(b)'
    BY <1>2, <2>1, SourcesSame DEF Inv, BrowserOK
  <2> QED
    BY <1>2, <1>4, <1>5, <2>1, <2>2, <2>3, <2>4, OneBrowser DEF BrowserOK
<1> QED
  BY <1>6, <1>7

LEMMA GatewayRestartStep ==
  ASSUME Inv, GatewayRestart
  PROVE  Inv'
<1>1. /\ store' = Empty /\ Count /\ UNCHANGED <<gets, view, deciding, detected>>
      /\ stream' = [b \in Browser |-> IF stream[b] = "open" THEN "dropped" ELSE stream[b]]
      /\ queue' = [b \in Browser |-> <<>>]
      /\ raced' = [b \in Browser |-> raced[b] \/ \E p \in Part : Unheard(b, p)]
  BY DEF GatewayRestart, Change
<1>2. TypeOK'
  <2>1. store' \in Contents
    BY <1>1 DEF Empty, Contents
  <2>2. /\ stream' \in [Browser -> {"new", "open", "dropped"}]
        /\ queue' \in [Browser -> Seq(Message)] /\ raced' \in [Browser -> BOOLEAN]
    BY <1>1 DEF Inv, TypeOK
  <2> QED
    BY <1>1, <2>1, <2>2, CountTyped DEF Inv, TypeOK
<1>3. ASSUME NEW b \in Browser
      PROVE  BrowserOK(b)'
  <2>1. /\ queue'[b] = <<>> /\ gets'[b] = gets[b] /\ view'[b] = view[b] /\ deciding'[b] = deciding[b]
        /\ stream'[b] # "dropped" => stream[b] = "new"
    BY <1>1, Typed DEF Inv
  <2>2. \A p \in Part : Unheard(b, p) => raced'[b]
    BY <1>1
  <2>3. Leads(queue'[b], store')
    BY <2>1 DEF Leads
  <2>4. SnapshotsCurrent(b)'
    BY <2>1, <2>2 DEF SnapshotsCurrent, Unheard, HasRead
  <2>5. gets[b] = <<>> /\ stream'[b] # "dropped" => raced'[b]
    BY <2>1, <2>2 DEF Unheard, Part
  <2>6. ViewCurrent(b)' /\ DenialTold(b)'
    BY <2>1, <2>5 DEF ViewCurrent, DenialTold
  <2>7. WaitingShown(b)'
    BY <2>1 DEF Inv, BrowserOK, WaitingShown, Waiting
  <2> QED
    BY <2>1, <2>3, <2>4, <2>6, <2>7 DEF BrowserOK, SourcesOK
<1> QED
  BY <1>2, <1>3 DEF Inv
-----------------------------------------------------------------------------
(* Steps of a browser and its operator                                     *)

LEMMA UnaskedTyped ==
  /\ Unasked \in Snapshot
  /\ \A p \in Part : Unasked[p] = None
BY DEF Unasked, Snapshot, Part

LEMMA OpenStep ==
  ASSUME Inv, NEW b \in Browser, Open(b)
  PROVE  Inv'
<1>1. /\ stream[b] # "open" /\ stream' = [stream EXCEPT ![b] = "open"]
      /\ UNCHANGED <<store, queue, view, deciding, detected, changes, drops>>
  BY DEF Open, local, counters
<1>2. /\ TypeOK /\ SourcesOK(b) /\ WaitingShown(b) /\ DenialTold(b)
      /\ gets[b] \in Seq(Snapshot)
  BY DEF Inv, BrowserOK, TypeOK
<1>3. stream' \in [Browser -> {"new", "open", "dropped"}] /\ stream'[b] = "open"
  BY <1>1, <1>2 DEF TypeOK
<1>4. \A c, p : Current(b, c, p) => Current(b, c, p)'
  BY <1>1 DEF Current
<1>5. WaitingShown(b)'
  BY <1>1, <1>2 DEF WaitingShown, Waiting
<1>6. CASE stream[b] = "dropped"
  <2>1. /\ gets' = [gets EXCEPT ![b] = Append(gets[b], Unasked)]
        /\ raced' = [raced EXCEPT ![b] = raced[b] /\ gets[b] # <<>>]
    BY <1>6 DEF Open, Refetch
  <2>2. Append(gets[b], Unasked) \in Seq(Snapshot)
    BY <1>2, UnaskedTyped
  <2>3. TypeOK'
    BY <1>1, <1>2, <1>3, <2>1, <2>2 DEF TypeOK
  <2>4. /\ gets'[b] = Append(gets[b], Unasked)
        /\ ~raced'[b] => ~raced[b] \/ gets[b] = <<>>
    BY <1>2, <2>1 DEF TypeOK
  <2>5. /\ DOMAIN gets[b] = 1 .. Len(gets[b]) /\ Len(gets[b]) \in Nat
        /\ DOMAIN gets'[b] = 1 .. Len(gets[b]) + 1
        /\ \A i \in 1 .. Len(gets[b]) : gets'[b][i] = gets[b][i]
        /\ gets'[b][Len(gets[b]) + 1] = Unasked
        /\ gets'[b] # <<>>
        /\ gets[b] = <<>> => Len(gets[b]) = 0
    BY <1>2, <2>4
  <2>6. SnapshotsCurrent(b)'
    <3> SUFFICES ASSUME ~raced'[b], NEW i \in DOMAIN gets'[b], NEW p \in Part, gets'[b][i][p] # None,
                        NEW k \in Key(p), ~Told(queue'[b], p, k)
                 PROVE  Holds(gets'[b][i], p, k) = Holds(store', p, k)
      BY DEF SnapshotsCurrent, Current
    <3>1. i # Len(gets[b]) + 1
      BY <2>5, UnaskedTyped
    <3>2. i \in DOMAIN gets[b] /\ gets'[b][i] = gets[b][i] /\ gets[b] # <<>>
      BY <2>5, <3>1
    <3>3. Current(b, gets[b][i], p)
      BY <1>2, <2>4, <3>2 DEF SourcesOK, SnapshotsCurrent
    <3> QED
      BY <1>1, <3>2, <3>3 DEF Current
  <2>7. ViewCurrent(b)' /\ DenialTold(b)'
    BY <2>5 DEF ViewCurrent, DenialTold
  <2>8. BrowserOK(b)'
    BY <1>1, <1>2, <1>3, <1>5, <2>6, <2>7 DEF BrowserOK, SourcesOK
  <2> QED
    BY <1>1, <2>1, <2>3, <2>8, OneBrowser
<1>7. CASE stream[b] # "dropped"
  <2>1. UNCHANGED <<gets, raced>>
    BY <1>7 DEF Open
  <2>2. TypeOK'
    BY <1>1, <1>2, <1>3, <2>1 DEF TypeOK
  <2>3. SnapshotsCurrent(b)' /\ ViewCurrent(b)'
    BY <1>1, <1>2, <1>4, <1>7, <2>1 DEF SourcesOK, SnapshotsCurrent, ViewCurrent
  <2>4. DenialTold(b)'
    BY <1>1, <1>2, <1>7, <2>1 DEF DenialTold, Waiting
  <2>5. BrowserOK(b)'
    BY <1>1, <1>2, <1>3, <1>5, <2>3, <2>4 DEF BrowserOK, SourcesOK
  <2> QED
    BY <1>1, <2>1, <2>2, <2>5, OneBrowser
<1> QED
  BY <1>6, <1>7

LEMMA DropStep ==
  ASSUME Inv, NEW b \in Browser, Drop(b)
  PROVE  Inv'
<1>1. /\ stream' = [stream EXCEPT ![b] = "dropped"]
      /\ queue' = [queue EXCEPT ![b] = <<>>]
      /\ raced' = [raced EXCEPT ![b] = raced[b] \/
           \E i \in DOMAIN queue[b], p \in Part : Touches(queue[b][i], p) /\ HasRead(b, p)]
      /\ Disturb /\ UNCHANGED <<store, gets, view, deciding>>
  BY DEF Drop, local
<1>2. TypeOK /\ SourcesOK(b) /\ WaitingShown(b)
  BY DEF Inv, BrowserOK
<1>3. TypeOK'
  <2>1. /\ stream' \in [Browser -> {"new", "open", "dropped"}]
        /\ queue' \in [Browser -> Seq(Message)] /\ raced' \in [Browser -> BOOLEAN]
    BY <1>1, <1>2 DEF TypeOK
  <2> QED
    BY <1>1, <1>2, <2>1, DisturbTyped DEF TypeOK
<1>4. /\ stream'[b] = "dropped" /\ queue'[b] = <<>> /\ gets'[b] = gets[b]
      /\ raced'[b] <=> raced[b] \/
           \E i \in DOMAIN queue[b], p \in Part : Touches(queue[b][i], p) /\ HasRead(b, p)
  BY <1>1, <1>2 DEF TypeOK
<1>5. SnapshotsCurrent(b)'
  <2> SUFFICES ASSUME ~raced'[b], NEW i \in DOMAIN gets[b], NEW p \in Part, gets[b][i][p] # None
               PROVE  Current(b, gets[b][i], p)'
    BY <1>4 DEF SnapshotsCurrent
  <2>1. HasRead(b, p)
    BY DEF HasRead
  <2>2. \A k : ~Told(queue[b], p, k)
    BY <1>4, <2>1, SetsTouches DEF Told
  <2>3. Current(b, gets[b][i], p)
    BY <1>2, <1>4 DEF SourcesOK, SnapshotsCurrent
  <2> QED
    BY <1>1, <2>2, <2>3 DEF Current
<1>6. ViewCurrent(b)' /\ DenialTold(b)' /\ Leads(queue'[b], store')
  BY <1>4 DEF ViewCurrent, DenialTold, Leads
<1>7. WaitingShown(b)'
  BY <1>1, <1>2 DEF WaitingShown, Waiting
<1>8. BrowserOK(b)'
  BY <1>4, <1>5, <1>6, <1>7 DEF BrowserOK, SourcesOK
<1> QED
  BY <1>1, <1>3, <1>8, OneBrowser

LEMMA AnswerStep ==
  ASSUME Inv, NEW b \in Browser, NEW i \in DOMAIN gets[b], NEW p \in Part, Answer(b, i, p)
  PROVE  Inv'
<1>1. /\ gets' = [gets EXCEPT ![b][i][p] = store[p]]
      /\ UNCHANGED <<store, stream, queue, view, deciding, detected, changes, drops, raced>>
  BY DEF Answer, local, counters
<1>2. /\ TypeOK /\ SourcesOK(b) /\ WaitingShown(b) /\ gets[b] \in Seq(Snapshot)
      /\ store \in Contents /\ gets[b][i] \in Snapshot
  BY DEF Inv, BrowserOK, TypeOK
<1> DEFINE s == [gets[b][i] EXCEPT ![p] = store[p]]
<1>3. /\ s \in Snapshot /\ s[p] = store[p]
      /\ \A q \in Part : q # p => s[q] = gets[b][i][q]
  BY <1>2 DEF Snapshot, Contents, Part
<1> HIDE DEF s
<1>4. gets' = [gets EXCEPT ![b] = [gets[b] EXCEPT ![i] = s]]
  BY <1>1, <1>2 DEF s, TypeOK
<1>5. [gets[b] EXCEPT ![i] = s] \in Seq(Snapshot)
  BY <1>2, <1>3
<1>6. TypeOK'
  BY <1>1, <1>2, <1>4, <1>5 DEF TypeOK
<1>7. /\ DOMAIN gets'[b] = DOMAIN gets[b] /\ gets'[b] # <<>>
      /\ \A j \in DOMAIN gets[b] : gets'[b][j] = IF j = i THEN s ELSE gets[b][j]
  BY <1>2, <1>4 DEF TypeOK
<1>8. SnapshotsCurrent(b)'
  <2> SUFFICES ASSUME ~raced'[b], NEW j \in DOMAIN gets[b], NEW q \in Part, gets'[b][j][q] # None,
                      NEW k \in Key(q), ~Told(queue'[b], q, k)
               PROVE  Holds(gets'[b][j], q, k) = Holds(store', q, k)
    BY <1>7 DEF SnapshotsCurrent, Current
  <2>1. CASE j = i /\ q = p
    <3>1. Holds(s, p, k) = Holds(store, p, k)
      BY <1>3 DEF Holds
    <3> QED
      BY <1>1, <1>7, <2>1, <3>1
  <2>2. CASE j # i \/ q # p
    <3>1. gets'[b][j][q] = gets[b][j][q]
      BY <1>3, <1>7, <2>2
    <3>2. Holds(gets[b][j], q, k) = Holds(store, q, k)
      BY <1>1, <1>2, <3>1 DEF SourcesOK, SnapshotsCurrent, Current
    <3>3. Holds(gets'[b][j], q, k) = Holds(gets[b][j], q, k)
      BY <3>1 DEF Holds
    <3> QED
      BY <1>1, <3>2, <3>3
  <2> QED
    BY <2>1, <2>2
<1>9. ViewCurrent(b)' /\ DenialTold(b)'
  BY <1>7 DEF ViewCurrent, DenialTold
<1>10. WaitingShown(b)'
  BY <1>1, <1>2 DEF WaitingShown, Waiting
<1>11. BrowserOK(b)'
  BY <1>1, <1>2, <1>8, <1>9, <1>10 DEF BrowserOK, SourcesOK
<1> QED
  BY <1>1, <1>4, <1>6, <1>11, OneBrowser
\* Every element of r is one of g.
Among(r, g) == \A j \in DOMAIN r : \E m \in DOMAIN g : r[j] = g[m]

LEMMA RemoveOne ==
  ASSUME NEW S, NEW g \in Seq(S), NEW i \in 1 .. Len(g),
         NEW r, r = SubSeq(g, 1, i - 1) \o SubSeq(g, i + 1, Len(g))
  PROVE  r \in Seq(S) /\ Among(r, g)
<1> DEFINE u == SubSeq(g, 1, i - 1)
           w == SubSeq(g, i + 1, Len(g))
<1>1. PICK n \in Nat : n = Len(g) /\ i \in 1 .. n /\ DOMAIN g = 1 .. n
  OBVIOUS
<1>2. /\ u \in Seq(S) /\ Len(u) = i - 1
      /\ \A j \in 1 .. i - 1 : u[j] = g[j]
  <2>1. \A j \in 1 .. i - 1 : g[j] \in S
    BY <1>1
  <2> QED
    BY <1>1, <2>1, SubSeqProperties
<1>3. /\ w \in Seq(S) /\ Len(w) = n - i
      /\ \A j \in 1 .. n - i : w[j] = g[i + j]
  <2>1. \A j \in i + 1 .. n : g[j] \in S
    BY <1>1
  <2>2. /\ w \in Seq(S) /\ Len(w) = IF i + 1 <= n THEN n - (i + 1) + 1 ELSE 0
        /\ \A j \in 1 .. n - (i + 1) + 1 : w[j] = g[(i + 1) + j - 1]
    BY <1>1, <2>1, SubSeqProperties
  <2>3. n - (i + 1) + 1 = n - i /\ n - i = IF i + 1 <= n THEN n - i ELSE 0
    BY <1>1
  <2>4. \A j \in 1 .. n - i : (i + 1) + j - 1 = i + j
    BY <1>1
  <2> QED
    BY <2>2, <2>3, <2>4
<1> HIDE DEF u, w
<1>4. r = u \o w
  BY DEF u, w
<1>5. /\ r \in Seq(S) /\ DOMAIN r = 1 .. (i - 1) + (n - i)
      /\ \A j \in 1 .. i - 1 : r[j] = u[j]
      /\ \A j \in 1 .. n - i : r[(i - 1) + j] = w[j]
  <2>1. /\ u \o w \in Seq(S) /\ DOMAIN (u \o w) = 1 .. Len(u) + Len(w)
        /\ \A j \in 1 .. Len(u) : (u \o w)[j] = u[j]
        /\ \A j \in 1 .. Len(w) : (u \o w)[Len(u) + j] = w[j]
    <3>1. u \in Seq(S) /\ w \in Seq(S)
      BY <1>2, <1>3
    <3> QED
      BY ONLY <3>1
  <2> QED
    BY <1>2, <1>3, <1>4, <2>1
<1>6. ASSUME NEW j \in DOMAIN r
      PROVE  \E m \in DOMAIN g : r[j] = g[m]
  <2>1. j \in 1 .. (i - 1) + (n - i)
    BY <1>5
  <2>2. CASE j <= i - 1
    <3>1. j \in 1 .. i - 1 /\ j \in DOMAIN g
      BY <1>1, <2>1, <2>2
    <3> QED
      BY <1>2, <1>5, <3>1
  <2>3. CASE j > i - 1
    <3> DEFINE m == j - (i - 1)
    <3>1. m \in 1 .. n - i /\ j = (i - 1) + m /\ i + m \in DOMAIN g
      BY <1>1, <2>1, <2>3
    <3> HIDE DEF m
    <3>2. r[j] = g[i + m]
      BY <1>3, <1>5, <3>1
    <3> QED
      BY <3>1, <3>2
  <2>4. j <= i - 1 \/ j > i - 1
    BY <1>1, <2>1
  <2> QED
    BY <2>2, <2>3, <2>4
<1> QED
  BY <1>5, <1>6 DEF Among

\* A snapshot less leaves the others as they were.
LEMMA Forgotten ==
  ASSUME TypeOK, NEW b \in Browser, SourcesOK(b), NEW i \in DOMAIN gets[b], Forget(b, i),
         store' = store, queue'[b] = queue[b], raced[b] => raced'[b]
  PROVE  /\ gets' \in [Browser -> Seq(Snapshot)]
         /\ \A c \in Browser \ {b} : gets'[c] = gets[c]
         /\ SnapshotsCurrent(b)'
<1>0. PICK g \in Seq(Snapshot) : g = gets[b]
  BY Typed
<1>1. PICK r : r = SubSeq(g, 1, i - 1) \o SubSeq(g, i + 1, Len(g))
  OBVIOUS
<1>2. r \in Seq(Snapshot) /\ Among(r, g)
  <2>1. i \in 1 .. Len(g)
    BY <1>0
  <2> QED
    BY <1>1, <2>1, RemoveOne
<1>3. /\ gets' \in [Browser -> Seq(Snapshot)] /\ gets'[b] = r
      /\ \A c \in Browser \ {b} : gets'[c] = gets[c]
  BY <1>0, <1>1, <1>2 DEF TypeOK, Forget
<1>4. SnapshotsCurrent(b)'
  <2> SUFFICES ASSUME ~raced'[b], NEW j \in DOMAIN r, NEW p \in Part, r[j][p] # None,
                      NEW k \in Key(p), ~Told(queue'[b], p, k)
               PROVE  Holds(r[j], p, k) = Holds(store', p, k)
    BY <1>3 DEF SnapshotsCurrent, Current
  <2>1. PICK m \in DOMAIN gets[b] : r[j] = gets[b][m]
    BY <1>0, <1>2 DEF Among
  <2>2. Current(b, gets[b][m], p)
    BY <2>1 DEF SourcesOK, SnapshotsCurrent
  <2> QED
    BY <2>1, <2>2 DEF Current
<1> QED
  BY <1>3, <1>4

LEMMA CompleteSnapshot ==
  ASSUME NEW s \in Snapshot, \A p \in Part : s[p] # None
  PROVE  s \in Contents
BY DEF Snapshot, Contents, Part

LEMMA CrossedTyped ==
  ASSUME TypeOK, NEW b \in Browser, NEW fs, Crossed(b, fs)
  PROVE  /\ deciding' \in [Browser -> Pending \cup {None}]
         /\ \A c \in Browser \ {b} : deciding'[c] = deciding[c]
         /\ Waiting(b)' => Waiting(b) /\ deciding'[b] = deciding[b] /\ deciding[b].fault \notin fs
<1>1. deciding[b] \in Pending \cup {None} /\ deciding \in [Browser -> Pending \cup {None}]
  BY DEF TypeOK
<1>2. CASE deciding[b] # None /\ deciding[b].fault \in fs
  <2>1. deciding' = [deciding EXCEPT ![b] = [deciding[b] EXCEPT !.crossed = TRUE]]
    BY <1>2 DEF Crossed
  <2>2. /\ [deciding[b] EXCEPT !.crossed = TRUE] \in Pending
        /\ [deciding[b] EXCEPT !.crossed = TRUE].crossed = TRUE
    BY <1>1, <1>2 DEF Pending
  <2> QED
    BY <1>1, <2>1, <2>2 DEF Waiting
<1>3. CASE ~(deciding[b] # None /\ deciding[b].fault \in fs)
  <2>1. deciding' = deciding
    BY <1>3 DEF Crossed
  <2> QED
    BY <1>1, <1>3, <2>1 DEF Waiting
<1> QED
  BY <1>2, <1>3

LEMMA ApplySnapshotStep ==
  ASSUME Inv, NEW b \in Browser, NEW i \in DOMAIN gets[b], ApplySnapshot(b, i)
  PROVE  Inv'
<1>1. /\ \A p \in Part : gets[b][i][p] # None
      /\ view' = [view EXCEPT ![b] = gets[b][i]]
      /\ Forget(b, i) /\ Crossed(b, Fault)
      /\ UNCHANGED <<store, stream, queue, detected, changes, drops, raced>>
  BY DEF ApplySnapshot, counters
<1>2. /\ TypeOK /\ SourcesOK(b) /\ gets[b] \in Seq(Snapshot) /\ gets[b][i] \in Snapshot
      /\ deciding[b] \in Pending \cup {None}
  BY DEF Inv, BrowserOK, TypeOK
<1>3. gets[b][i] \in Contents
  BY <1>1, <1>2, CompleteSnapshot
<1>4. /\ gets' \in [Browser -> Seq(Snapshot)] /\ SnapshotsCurrent(b)'
      /\ \A c \in Browser \ {b} : gets'[c] = gets[c]
  BY <1>1, <1>2, Forgotten
<1>5. /\ deciding' \in [Browser -> Pending \cup {None}]
      /\ \A c \in Browser \ {b} : deciding'[c] = deciding[c]
      /\ Waiting(b)' => Waiting(b) /\ deciding[b].fault \notin Fault
  BY <1>1, <1>2, CrossedTyped
<1>6. ~Waiting(b)'
  BY <1>2, <1>5 DEF Waiting, Pending
<1>7. TypeOK'
  BY <1>1, <1>2, <1>3, <1>4, <1>5 DEF TypeOK
<1>8. view'[b] = gets[b][i] /\ \A c \in Browser \ {b} : view'[c] = view[c]
  BY <1>1, <1>2 DEF TypeOK
<1>9. ViewCurrent(b)'
  <2> SUFFICES ASSUME ~raced[b], NEW p \in Part
               PROVE  Current(b, view[b], p)'
    BY <1>1 DEF ViewCurrent
  <2>1. Current(b, gets[b][i], p)
    BY <1>1, <1>2 DEF SourcesOK, SnapshotsCurrent
  <2> QED
    BY <1>1, <1>8, <2>1 DEF Current
<1>10. WaitingShown(b)' /\ DenialTold(b)'
  BY <1>6 DEF WaitingShown, DenialTold
<1>11. BrowserOK(b)'
  BY <1>1, <1>2, <1>4, <1>9, <1>10 DEF BrowserOK, SourcesOK
<1> QED
  BY <1>1, <1>4, <1>5, <1>7, <1>8, <1>11, OneBrowser

LEMMA FailSnapshotStep ==
  ASSUME Inv, NEW b \in Browser, NEW i \in DOMAIN gets[b], FailSnapshot(b, i)
  PROVE  Inv'
<1>1. /\ Disturb /\ Forget(b, i) /\ raced' = [raced EXCEPT ![b] = TRUE]
      /\ UNCHANGED <<store, stream, queue, view, deciding>>
  BY DEF FailSnapshot, local
<1>2. TypeOK /\ SourcesOK(b) /\ WaitingShown(b) /\ raced \in [Browser -> BOOLEAN]
  BY DEF Inv, BrowserOK, TypeOK
<1>3. /\ raced' \in [Browser -> BOOLEAN] /\ raced'[b] = TRUE
      /\ \A c \in Browser \ {b} : raced'[c] = raced[c]
  BY <1>1, <1>2
<1>4. gets' \in [Browser -> Seq(Snapshot)] /\ \A c \in Browser \ {b} : gets'[c] = gets[c]
  BY <1>1, <1>2, <1>3, Forgotten
<1>5. TypeOK'
  BY <1>1, <1>2, <1>3, <1>4, DisturbTyped DEF TypeOK
<1>6. SnapshotsCurrent(b)' /\ ViewCurrent(b)' /\ DenialTold(b)'
  BY <1>3 DEF SnapshotsCurrent, ViewCurrent, DenialTold
<1>7. WaitingShown(b)'
  BY <1>1, <1>2 DEF WaitingShown, Waiting
<1>8. BrowserOK(b)'
  BY <1>1, <1>2, <1>6, <1>7 DEF BrowserOK, SourcesOK
<1> QED
  BY <1>1, <1>3, <1>4, <1>5, <1>8, OneBrowser
LEMMA HandleSSEStep ==
  ASSUME Inv, NEW b \in Browser, HandleSSE(b)
  PROVE  Inv'
<1> DEFINE e == Head(queue[b])
           fs == IF e.part = "reset" THEN Fault ELSE {e.id}
<1>1. /\ queue[b] # <<>> /\ queue' = [queue EXCEPT ![b] = Tail(queue[b])]
      /\ view' = [view EXCEPT ![b] = Receive(view[b], e)]
      /\ raced' = [raced EXCEPT ![b] = raced[b] \/ \E p \in Part : Touches(e, p) /\ HasRead(b, p)]
      /\ Crossed(b, fs)
      /\ UNCHANGED <<store, stream, gets, detected, changes, drops>>
  BY DEF HandleSSE, counters
<1>2. /\ TypeOK /\ SourcesOK(b) /\ WaitingShown(b) /\ DenialTold(b)
      /\ queue[b] \in Seq(Message) /\ view[b] \in Contents /\ raced[b] \in BOOLEAN
      /\ deciding[b] \in Pending \cup {None}
  BY DEF Inv, BrowserOK, TypeOK
<1>3. e \in Message /\ Tail(queue[b]) \in Seq(Message)
  BY <1>1, <1>2
<1> HIDE DEF e
<1>4. /\ Receive(view[b], e) \in Contents
      /\ \A p \in Part : \A k \in Key(p) :
           /\ Sets(e, p, k) => Holds(Receive(view[b], e), p, k) = Effect(e, p)
           /\ ~Sets(e, p, k) => Holds(Receive(view[b], e), p, k) = Holds(view[b], p, k)
  BY <1>2, <1>3, ReceiveSets
<1>5. /\ deciding' \in [Browser -> Pending \cup {None}]
      /\ \A c \in Browser \ {b} : deciding'[c] = deciding[c]
      /\ Waiting(b)' => Waiting(b) /\ deciding'[b] = deciding[b] /\ deciding[b].fault \notin fs
  BY <1>1, <1>2, CrossedTyped
<1>6. /\ queue' \in [Browser -> Seq(Message)] /\ view' \in [Browser -> Contents]
      /\ raced' \in [Browser -> BOOLEAN]
      /\ queue'[b] = Tail(queue[b]) /\ view'[b] = Receive(view[b], e)
      /\ raced'[b] <=> raced[b] \/ \E p \in Part : Touches(e, p) /\ HasRead(b, p)
      /\ \A c \in Browser \ {b} :
           queue'[c] = queue[c] /\ view'[c] = view[c] /\ raced'[c] = raced[c]
  BY <1>1, <1>2, <1>3, <1>4 DEF TypeOK
<1>7. TypeOK'
  BY <1>1, <1>2, <1>5, <1>6 DEF TypeOK
<1>8. \A p, k : Told(queue[b], p, k) <=> Sets(e, p, k) \/ Told(queue'[b], p, k)
  BY <1>1, <1>2, <1>6, ToldTail DEF e
<1>9. Leads(queue'[b], store')
  BY <1>1, <1>2, <1>6, LeadsTail DEF SourcesOK
<1>10. SnapshotsCurrent(b)'
  <2> SUFFICES ASSUME ~raced'[b], NEW i \in DOMAIN gets[b], NEW p \in Part, gets[b][i][p] # None
               PROVE  Current(b, gets[b][i], p)'
    BY <1>1 DEF SnapshotsCurrent
  <2>1. ~Touches(e, p) /\ ~raced[b]
    BY <1>6 DEF HasRead
  <2>2. \A k : ~Sets(e, p, k)
    BY <2>1, SetsTouches
  <2>3. Current(b, gets[b][i], p)
    BY <1>2, <2>1 DEF SourcesOK, SnapshotsCurrent
  <2> QED
    BY <1>1, <1>8, <2>2, <2>3 DEF Current
<1>11. ViewCurrent(b)'
  <2> SUFFICES ASSUME ~raced[b], gets[b] = <<>>, stream[b] # "dropped",
                      NEW p \in Part, NEW k \in Key(p), ~Told(queue'[b], p, k)
               PROVE  Holds(Receive(view[b], e), p, k) = Holds(store, p, k)
    BY <1>1, <1>6 DEF ViewCurrent, Current
  <2>1. CASE Sets(e, p, k)
    <3>1. Leads(queue[b], store) /\ Sets(Head(queue[b]), p, k) /\ ~Told(Tail(queue[b]), p, k)
      BY <1>2, <1>6, <2>1 DEF SourcesOK, e
    <3>2. Effect(Head(queue[b]), p) = Holds(store, p, k)
      BY <1>1, <1>2, <3>1, LeadsHead
    <3> QED
      BY <1>4, <2>1, <3>2 DEF e
  <2>2. CASE ~Sets(e, p, k)
    <3>1. Holds(view[b], p, k) = Holds(store, p, k)
      BY <1>2, <1>8, <2>2 DEF SourcesOK, ViewCurrent, Current
    <3> QED
      BY <1>4, <2>2, <3>1
  <2> QED
    BY <2>1, <2>2
<1>12. ASSUME Waiting(b)'
       PROVE  /\ Waiting(b) /\ deciding'[b] = deciding[b] /\ deciding[b].fault \in Fault
              /\ ~Sets(e, "faults", deciding[b].fault)
  <2>1. Waiting(b) /\ deciding'[b] = deciding[b] /\ deciding[b].fault \notin fs
    BY <1>5, <1>12
  <2>2. deciding[b].fault \in Fault
    BY <1>2, <2>1 DEF Waiting, Pending
  <2> QED
    BY <2>1, <2>2 DEF Sets
<1>13. WaitingShown(b)'
  <2> SUFFICES ASSUME Waiting(b)'
               PROVE  view'[b].faults[deciding'[b].fault] = "waiting"
    BY DEF WaitingShown
  <2>1. Holds(view'[b], "faults", deciding[b].fault) = Holds(view[b], "faults", deciding[b].fault)
    BY <1>4, <1>6, <1>12 DEF Part, Key
  <2> QED
    BY <1>2, <1>12, <2>1 DEF Holds, WaitingShown
<1>14. DenialTold(b)'
  <2> SUFFICES ASSUME Waiting(b)', deciding'[b].answered, deciding'[b].decision = "denied",
                      ~raced'[b], gets'[b] = <<>>, stream'[b] # "dropped"
               PROVE  Told(queue'[b], "faults", deciding'[b].fault)
    BY DEF DenialTold
  <2>1. Told(queue[b], "faults", deciding[b].fault)
    BY <1>1, <1>2, <1>6, <1>12 DEF DenialTold
  <2> QED
    BY <1>8, <1>12, <2>1
<1>15. BrowserOK(b)'
  <2>1. stream'[b] = "open"
    BY <1>1, <1>2 DEF SourcesOK
  <2> QED
    BY <1>9, <1>10, <1>11, <1>13, <1>14, <2>1 DEF BrowserOK, SourcesOK
<1> QED
  BY <1>1, <1>5, <1>6, <1>7, <1>15, OneBrowser

LEMMA DecideStep ==
  ASSUME Inv, NEW b \in Browser, NEW f \in Fault, NEW d \in {"approved", "denied"}, Decide(b, f, d)
  PROVE  Inv'
<1> DEFINE r == [fault |-> f, decision |-> d, answered |-> FALSE, crossed |-> FALSE]
<1>1. /\ Count /\ view[b].faults[f] = "waiting"
      /\ deciding' = [deciding EXCEPT ![b] = r]
      /\ UNCHANGED <<store, stream, queue, gets, view, detected, raced>>
  BY DEF Decide
<1>2. TypeOK /\ SourcesOK(b)
  BY DEF Inv, BrowserOK
<1>3. r \in Pending /\ r.fault = f /\ r.answered = FALSE
  BY DEF Pending
<1> HIDE DEF r
<1>4. /\ deciding' \in [Browser -> Pending \cup {None}] /\ deciding'[b] = r
      /\ \A c \in Browser \ {b} : deciding'[c] = deciding[c]
  BY <1>1, <1>2, <1>3 DEF TypeOK
<1>5. TypeOK'
  BY <1>1, <1>2, <1>4, CountTyped DEF TypeOK
<1>6. SourcesOK(b)'
  BY <1>1, <1>2, SourcesSame
<1>7. WaitingShown(b)' /\ DenialTold(b)'
  BY <1>1, <1>3, <1>4 DEF WaitingShown, DenialTold
<1> QED
  BY <1>1, <1>4, <1>5, <1>6, <1>7, OneBrowser DEF BrowserOK

LEMMA DecisionFailsStep ==
  ASSUME Inv, NEW b \in Browser, DecisionFails(b)
  PROVE  Inv'
<1>1. /\ Disturb /\ deciding' = [deciding EXCEPT ![b] = None]
      /\ UNCHANGED <<store, stream, queue, gets, view, raced>>
  BY DEF DecisionFails
<1>2. TypeOK /\ SourcesOK(b)
  BY DEF Inv, BrowserOK
<1>3. /\ deciding' \in [Browser -> Pending \cup {None}] /\ deciding'[b] = None
      /\ \A c \in Browser \ {b} : deciding'[c] = deciding[c]
  BY <1>1, <1>2 DEF TypeOK
<1>4. TypeOK'
  BY <1>1, <1>2, <1>3, DisturbTyped DEF TypeOK
<1>5. SourcesOK(b)'
  BY <1>1, <1>2, SourcesSame
<1>6. WaitingShown(b)' /\ DenialTold(b)'
  BY <1>3 DEF WaitingShown, DenialTold, Waiting
<1> QED
  BY <1>1, <1>3, <1>4, <1>5, <1>6, OneBrowser DEF BrowserOK

\* What handleDecision writes is what the view shows already, or an event
\* that says so is on its way, or the step counts as a race.
LEMMA HandleDecisionStep ==
  ASSUME Inv, NEW b \in Browser, HandleDecision(b)
  PROVE  Inv'
<1> DEFINE f == deciding[b].fault
           new == Written(deciding[b].decision)
           v == [view[b] EXCEPT !.faults[f] = IF view[b].faults[f] = None THEN None ELSE new]
<1>1. /\ deciding[b] # None /\ deciding[b].answered
      /\ view' = [view EXCEPT ![b] = v]
      /\ raced' = [raced EXCEPT ![b] = raced[b] \/
           (deciding[b].crossed /\ view[b].faults[f] \notin {None, new})]
      /\ deciding' = [deciding EXCEPT ![b] = None]
      /\ UNCHANGED <<store, stream, queue, gets, detected, changes, drops>>
  BY DEF HandleDecision, counters, Inv, TypeOK
<1>2. /\ TypeOK /\ SourcesOK(b) /\ WaitingShown(b) /\ DenialTold(b)
      /\ deciding[b] \in Pending /\ f \in Fault /\ view[b] \in Contents
  BY <1>1 DEF Inv, BrowserOK, TypeOK, Pending
<1>3. new \in Status /\ (deciding[b].decision = "approved" => new = "waiting")
  BY DEF Written, Status
<1>4. deciding[b].decision \in {"approved", "denied"}
  BY <1>2 DEF Pending
<1> HIDE DEF new
<1>5. /\ v \in Contents /\ v.assets = view[b].assets /\ v.notes = view[b].notes
      /\ \A k \in Fault : v.faults[k] =
           IF k = f /\ view[b].faults[k] # None THEN new ELSE view[b].faults[k]
  BY <1>2, <1>3 DEF Contents
<1> HIDE DEF v
<1>6. /\ view' \in [Browser -> Contents] /\ view'[b] = v
      /\ deciding' \in [Browser -> Pending \cup {None}] /\ deciding'[b] = None
      /\ raced' \in [Browser -> BOOLEAN]
      /\ raced'[b] <=> raced[b] \/ (deciding[b].crossed /\ view[b].faults[f] \notin {None, new})
      /\ \A c \in Browser \ {b} :
           view'[c] = view[c] /\ deciding'[c] = deciding[c] /\ raced'[c] = raced[c]
  BY <1>1, <1>2, <1>5 DEF TypeOK
<1>7. TypeOK'
  BY <1>1, <1>2, <1>6 DEF TypeOK
<1>8. SnapshotsCurrent(b)'
  BY <1>1, <1>2, <1>6 DEF SourcesOK, SnapshotsCurrent, Current
<1>9. ViewCurrent(b)'
  <2> SUFFICES ASSUME ~raced'[b], gets[b] = <<>>, stream[b] # "dropped",
                      NEW p \in Part, NEW k \in Key(p), ~Told(queue[b], p, k)
               PROVE  Holds(v, p, k) = Holds(store, p, k)
    BY <1>1, <1>6 DEF ViewCurrent, Current
  <2>1. Holds(view[b], p, k) = Holds(store, p, k)
    BY <1>2, <1>6 DEF SourcesOK, ViewCurrent, Current
  <2>2. ASSUME p = "faults"
        PROVE  v.faults[k] = view[b].faults[k]
    <3>1. k \in Fault
      BY <2>2 DEF Key
    <3>2. CASE k = f /\ ~deciding[b].crossed
      <4>1. Waiting(b) /\ view[b].faults[f] = "waiting"
        BY <1>1, <1>2, <3>2 DEF WaitingShown, Waiting
      <4>2. deciding[b].decision # "denied"
        BY <1>1, <1>2, <1>6, <2>2, <3>2, <4>1 DEF DenialTold
      <4> QED
        BY <1>3, <1>4, <1>5, <3>1, <3>2, <4>1, <4>2
    <3>3. CASE k = f /\ deciding[b].crossed
      BY <1>5, <1>6, <3>1, <3>3
    <3>4. CASE k # f
      BY <1>5, <3>1, <3>4
    <3> QED
      BY <3>2, <3>3, <3>4
  <2>3. Holds(v, p, k) = Holds(view[b], p, k)
    <3>1. CASE p = "faults"
      BY <2>2, <3>1 DEF Holds
    <3>2. CASE p = "assets"
      BY <1>5, <3>2 DEF Holds
    <3>3. CASE p = "notes"
      BY <1>5, <3>3 DEF Holds
    <3> QED
      BY <3>1, <3>2, <3>3 DEF Part
  <2> QED
    BY <2>1, <2>3
<1>10. WaitingShown(b)' /\ DenialTold(b)'
  BY <1>6 DEF WaitingShown, DenialTold, Waiting
<1>11. BrowserOK(b)'
  BY <1>1, <1>2, <1>8, <1>9, <1>10 DEF BrowserOK, SourcesOK
<1> QED
  BY <1>1, <1>6, <1>7, <1>11, OneBrowser
-----------------------------------------------------------------------------
(* The invariant                                                           *)

LEMMA InitInv == Init => Inv
<1> SUFFICES ASSUME Init
             PROVE  Inv
  OBVIOUS
<1>1. 1 \in Fault /\ AssetOf[1] \in Asset /\ 1 \in 0 .. Len(AssetOf)
  <2>1. AssetOf \in Seq(Asset) /\ AssetOf # <<>>
    BY DashboardAssumption
  <2>2. Len(AssetOf) \in Nat \ {0}
    BY <2>1
  <2> QED
    BY <2>2, Faults
<1>2. store \in Contents
  <2>1. <<1>> \in Seq(Fault)
    BY <1>1
  <2>2. /\ [Empty.faults EXCEPT ![1] = "waiting"] \in [Fault -> Status \cup {None}]
        /\ [Empty.assets EXCEPT ![AssetOf[1]] = 1] \in [Asset -> Fault \cup {None}]
    BY <1>1 DEF Empty, Status
  <2> QED
    BY <2>1, <2>2 DEF Init, Contents
<1>3. Empty \in Contents
  BY DEF Empty, Contents
<1>4. <<Unasked>> \in Seq(Snapshot)
  BY UnaskedTyped
<1>5. 0 \in 0 .. MaxChanges /\ 0 \in 0 .. MaxDrops
  BY DashboardAssumption
<1>6. TypeOK
  BY <1>1, <1>2, <1>3, <1>4, <1>5 DEF Init, TypeOK
<1>7. ASSUME NEW b \in Browser
      PROVE  BrowserOK(b)
  <2>1. queue[b] = <<>> /\ deciding[b] = None /\ gets[b] = <<Unasked>>
    BY DEF Init
  <2>2. gets[b] # <<>> /\ DOMAIN gets[b] = {1} /\ gets[b][1] = Unasked
    BY <2>1
  <2>3. SnapshotsCurrent(b)
    BY <2>2, UnaskedTyped DEF SnapshotsCurrent
  <2>4. ViewCurrent(b) /\ WaitingShown(b) /\ DenialTold(b)
    BY <2>1, <2>2 DEF ViewCurrent, WaitingShown, DenialTold, Waiting
  <2>5. Leads(queue[b], store)
    BY <2>1 DEF Leads
  <2> QED
    BY <2>1, <2>3, <2>4, <2>5 DEF BrowserOK, SourcesOK
<1> QED
  BY <1>6, <1>7 DEF Inv

LEMMA StutterInv ==
  ASSUME Inv, UNCHANGED vars
  PROVE  Inv'
<1>1. UNCHANGED <<store, stream, queue, gets, view, deciding, detected, changes, drops, raced>>
  BY DEF vars, local, counters
<1>2. TypeOK'
  BY <1>1 DEF Inv, TypeOK
<1>3. ASSUME NEW b \in Browser
      PROVE  BrowserOK(b)'
  <2>1. SourcesOK(b)'
    BY <1>1, SourcesSame DEF Inv, BrowserOK
  <2>2. WaitingShown(b)' /\ DenialTold(b)'
    BY <1>1 DEF Inv, BrowserOK, WaitingShown, DenialTold, Waiting
  <2> QED
    BY <2>1, <2>2 DEF BrowserOK
<1> QED
  BY <1>2, <1>3 DEF Inv

LEMMA NextInv == Inv /\ [Next]_vars => Inv'
<1> SUFFICES ASSUME Inv, [Next]_vars
             PROVE  Inv'
  OBVIOUS
<1>1. CASE \E f \in Fault : CreateFault(f)
  BY <1>1, CreateFaultStep
<1>2. CASE \E f \in Fault, s \in Status : SetStatus(f, s)
  BY <1>2, SetStatusStep
<1>3. CASE PresenterReset
  BY <1>3, PresenterResetStep
<1>4. CASE GatewayRestart
  BY <1>4, GatewayRestartStep
<1>5. ASSUME NEW b \in Browser, Deliver(b)
      PROVE  Inv'
  <2>1. CASE Open(b)
    BY <2>1, OpenStep
  <2>2. ASSUME NEW i \in DOMAIN gets[b], ApplySnapshot(b, i)
        PROVE  Inv'
    BY <2>2, ApplySnapshotStep
  <2>3. ASSUME NEW i \in DOMAIN gets[b], NEW p \in Part, Answer(b, i, p)
        PROVE  Inv'
    BY <2>3, AnswerStep
  <2>4. CASE HandleSSE(b)
    BY <2>4, HandleSSEStep
  <2>5. CASE PostDecision(b)
    BY <2>5, PostDecisionStep
  <2>6. CASE HandleDecision(b)
    BY <2>6, HandleDecisionStep
  <2> QED
    BY <1>5, <2>1, <2>2, <2>3, <2>4, <2>5, <2>6 DEF Deliver
<1>6. ASSUME NEW b \in Browser, Operator(b)
      PROVE  Inv'
  BY <1>6, DecideStep DEF Operator
<1>7. ASSUME NEW b \in Browser, Drop(b)
      PROVE  Inv'
  BY <1>7, DropStep
<1>8. ASSUME NEW b \in Browser, DecisionFails(b)
      PROVE  Inv'
  BY <1>8, DecisionFailsStep
<1>9. ASSUME NEW b \in Browser, NEW i \in DOMAIN gets[b], FailSnapshot(b, i)
      PROVE  Inv'
  BY <1>9, FailSnapshotStep
<1>10. CASE UNCHANGED vars
  BY <1>10, StutterInv
<1> QED
  BY <1>1, <1>2, <1>3, <1>4, <1>5, <1>6, <1>7, <1>8, <1>9, <1>10 DEF Next, Gateway

LEMMA SpecInv == Spec => []Inv
BY InitInv, NextInv, PTL DEF Spec

\* What the Gateway, the browsers and the messages between them hold stays of
\* its type: no event, answer or click makes a view or a store that the other
\* side could not have made.
THEOREM TypeCorrect == Spec => []TypeOK
<1>1. Inv => TypeOK
  BY DEF Inv
<1> QED
  BY <1>1, SpecInv, PTL

\* A browser at rest shows what the Gateway holds, unless an answer and an
\* event crossed on the way (useSSE, fetchSnapshot, handleSSE and
\* handleDecision against the Gateway's store and broker).
THEOREM ViewsAgree == Spec => []ViewAgrees
<1>1. ASSUME Inv
      PROVE  ViewAgrees
  <2> SUFFICES ASSUME NEW b \in Browser, Settled(b), ~raced[b]
               PROVE  Agrees(b)
    BY DEF ViewAgrees
  <2>1. /\ TypeOK /\ SourcesOK(b) /\ view[b] \in Contents /\ store \in Contents
    BY <1>1 DEF Inv, BrowserOK, TypeOK
  <2>2. \A p, k : ~Told(queue[b], p, k)
    BY NothingTold DEF Settled
  <2>3. \A p \in Part : \A k \in Key(p) : Holds(view[b], p, k) = Holds(store, p, k)
    BY <2>1, <2>2 DEF Settled, SourcesOK, ViewCurrent, Current
  <2>4. view[b].faults = store.faults
    <3>1. \A k \in Fault : view[b].faults[k] = store.faults[k]
      BY <2>3 DEF Holds, Key, Part
    <3> QED
      BY <2>1, <3>1 DEF Contents
  <2>5. view[b].assets = store.assets
    <3>1. \A k \in Asset : view[b].assets[k] = store.assets[k]
      BY <2>3 DEF Holds, Key, Part
    <3> QED
      BY <2>1, <3>1 DEF Contents
  <2>6. Range(view[b].notes) = Range(store.notes)
    <3>1. \A k \in Fault : k \in Range(view[b].notes) <=> k \in Range(store.notes)
      <4> SUFFICES ASSUME NEW k \in Fault
                   PROVE  k \in Range(view[b].notes) <=> k \in Range(store.notes)
        OBVIOUS
      <4>1. Holds(view[b], "notes", k) = Holds(store, "notes", k)
        BY <2>3 DEF Key, Part
      <4> QED
        BY <4>1 DEF Holds
    <3>2. /\ view[b].notes \in Seq(Fault) /\ store.notes \in Seq(Fault)
      BY <2>1 DEF Contents
    <3>3. Range(view[b].notes) \subseteq Fault /\ Range(store.notes) \subseteq Fault
      BY <3>2 DEF Range
    <3> QED
      BY <3>1, <3>3
  <2> QED
    BY <2>4, <2>5, <2>6 DEF Agrees
<1> QED
  BY <1>1, SpecInv, PTL
=============================================================================
