----------------------------- MODULE ReplayProofs -----------------------------
(***************************************************************************)
(* What the event store guarantees, and what following a store by cursor   *)
(* replay does, for every value of the constants.                          *)
(*                                                                         *)
(* Of the store: rows, log and cursors keep their types, and every row can *)
(* be explained from the log.  Of replay: clone, packages and run keep     *)
(* their types, a clone's own writes surface, a clone nobody has written   *)
(* to holds a state the source went through, with nothing in it that it    *)
(* saw deleted, replay implements Follower, and no event after a           *)
(* checkpoint stops a run from it.                                         *)
(***************************************************************************)
EXTENDS Replay, SequenceTheorems, FiniteSetTheorems, TLAPS

USE StoreAssumption

-----------------------------------------------------------------------------
(* PART ONE: the event store.                                              *)

-----------------------------------------------------------------------------
(* Appending.                                                              *)

\* The log grows at its end: what was in it stays where it was.
LEMMA AppendKeeps ==
  ASSUME log \in Seq(Event), NEW es \in Seq(Event), log' = log \o es
  PROVE  /\ log' \in Seq(Event)
         /\ Len(log') = Len(log) + Len(es)
         /\ \A s \in 1..Len(log) : log'[s] = log[s]
         /\ \A s \in Len(log) + 1 .. Len(log') : log'[s] = es[s - Len(log)]
<1>1. /\ log \o es \in Seq(Event)
      /\ Len(log \o es) = Len(log) + Len(es)
      /\ \A i \in 1 .. Len(log) + Len(es) : (log \o es)[i] =
            IF i <= Len(log) THEN log[i] ELSE es[i - Len(log)]
  BY ConcatProperties
<1>2. Len(log) \in Nat /\ Len(es) \in Nat
  OBVIOUS
<1> QED
  BY <1>1, <1>2

\* Events are well formed.
LEMMA EventTyped ==
  ASSUME TypeOK, NEW type \in Reconstructing \cup {"observed"},
         NEW id \in Ids \cup {None}, NEW row \in Row \cup {None},
         NEW prev \in Row \cup {None}, NEW key \in Keys \cup {NoKey}
  PROVE  Ev(type, id, row, prev, key) \in Event
BY DEF TypeOK, Meta, Ev, Event

LEMMA FingerprintTyped ==
  ASSUME NEW r \in Row
  PROVE  Fingerprint(r) \in [ns : Namespaces, hash : Hashes, val : Vals]
BY DEF Fingerprint, Row

LEMMA MarksTyped ==
  ASSUME TypeOK, NEW r \in Row
  PROVE  /\ TombstoneOf(r) \in Tombstone
         /\ WatermarkOf(r) \in Watermark
BY FingerprintTyped DEF TypeOK, Meta, TombstoneOf, WatermarkOf, Tombstone, Watermark, End, Row

LEMMA RequestsTyped ==
  ASSUME NEW r \in Row, NEW id \in Ids
  PROVE  /\ AddRequest(r) \in Request
         /\ UpdateRequest(id, r) \in Request
         /\ DeleteRequest(id) \in Request
BY DEF AddRequest, UpdateRequest, DeleteRequest, Request

LEMMA RememberTyped ==
  ASSUME TypeOK, NEW ns \in Namespaces, NEW key \in Keys \cup {NoKey},
         NEW req \in Request, NEW id \in Ids, Remember(ns, key, req, id)
  PROVE  ledger' \in [Namespaces \X Keys -> Entry \cup {None}]
BY DEF TypeOK, Remember, Entry

LEMMA ForgetTyped ==
  ASSUME NEW S, NEW t \in [Ids -> S \cup {None}], NEW ids
  PROVE  Forget(t, ids) \in [Ids -> S \cup {None}]
BY DEF Forget

-----------------------------------------------------------------------------
(* Type correctness.                                                       *)

LEMMA TypeInit == Init => TypeOK
<1> SUFFICES ASSUME Init PROVE TypeOK
  OBVIOUS
<1>1. log \in Seq(Event) /\ Len(log) = 0
  BY DEF Init
<1> QED
  BY <1>1 DEF Init, TypeOK, Meta, End

\* What appending events does to the typing of the log.
LEMMA AppendTyped ==
  ASSUME TypeOK, NEW es \in Seq(Event), AppendEvents(es)
  PROVE  /\ log' \in Seq(Event)
         /\ End' = End + Len(es)
         /\ dropped \in 0..End'
         /\ End \in Nat
BY AppendKeeps DEF TypeOK, AppendEvents, End

LEMMA TypeAddNew ==
  ASSUME TypeOK, NEW id \in Ids, NEW r \in Row, NEW key \in Keys \cup {NoKey},
         AddNew(id, r, key)
  PROVE  TypeOK'
<1>1. <<Ev("created", id, r, None, key)>> \in Seq(Event)
  BY EventTyped DEF Reconstructing
<1>2. r.ns \in Namespaces
  BY DEF Row
<1>3. ledger' \in [Namespaces \X Keys -> Entry \cup {None}]
  BY <1>2, RequestsTyped, RememberTyped DEF AddNew
<1>4. log' \in Seq(Event) /\ dropped \in 0..End'
  BY <1>1, AppendTyped DEF AddNew
<1> QED
  BY <1>3, <1>4 DEF TypeOK, AddNew

LEMMA TypeAddDuplicate ==
  ASSUME TypeOK, NEW id \in Ids, NEW r \in Row, NEW key \in Keys \cup {NoKey},
         AddDuplicate(id, r, key)
  PROVE  TypeOK'
<1>1. rows[id] \in Row
  BY DEF AddDuplicate, Holders, TypeOK
<1>2. <<Ev("observed", id, rows[id], None, key)>> \in Seq(Event)
  BY <1>1, EventTyped
<1>3. r.ns \in Namespaces
  BY DEF Row
<1>4. ledger' \in [Namespaces \X Keys -> Entry \cup {None}]
  BY <1>3, RequestsTyped, RememberTyped DEF AddDuplicate
<1>5. log' \in Seq(Event) /\ dropped \in 0..End'
  BY <1>2, AppendTyped DEF AddDuplicate
<1> QED
  BY <1>4, <1>5 DEF TypeOK, AddDuplicate

\* The events an update appends.
LEMMA UpdateEventsTyped ==
  ASSUME TypeOK, NEW id \in Ids, NEW r \in Row, NEW key \in Keys \cup {NoKey},
         NEW signal \in BOOLEAN, Live(id)
  PROVE  LET ev == Ev("updated", id, r, rows[id], key)
         IN  (IF signal THEN <<ev, Observed(id, r)>> ELSE <<ev>>) \in Seq(Event)
<1>1. rows[id] \in Row
  BY DEF TypeOK, Live
<1>2. Ev("updated", id, r, rows[id], key) \in Event
  BY <1>1, EventTyped DEF Reconstructing
<1>3. Observed(id, r) \in Event
  BY EventTyped DEF Observed
<1> QED
  BY <1>2, <1>3

LEMMA TypeUpdate ==
  ASSUME TypeOK, NEW id \in Ids, NEW r \in Row, NEW key \in Keys \cup {NoKey},
         NEW signal \in BOOLEAN, Update(id, r, key, signal)
  PROVE  TypeOK'
<1>1. log' \in Seq(Event) /\ dropped \in 0..End'
  BY UpdateEventsTyped, AppendTyped DEF Update
<1>2. r.ns \in Namespaces
  BY DEF Row
<1>3. ledger' \in [Namespaces \X Keys -> Entry \cup {None}]
  BY <1>2, RequestsTyped, RememberTyped DEF Update
<1>4. wms' \in [Ids -> Watermark \cup {None}]
  BY MarksTyped DEF Update, TypeOK
<1> QED
  BY <1>1, <1>3, <1>4 DEF TypeOK, Update

LEMMA TypeDelete ==
  ASSUME TypeOK, NEW id \in Ids, NEW key \in Keys \cup {NoKey}, Delete(id, key)
  PROVE  TypeOK'
<1>1. rows[id] \in Row /\ rows[id].ns \in Namespaces
  BY DEF TypeOK, Live, Delete, Row
<1>2. <<Ev("deleted", id, rows[id], None, key)>> \in Seq(Event)
  BY <1>1, EventTyped DEF Reconstructing
<1>3. log' \in Seq(Event) /\ dropped \in 0..End'
  BY <1>2, AppendTyped DEF Delete
<1>4. ledger' \in [Namespaces \X Keys -> Entry \cup {None}]
  BY <1>1, RequestsTyped, RememberTyped DEF Delete
<1>5. tombs' \in [Ids -> Tombstone \cup {None}]
  BY <1>1, MarksTyped DEF Delete, TypeOK
<1>6. wms' \in [Ids -> Watermark \cup {None}]
  BY ForgetTyped DEF Delete, TypeOK
<1> QED
  BY <1>3, <1>4, <1>5, <1>6 DEF TypeOK, Delete

LEMMA LargerNat ==
  ASSUME NEW a \in Nat, NEW b \in Nat
  PROVE  /\ Larger(a, b) \in Nat
         /\ Larger(a, b) >= a /\ Larger(a, b) >= b
         /\ Larger(a, b) \in {a, b}
BY DEF Larger

LEMMA TypeDropThrough ==
  ASSUME TypeOK, NEW k \in Retained, DropThrough(k),
         UNCHANGED <<rows, log, tombs, wms, ledger, imported>>
  PROVE  TypeOK'
<1>1. End \in Nat /\ k \in 0..End /\ k \in Nat
  BY DEF TypeOK, Retained, End
<1>2. meta' \in Meta
  BY <1>1, LargerNat DEF TypeOK, DropThrough, Meta
<1> QED
  BY <1>1, <1>2 DEF TypeOK, DropThrough, End

\* The events of a hygiene pass, and where its trim would cut.
Audit(warned) ==
  IF warned = None THEN <<Observed(None, None)>>
  ELSE <<Observed(None, None), Observed(warned, None)>>
Cut(warned) == End + Len(Audit(warned)) - KeepLast
Trims(warned) ==
  /\ Cut(warned) > dropped
  /\ dropped' = Cut(warned)
  /\ meta' = [meta EXCEPT
                !.trimmed = Larger(meta.trimmed, Cut(warned)),
                !.lastHead = Larger(meta.lastHead, End + Len(Audit(warned)))]

LEMMA AuditTyped ==
  ASSUME TypeOK, NEW warned \in Ids \cup {None}
  PROVE  Audit(warned) \in Seq(Event) /\ Len(Audit(warned)) \in 1..2
<1>1. Observed(None, None) \in Event /\ Observed(warned, None) \in Event
  BY EventTyped DEF Observed
<1> QED
  BY <1>1 DEF Audit

LEMMA HygieneParts ==
  ASSUME NEW warned \in Ids \cup {None}, Hygiene(warned)
  PROVE  /\ AppendEvents(Audit(warned))
         /\ Trims(warned) \/ UNCHANGED <<dropped, meta>>
         /\ UNCHANGED <<rows, tombs, wms, ledger, imported>>
BY DEF Hygiene, Audit, Cut, Trims

LEMMA TypeHygiene ==
  ASSUME TypeOK, NEW warned \in Ids \cup {None}, Hygiene(warned)
  PROVE  TypeOK'
<1>1. Audit(warned) \in Seq(Event) /\ Len(Audit(warned)) \in 1..2
  BY AuditTyped
<1>2. /\ AppendEvents(Audit(warned))
      /\ Trims(warned) \/ UNCHANGED <<dropped, meta>>
      /\ UNCHANGED <<rows, tombs, wms, ledger, imported>>
  BY HygieneParts
<1>3. /\ log' \in Seq(Event) /\ dropped \in 0..End' /\ End \in Nat
      /\ End' = End + Len(Audit(warned))
  BY <1>1, <1>2, AppendTyped
<1>4. CASE Trims(warned)
  <2>1. dropped' \in 0..End' /\ Cut(warned) \in Nat
    BY <1>1, <1>3, <1>4 DEF TypeOK, Trims, Cut
  <2>2. /\ Larger(meta.trimmed, Cut(warned)) \in Nat
        /\ Larger(meta.lastHead, End + Len(Audit(warned))) \in Nat
    BY <1>1, <1>3, <2>1 DEF TypeOK, Meta, Larger
  <2>3. meta' \in Meta
    BY <1>4, <2>2 DEF TypeOK, Meta, Trims
  <2> QED
    BY <1>2, <1>3, <2>1, <2>3 DEF TypeOK
<1>5. CASE UNCHANGED <<dropped, meta>>
  BY <1>2, <1>3, <1>5 DEF TypeOK
<1> QED
  BY <1>2, <1>4, <1>5

\* Compaction stays at or below what was asked for, acknowledged and trimmed.
LEMMA HorizonBounds ==
  ASSUME TypeOK, NEW through \in 0..MaxSeq, NEW acked \in 0..MaxSeq \cup {None},
         NEW strict \in BOOLEAN,
         NEW h \in CompactionHorizon(through, acked, strict)
  PROVE  h \in Nat /\ h <= meta.trimmed
<1> DEFINE ack == IF acked = None THEN through ELSE acked
           cap == IF ack < meta.trimmed THEN ack ELSE meta.trimmed
<1>1. ack \in Nat /\ meta.trimmed \in Nat
  BY DEF TypeOK, Meta
<1>2. cap \in Nat /\ cap <= meta.trimmed
  BY <1>1
<1>3. h = cap \/ (h = through /\ through <= cap)
  BY DEF CompactionHorizon
<1>4. through \in Nat
  OBVIOUS
<1> HIDE DEF cap
<1> QED
  BY <1>1, <1>2, <1>3, <1>4

\* What a compaction does: it forgets the tombstones of records that no
\* retained event up to them is about, and moves the mark.
LEMMA CompactEffect ==
  ASSUME NEW through, NEW acked, NEW ns, NEW strict,
         CompactTombstones(through, acked, ns, strict)
  PROVE  \E h \in CompactionHorizon(through, acked, strict) :
         \E doomed \in SUBSET Ids :
           /\ tombs' = Forget(tombs, doomed)
           /\ meta' = [meta EXCEPT !.compacted = Larger(meta.compacted, h)]
           /\ \A x \in doomed :
                \A s \in Retained : s <= tombs[x].seq => log[s].id # x
<1> DEFINE listed    == {x \in Ids : tombs[x] # None /\ ns \in {None, tombs[x].ns}}
           doomed(h) == {x \in listed : tombs[x].seq <= h}
<1>1. PICK h \in CompactionHorizon(through, acked, strict) :
        /\ \A x \in doomed(h) :
             /\ ~Live(x)
             /\ \A s \in Retained : s <= tombs[x].seq => log[s].id # x
        /\ tombs' = Forget(tombs, doomed(h))
        /\ meta' = [meta EXCEPT !.compacted = Larger(meta.compacted, h)]
  BY Zenon DEF CompactTombstones
<1>2. doomed(h) \in SUBSET Ids
  OBVIOUS
<1> HIDE DEF doomed
<1> QED
  BY <1>1, <1>2

LEMMA TypeCompact ==
  ASSUME TypeOK, NEW through \in 0..MaxSeq, NEW acked \in 0..MaxSeq \cup {None},
         NEW ns \in Namespaces \cup {None}, NEW strict \in BOOLEAN,
         CompactTombstones(through, acked, ns, strict)
  PROVE  TypeOK'
<1>1. PICK h \in CompactionHorizon(through, acked, strict), doomed \in SUBSET Ids :
        /\ tombs' = Forget(tombs, doomed)
        /\ meta' = [meta EXCEPT !.compacted = Larger(meta.compacted, h)]
  BY CompactEffect
<1>2. tombs' \in [Ids -> Tombstone \cup {None}]
  BY <1>1, ForgetTyped DEF TypeOK
<1>3. meta' \in Meta
  BY <1>1, HorizonBounds, LargerNat DEF TypeOK, Meta
<1> QED
  BY <1>2, <1>3 DEF TypeOK, CompactTombstones, End

LEMMA TypeReplaceHistory ==
  ASSUME TypeOK, ReplaceHistory
  PROVE  TypeOK'
<1>1. MaxPresent \in Nat
  BY DEF TypeOK, MaxPresent, End
<1>2. meta' \in Meta
  BY <1>1 DEF TypeOK, Meta, ReplaceHistory, NextHistory
<1> QED
  BY <1>2 DEF TypeOK, ReplaceHistory, End

LEMMA TypeRestore ==
  ASSUME TypeOK, NEW id \in Ids, NEW r \in Row, Restore(id, r)
  PROVE  TypeOK'
<1>1. rows' \in [Ids -> Row \cup {None}] /\ imported' \subseteq Ids
  <2>1. CASE rows' = [rows EXCEPT ![id] = r] /\ imported' = imported \cup {id}
    BY <2>1 DEF TypeOK
  <2>2. CASE rows' = rows /\ imported' = imported \cup {id}
    BY <2>2 DEF TypeOK
  <2>3. ASSUME NEW x \in Holders(r.ns, r.hash), NEW v \in Vals,
               rows' = [rows EXCEPT ![x].val = v],
               imported' = imported \cup {id, x}
        PROVE  rows' \in [Ids -> Row \cup {None}] /\ imported' \subseteq Ids
    <3>1. x \in Ids /\ rows[x] \in Row
      BY DEF Holders, TypeOK
    <3>2. [rows[x] EXCEPT !.val = v] \in Row
      BY <3>1 DEF Row
    <3> QED
      BY <2>3, <3>1, <3>2 DEF TypeOK
  <2> QED
    BY <2>1, <2>2, <2>3 DEF Restore
<1>2. /\ tombs' \in [Ids -> Tombstone \cup {None}]
      /\ wms' \in [Ids -> Watermark \cup {None}]
  BY ForgetTyped DEF TypeOK, Restore
<1>3. meta' \in Meta
  BY DEF TypeOK, Restore, Meta
<1>4. <<Observed(None, None)>> \in Seq(Event)
  BY EventTyped DEF Observed
<1>5. log' \in Seq(Event) /\ dropped \in 0..End'
  BY <1>4, AppendTyped DEF Restore, TypeOK, End
<1> QED
  BY <1>1, <1>2, <1>3, <1>5 DEF TypeOK, Restore

LEMMA TypeStep == TypeOK /\ [Next]_storeVars => TypeOK'
<1> SUFFICES ASSUME TypeOK, [Next]_storeVars PROVE TypeOK'
  OBVIOUS
<1>1. NewRow \subseteq Row
  BY DEF NewRow
<1>2. CASE LocalWrite
  BY <1>1, <1>2, TypeAddNew, TypeAddDuplicate, TypeUpdate, TypeDelete
  DEF LocalWrite
<1>3. CASE Retention
  <2>1. ASSUME NEW n \in 1..(MaxSeq + 1), TrimBefore(n) \/ TrimByCount(n - 1)
        PROVE  TypeOK'
    BY <2>1, TypeDropThrough DEF TrimBefore, TrimByCount
  <2> QED
    BY <1>3, <2>1, TypeCompact, TypeHygiene DEF Retention
<1>4. CASE ReplaceHistory
  BY <1>4, TypeReplaceHistory
<1>5. CASE Import
  BY <1>5, TypeRestore DEF Import
<1>6. CASE UNCHANGED storeVars
  BY <1>6 DEF storeVars, TypeOK, End
<1> QED
  BY <1>2, <1>3, <1>4, <1>5, <1>6 DEF Next

\* Every reachable state of the store is well typed: the log is a sequence of
\* events, retention never counts past its end, every mark is a number.
THEOREM StoreTyped == Spec => []TypeOK
BY TypeInit, TypeStep, PTL DEF Spec

-----------------------------------------------------------------------------
(* What a step appends.                                                    *)

Keeps ==
  /\ log' \in Seq(Event)
  /\ End \in Nat /\ End' \in Nat /\ End <= End'
  /\ \A s \in 1..End : log'[s] = log[s]

Quiet(s) ==
  /\ log'[s].type = "observed" /\ log'[s].key = NoKey
  /\ log'[s].hist = meta.hist

\* e, and after it nothing but signals.
Writes(e) ==
  /\ Keeps
  /\ End < End'
  /\ log'[End + 1] = e
  /\ \A s \in (End + 2)..End' : Quiet(s)

OnlyObserves == Keeps /\ \A s \in (End + 1)..End' : Quiet(s)

LEMMA AppendsMany ==
  ASSUME TypeOK, NEW es \in Seq(Event), AppendEvents(es)
  PROVE  /\ Keeps
         /\ End' = End + Len(es)
         /\ \A i \in 1..Len(es) : log'[End + i] = es[i]
<1>1. /\ log' \in Seq(Event)
      /\ Len(log') = Len(log) + Len(es)
      /\ \A s \in 1..Len(log) : log'[s] = log[s]
      /\ \A s \in Len(log) + 1 .. Len(log') : log'[s] = es[s - Len(log)]
  BY AppendKeeps DEF TypeOK, AppendEvents
<1>2. Len(log) \in Nat /\ Len(es) \in Nat
  BY DEF TypeOK
<1>3. ASSUME NEW i \in 1..Len(es) PROVE log'[Len(log) + i] = es[i]
  <2>1. Len(log) + i \in Len(log) + 1 .. Len(log')
    BY <1>1, <1>2
  <2>2. (Len(log) + i) - Len(log) = i
    BY <1>2
  <2>3. log'[Len(log) + i] = es[(Len(log) + i) - Len(log)]
    BY <1>1, <2>1, Zenon
  <2> QED
    BY <2>2, <2>3, Zenon
<1> QED
  BY <1>1, <1>2, <1>3 DEF End, Keeps

LEMMA AppendsOne ==
  ASSUME TypeOK, NEW e \in Event, AppendEvents(<<e>>)
  PROVE  Writes(e)
<1>1. <<e>> \in Seq(Event) /\ Len(<<e>>) = 1 /\ <<e>>[1] = e
  OBVIOUS
<1>2. /\ Keeps /\ End' = End + 1
      /\ \A i \in 1..1 : log'[End + i] = <<e>>[i]
  BY <1>1, AppendsMany
<1> QED
  BY <1>1, <1>2 DEF Writes, Keeps

LEMMA AppendsAudit ==
  ASSUME TypeOK, AppendEvents(<<Observed(None, None)>>)
  PROVE  OnlyObserves
<1>1. Observed(None, None) \in Event
  BY EventTyped DEF Observed
<1>2. Writes(Observed(None, None))
  BY <1>1, AppendsOne
<1> QED
  BY <1>2 DEF Writes, OnlyObserves, Observed, Ev, Quiet, Keeps

LEMMA AppendsNothing ==
  ASSUME TypeOK, UNCHANGED log
  PROVE  OnlyObserves
BY DEF TypeOK, OnlyObserves, Keeps, End

LEMMA WritesAddNew ==
  ASSUME TypeOK, NEW id \in Ids, NEW r \in Row, NEW key \in Keys \cup {NoKey},
         AddNew(id, r, key)
  PROVE  Writes(Ev("created", id, r, None, key))
BY EventTyped, AppendsOne DEF AddNew, Reconstructing

LEMMA WritesAddDuplicate ==
  ASSUME TypeOK, NEW id \in Ids, NEW r \in Row, NEW key \in Keys \cup {NoKey},
         AddDuplicate(id, r, key)
  PROVE  Writes(Ev("observed", id, rows[id], None, key))
<1>1. rows[id] \in Row
  BY DEF AddDuplicate, Holders, TypeOK
<1> QED
  BY <1>1, EventTyped, AppendsOne DEF AddDuplicate

LEMMA WritesUpdate ==
  ASSUME TypeOK, NEW id \in Ids, NEW r \in Row, NEW key \in Keys \cup {NoKey},
         NEW signal \in BOOLEAN, Update(id, r, key, signal)
  PROVE  Writes(Ev("updated", id, r, rows[id], key))
<1> DEFINE ev == Ev("updated", id, r, rows[id], key)
           es == IF signal THEN <<ev, Observed(id, r)>> ELSE <<ev>>
<1>1. rows[id] \in Row
  BY DEF TypeOK, Live, Update
<1>2. ev \in Event /\ Observed(id, r) \in Event
  BY <1>1, EventTyped DEF Reconstructing, Observed
<1>3. es \in Seq(Event) /\ AppendEvents(es)
  BY <1>2 DEF Update
<1>4. /\ es[1] = ev /\ Len(es) \in {1, 2}
      /\ Len(es) = 2 => es[2] = Observed(id, r)
  BY <1>2
<1> HIDE DEF ev, es
<1>5. /\ Keeps /\ End' = End + Len(es)
      /\ \A i \in 1..Len(es) : log'[End + i] = es[i]
  BY <1>3, AppendsMany
<1>6. log'[End + 1] = ev
  BY <1>4, <1>5
<1>7. ASSUME NEW s \in (End + 2)..End' PROVE Quiet(s)
  <2>1. s = End + 2 /\ Len(es) = 2
    BY <1>4, <1>5 DEF Keeps
  <2>2. log'[s] = Observed(id, r)
    BY <1>4, <1>5, <2>1
  <2> QED
    BY <2>2 DEF Observed, Ev, Quiet
<1> QED
  BY <1>4, <1>5, <1>6, <1>7 DEF Writes, Keeps, ev

LEMMA WritesDelete ==
  ASSUME TypeOK, NEW id \in Ids, NEW key \in Keys \cup {NoKey}, Delete(id, key)
  PROVE  Writes(Ev("deleted", id, rows[id], None, key))
<1>1. rows[id] \in Row
  BY DEF TypeOK, Live, Delete
<1> QED
  BY <1>1, EventTyped, AppendsOne DEF Delete, Reconstructing

\* Which events touch a record after a step.
LEMMA TouchedByWrite ==
  ASSUME NEW e, Writes(e), NEW x \in Ids, NEW s \in 1..End'
  PROVE  Touches(s, x)' <=>
           \/ s \in 1..End /\ Touches(s, x)
           \/ s = End + 1 /\ e.id = x /\ e.type \in Reconstructing
<1>1. CASE s \in 1..End
  BY <1>1 DEF Writes, Keeps, Touches
<1>2. CASE s = End + 1
  BY <1>2 DEF Writes, Keeps, Touches
<1>3. CASE s \in (End + 2)..End'
  BY <1>3 DEF Writes, Keeps, Touches, Quiet, Reconstructing
<1> QED
  BY <1>1, <1>2, <1>3 DEF Writes, Keeps

LEMMA TouchedByAudit ==
  ASSUME OnlyObserves, NEW x \in Ids, NEW s \in 1..End'
  PROVE  Touches(s, x)' <=> s \in 1..End /\ Touches(s, x)
<1>1. CASE s \in 1..End
  BY <1>1 DEF OnlyObserves, Keeps, Touches
<1>2. CASE s \in (End + 1)..End'
  BY <1>2 DEF OnlyObserves, Keeps, Touches, Quiet, Reconstructing
<1> QED
  BY <1>1, <1>2 DEF OnlyObserves, Keeps

\* The last event about a record stays the last unless a new one is about it.
LEMMA LastKept ==
  ASSUME NEW e, Writes(e) \/ OnlyObserves, NEW x \in Ids,
         Writes(e) => ~(e.id = x /\ e.type \in Reconstructing),
         NEW s \in 1..End, IsLast(s, x)
  PROVE  s \in 1..End' /\ IsLast(s, x)' /\ log'[s] = log[s]
<1>1. Keeps
  BY DEF Writes, OnlyObserves
<1>2. s \in 1..End' /\ log'[s] = log[s]
  BY <1>1 DEF Keeps
<1>3. \A t \in 1..End' : Touches(t, x)' => t \in 1..End /\ Touches(t, x)
  BY TouchedByWrite, TouchedByAudit
<1>4. Touches(s, x)'
  BY <1>2 DEF IsLast, Touches
<1>5. ASSUME NEW t \in (s + 1)..End', Touches(t, x)' PROVE FALSE
  <2>1. t \in 1..End'
    BY <1>1 DEF Keeps
  <2>2. t \in 1..End /\ Touches(t, x)
    BY <1>3, <1>5, <2>1
  <2>3. t \in (s + 1)..End
    BY <2>2
  <2> QED
    BY <2>2, <2>3 DEF IsLast
<1> QED
  BY <1>2, <1>4, <1>5 DEF IsLast

LEMMA LastWritten ==
  ASSUME NEW e, Writes(e), NEW x \in Ids, e.id = x, e.type \in Reconstructing,
         NEW n, n = End + 1
  PROVE  n \in 1..End' /\ IsLast(n, x)' /\ log'[n] = e
<1>1. n \in 1..End' /\ log'[n] = e
  BY DEF Writes, Keeps
<1>2. Touches(n, x)'
  BY <1>1 DEF Touches
<1>3. ASSUME NEW t \in (End + 2)..End' PROVE ~Touches(t, x)'
  BY <1>3 DEF Writes, Quiet, Touches, Reconstructing
<1>4. (n + 1)..End' = (End + 2)..End'
  BY DEF Writes, Keeps
<1> QED
  BY <1>1, <1>2, <1>3, <1>4 DEF IsLast

\* A record no event named is named by none after a step about another one.
LEMMA UntouchedKept ==
  ASSUME NEW e, Writes(e) \/ OnlyObserves, NEW x \in Ids,
         Writes(e) => ~(e.id = x /\ e.type \in Reconstructing),
         \A s \in 1..End : ~Touches(s, x)
  PROVE  \A s \in 1..End' : ~Touches(s, x)'
BY TouchedByWrite, TouchedByAudit

-----------------------------------------------------------------------------
(* What each operation does to the log, to retention and to history.       *)

LEMMA HygieneAppends ==
  ASSUME TypeOK, NEW warned \in Ids \cup {None}, Hygiene(warned)
  PROVE  OnlyObserves
<1>1. Audit(warned) \in Seq(Event) /\ Len(Audit(warned)) \in 1..2
  BY AuditTyped
<1>2. /\ Keeps /\ End' = End + Len(Audit(warned))
      /\ \A i \in 1..Len(Audit(warned)) : log'[End + i] = Audit(warned)[i]
  BY <1>1, HygieneParts, AppendsMany
<1>3. ASSUME NEW i \in 1..Len(Audit(warned))
      PROVE  Audit(warned)[i] \in {Observed(None, None), Observed(warned, None)}
  BY <1>1 DEF Audit
<1>4. ASSUME NEW s, s \in (End + 1)..End' PROVE Quiet(s)
  <2>1. End \in Nat
    BY DEF TypeOK, End
  <2>2. PICK k \in 1..2 : k = Len(Audit(warned))
    BY <1>1
  <2>3. s \in (End + 1)..(End + k)
    BY <1>2, <1>4, <2>2
  <2>4. PICK i \in 1..k : s = End + i
    BY <2>1, <2>3
  <2>5. log'[s] \in {Observed(None, None), Observed(warned, None)}
    BY <1>2, <1>3, <2>2, <2>4
  <2> QED
    BY <2>5 DEF Observed, Ev, Quiet
<1> QED
  BY <1>2, <1>4 DEF OnlyObserves

LEMMA RestoreAppends ==
  ASSUME TypeOK, NEW id \in Ids, NEW r \in Row, Restore(id, r)
  PROVE  OnlyObserves
BY AppendsAudit, AppendsNothing DEF Restore

Stamped == Keeps /\ \A s \in (End + 1)..End' : log'[s].hist = meta.hist

LEMMA WriteStamped ==
  ASSUME NEW type, NEW id, NEW row, NEW prev, NEW key,
         Writes(Ev(type, id, row, prev, key))
  PROVE  Stamped
<1>1. Ev(type, id, row, prev, key).hist = meta.hist
  BY DEF Ev
<1> HIDE DEF Ev
<1> QED
  BY <1>1 DEF Writes, Quiet, Keeps, Stamped

\* Every step keeps the log and writes events of the present history only.
LEMMA StepAppends ==
  ASSUME TypeOK, Next
  PROVE  Stamped
<1>2. ASSUME OnlyObserves PROVE Stamped
  BY <1>2 DEF OnlyObserves, Quiet, Stamped
<1>3. NewRow \subseteq Row
  BY DEF NewRow
<1>4. CASE LocalWrite
  <2>1. PICK id \in Ids, key \in Keys \cup {NoKey} :
          \/ \E r \in NewRow : AddNew(id, r, key) \/ AddDuplicate(id, r, key)
          \/ \E r \in Row, signal \in BOOLEAN : Update(id, r, key, signal)
          \/ Delete(id, key)
    BY <1>4 DEF LocalWrite
  <2>2. ASSUME NEW r \in NewRow, AddNew(id, r, key) PROVE Stamped
    BY <1>3, <2>2, WritesAddNew, WriteStamped
  <2>3. ASSUME NEW r \in NewRow, AddDuplicate(id, r, key) PROVE Stamped
    BY <1>3, <2>3, WritesAddDuplicate, WriteStamped
  <2>4. ASSUME NEW r \in Row, NEW signal \in BOOLEAN, Update(id, r, key, signal)
        PROVE  Stamped
    BY <2>4, WritesUpdate, WriteStamped
  <2>5. CASE Delete(id, key)
    BY <2>5, WritesDelete, WriteStamped
  <2> QED
    BY <2>1, <2>2, <2>3, <2>4, <2>5
<1>5. CASE Retention
  BY <1>2, <1>5, HygieneAppends, AppendsNothing
  DEF Retention, TrimBefore, TrimByCount, CompactTombstones
<1>6. CASE ReplaceHistory
  BY <1>2, <1>6, AppendsNothing DEF ReplaceHistory
<1>7. CASE Import
  BY <1>2, <1>7, RestoreAppends DEF Import
<1> QED
  BY <1>4, <1>5, <1>6, <1>7 DEF Next

-----------------------------------------------------------------------------
(* The inductive invariant.                                                *)

IInv ==
  /\ TypeOK
  /\ MarksMatchLog
  /\ TombstonesAreDead
  /\ UniqueContent
  /\ WatermarkCurrent
  /\ LogExplainsRows
  /\ DeadIdsKeepTombstone
  /\ OneEventPerEntry

LEMMA InvInit == Init => IInv
<1> SUFFICES ASSUME Init PROVE IInv
  OBVIOUS
<1>1. TypeOK
  BY TypeInit
<1>2. End = 0 /\ 1..End = {} /\ Retained = {} /\ 1..dropped = {}
  BY DEF Init, End, Retained
<1>3. \A x \in Ids : rows[x] = None /\ tombs[x] = None /\ wms[x] = None
  BY DEF Init
<1>4. \A ns \in Namespaces, key \in Keys : ledger[<<ns, key>>] = None
  BY DEF Init
<1>5. MarksMatchLog
  BY <1>2, <1>3 DEF MarksMatchLog
<1>6. TombstonesAreDead /\ UniqueContent /\ WatermarkCurrent
  BY <1>3 DEF TombstonesAreDead, UniqueContent, WatermarkCurrent, Live
<1>7. LogExplainsRows /\ DeadIdsKeepTombstone
  BY <1>2, <1>3 DEF LogExplainsRows, DeadIdsKeepTombstone, Live
<1>8. OneEventPerEntry
  BY <1>2, <1>4 DEF OneEventPerEntry
<1> QED
  BY <1>1, <1>5, <1>6, <1>7, <1>8 DEF IInv

\* The parts of the invariant that are about one record.
TombstoneSound(x) ==
  tombs[x] # None => /\ ~Live(x) /\ tombs[x].hist = meta.hist
                     /\ tombs[x].seq \in 1..End /\ IsLast(tombs[x].seq, x)
                     /\ log[tombs[x].seq].type = "deleted"
WatermarkSound(x) ==
  wms[x] # None => /\ Live(x) /\ wms[x].hist = meta.hist
                   /\ wms[x].seq \in 1..End /\ IsLast(wms[x].seq, x)
                   /\ wms[x].fp = Fingerprint(log[wms[x].seq].row)
RowExplained(x) ==
  x \notin imported => \/ ~Live(x) /\ \A s \in 1..End : ~Touches(s, x)
                       \/ \E s \in 1..End : IsLast(s, x) /\ rows[x] = After(log[s])
DeathKept(x) ==
  x \notin imported =>
    \A s \in Retained : Touches(s, x) /\ log[s].hist = meta.hist /\ ~Live(x)
                          => tombs[x] # None /\ tombs[x].seq >= s

RecordSound(x) ==
  TombstoneSound(x) /\ WatermarkSound(x) /\ RowExplained(x) /\ DeathKept(x)

HistoryMarked ==
  /\ \A s \in 1..End : log[s].hist <= meta.hist
  /\ \A s \in 1..dropped : log[s].hist = meta.hist => s <= meta.trimmed

Parts ==
  /\ TypeOK /\ HistoryMarked /\ UniqueContent /\ OneEventPerEntry
  /\ \A x \in Ids : RecordSound(x)

LEMMA InvByRecord == IInv <=> Parts
<1>1. MarksMatchLog /\ TombstonesAreDead
        <=> HistoryMarked /\ \A x \in Ids : TombstoneSound(x)
  BY DEF MarksMatchLog, TombstonesAreDead, HistoryMarked, TombstoneSound
<1>2. WatermarkCurrent <=> \A x \in Ids : WatermarkSound(x)
  BY DEF WatermarkCurrent, WatermarkSound
<1>3. LogExplainsRows <=> \A x \in Ids : RowExplained(x)
  BY DEF LogExplainsRows, RowExplained
<1>4. DeadIdsKeepTombstone <=> \A x \in Ids : DeathKept(x)
  BY DEF DeadIdsKeepTombstone, DeathKept
<1> QED
  BY <1>1, <1>2, <1>3, <1>4 DEF IInv, RecordSound, Parts

LEMMA InvByRecordNext ==
  ASSUME TypeOK', HistoryMarked', UniqueContent', OneEventPerEntry',
         \A x \in Ids : RecordSound(x)'
  PROVE  IInv'
<1>1. IInv' <=> Parts'
  BY InvByRecord, PTL
<1> QED
  BY <1>1 DEF Parts

\* A step that leaves a record alone and is not about it keeps what is known
\* of it.
LEMMA RecordKept ==
  ASSUME TypeOK, NEW x \in Ids, RecordSound(x),
         NEW e, Writes(e) \/ OnlyObserves,
         Writes(e) => ~(e.id = x /\ e.type \in Reconstructing),
         tombs'[x] = tombs[x], wms'[x] = wms[x],
         rows'[x] = rows[x] \/ (rows[x] # None /\ rows'[x] # None /\ x \in imported'),
         x \in imported => x \in imported',
         meta'.hist = meta.hist, dropped <= dropped', dropped' \in Nat
  PROVE  RecordSound(x)'
<1>1. Keeps
  BY DEF Writes, OnlyObserves
<1>2. Live(x)' <=> Live(x)
  BY DEF Live
<1>3. TombstoneSound(x)'
  <2>1. CASE tombs[x] = None
    BY <2>1 DEF TombstoneSound
  <2>2. CASE tombs[x] # None
    <3>1. PICK s \in 1..End : s = tombs[x].seq /\ IsLast(s, x)
      BY <2>2 DEF RecordSound, TombstoneSound
    <3>2. s \in 1..End' /\ IsLast(s, x)' /\ log'[s] = log[s]
      BY <3>1, LastKept
    <3>3. tombs'[x].seq = s
      BY <3>1
    <3>4. IsLast(tombs[x].seq, x)'
      BY <3>2, <3>3 DEF IsLast, Touches
    <3> QED
      BY <1>2, <2>2, <3>1, <3>2, <3>3, <3>4 DEF RecordSound, TombstoneSound
  <2> QED
    BY <2>1, <2>2
<1>4. WatermarkSound(x)'
  <2>1. CASE wms[x] = None
    BY <2>1 DEF WatermarkSound
  <2>2. CASE wms[x] # None
    <3>1. PICK s \in 1..End : s = wms[x].seq /\ IsLast(s, x)
      BY <2>2 DEF RecordSound, WatermarkSound
    <3>2. s \in 1..End' /\ IsLast(s, x)' /\ log'[s] = log[s]
      BY <3>1, LastKept
    <3>3. wms'[x].seq = s
      BY <3>1
    <3>4. IsLast(wms[x].seq, x)'
      BY <3>2, <3>3 DEF IsLast, Touches
    <3> QED
      BY <1>2, <2>2, <3>1, <3>2, <3>3, <3>4 DEF RecordSound, WatermarkSound
  <2> QED
    BY <2>1, <2>2
<1>5. RowExplained(x)'
  <2>1. CASE ~Live(x) /\ \A s \in 1..End : ~Touches(s, x)
    BY <1>2, <2>1, UntouchedKept DEF RowExplained
  <2>2. ASSUME NEW s \in 1..End, IsLast(s, x), rows[x] = After(log[s])
        PROVE  RowExplained(x)'
    <3>1. s \in 1..End' /\ IsLast(s, x)' /\ log'[s] = log[s]
      BY <2>2, LastKept
    <3>2. x \in imported' \/ rows'[x] = rows[x]
      OBVIOUS
    <3> QED
      BY <2>2, <3>1, <3>2 DEF RowExplained, After
  <2> QED
    BY <2>1, <2>2 DEF RecordSound, RowExplained
<1>6. DeathKept(x)'
  <2> SUFFICES ASSUME (x \notin imported)', NEW s, s \in Retained',
                      Touches(s, x)', (log[s].hist = meta.hist)', ~Live(x)'
               PROVE  (tombs[x] # None /\ tombs[x].seq >= s)'
    BY DEF DeathKept, Touches, Live
  <2>1. s \in 1..End' /\ s > dropped
    <3>1. dropped \in Nat /\ End' \in Nat
      BY <1>1 DEF Keeps, TypeOK
    <3>2. s \in 1..End' /\ dropped' < s
      BY DEF Retained
    <3> QED
      BY <3>1, <3>2
  <2>2. s \in 1..End /\ Touches(s, x)
    BY <2>1, TouchedByWrite, TouchedByAudit
  <2>3. s \in Retained /\ log'[s] = log[s]
    BY <1>1, <2>1, <2>2 DEF Retained, Keeps, TypeOK
  <2> QED
    BY <1>2, <2>2, <2>3 DEF RecordSound, DeathKept
<1> QED
  BY <1>3, <1>4, <1>5, <1>6 DEF RecordSound

\* The log's history marks after a step within one history.
LEMMA HistoryKept ==
  ASSUME TypeOK, HistoryMarked, Stamped, meta'.hist = meta.hist,
         meta'.trimmed \in Nat, meta.trimmed <= meta'.trimmed,
         dropped' \in Nat,
         \A s \in 1..dropped' : s <= dropped \/ s <= meta'.trimmed
  PROVE  HistoryMarked'
<1>1. /\ meta.hist \in Nat /\ meta.trimmed \in Nat /\ End \in Nat
      /\ dropped \in 0..End
  BY DEF TypeOK, Meta, End
<1>2. ASSUME NEW s \in 1..End' PROVE log'[s].hist <= meta'.hist
  <2>1. CASE s \in 1..End
    BY <2>1 DEF HistoryMarked, Stamped, Keeps
  <2>2. CASE s \in (End + 1)..End'
    BY <1>1, <2>2 DEF Stamped
  <2> QED
    BY <1>1, <2>1, <2>2 DEF Stamped, Keeps
<1>3. ASSUME NEW s \in 1..dropped', log'[s].hist = meta'.hist
      PROVE  s <= meta'.trimmed
  <2>1. CASE s <= dropped
    <3>1. s \in 1..dropped /\ s \in 1..End /\ log'[s] = log[s]
      BY <1>1, <2>1 DEF Stamped, Keeps
    <3> QED
      BY <1>1, <1>3, <3>1 DEF HistoryMarked
  <2> QED
    BY <2>1
<1> QED
  BY <1>2, <1>3 DEF HistoryMarked

Made(ns, key) == {s \in 1..End : log[s].key = key /\ log[s].row.ns = ns}

\* OneEventPerEntry of one key of one namespace.
EntrySound(ns, key) ==
  IF ledger[<<ns, key>>] = None THEN Made(ns, key) = {}
  ELSE \E s \in 1..End : /\ Made(ns, key) = {s}
                        /\ log[s].id = ledger[<<ns, key>>].id

LEMMA EntryByEntry ==
  /\ OneEventPerEntry
       <=> \A ns \in Namespaces, key \in Keys : EntrySound(ns, key)
  /\ OneEventPerEntry'
       <=> \A ns \in Namespaces, key \in Keys : EntrySound(ns, key)'
BY DEF OneEventPerEntry, EntrySound, Made

\* The ledger after a step that records nothing.
LEMMA EntriesKept ==
  ASSUME TypeOK, OneEventPerEntry, OnlyObserves, ledger' = ledger
  PROVE  OneEventPerEntry'
<1> SUFFICES ASSUME NEW ns \in Namespaces, NEW key \in Keys
             PROVE  EntrySound(ns, key)'
  BY EntryByEntry
<1>1. Made(ns, key)' = Made(ns, key)
  <2>1. ASSUME NEW s \in 1..End'
        PROVE  s \in Made(ns, key)' <=> s \in Made(ns, key)
    <3>1. CASE s \in 1..End
      BY <3>1 DEF OnlyObserves, Keeps, Made
    <3>2. CASE s \in (End + 1)..End'
      BY <3>2 DEF OnlyObserves, Keeps, Made, Quiet
    <3> QED
      BY <3>1, <3>2 DEF OnlyObserves, Keeps
  <2>2. 1..End \subseteq 1..End'
    BY DEF OnlyObserves, Keeps
  <2> QED
    BY <2>1, <2>2 DEF Made
<1>2. \A s \in 1..End : s \in 1..End' /\ log'[s] = log[s]
  BY DEF OnlyObserves, Keeps
<1>3. EntrySound(ns, key)
  BY EntryByEntry
<1> HIDE DEF Made
<1> QED
  BY <1>1, <1>2, <1>3 DEF EntrySound

\* The ledger after an operation that records its event, if it has a key.
LEMMA EntryAdded ==
  ASSUME TypeOK, OneEventPerEntry, NEW e, Writes(e),
         NEW n \in Namespaces, NEW k \in Keys \cup {NoKey}, NEW req \in Request,
         NEW id \in Ids, e.key = k, e.row.ns = n, e.id = id,
         Remembered(n, k) = None, Remember(n, k, req, id)
  PROVE  OneEventPerEntry'
<1> SUFFICES ASSUME NEW ns \in Namespaces, NEW key \in Keys
             PROVE  IF ledger'[<<ns, key>>] = None THEN Made(ns, key)' = {}
                    ELSE \E s \in 1..End' :
                           /\ Made(ns, key)' = {s}
                           /\ log'[s].id = ledger'[<<ns, key>>].id
  BY DEF OneEventPerEntry, Made
<1>0. key # NoKey
  OBVIOUS
<1>1. ASSUME NEW s \in 1..End'
      PROVE  s \in Made(ns, key)' <=>
               \/ s \in Made(ns, key)
               \/ s = End + 1 /\ k = key /\ n = ns
  <2>1. CASE s \in 1..End
    BY <2>1 DEF Writes, Keeps, Made
  <2>2. CASE s = End + 1
    BY <2>2 DEF Writes, Keeps, Made
  <2>3. CASE s \in (End + 2)..End'
    BY <1>0, <2>3 DEF Writes, Keeps, Made, Quiet
  <2> QED
    BY <2>1, <2>2, <2>3 DEF Writes, Keeps
<1>2. /\ \A s \in 1..End : s \in 1..End' /\ log'[s] = log[s]
      /\ End + 1 \in 1..End' /\ log'[End + 1] = e
  BY DEF Writes, Keeps
<1>3. CASE k = key /\ n = ns
  <2>1. Made(ns, key) = {}
    BY <1>0, <1>3 DEF Remembered, OneEventPerEntry, Made
  <2>2. Made(ns, key)' = {End + 1}
    BY <1>1, <1>2, <1>3, <2>1 DEF Made
  <2>3. ledger'[<<ns, key>>].id = id /\ ledger'[<<ns, key>>] \in Entry
    BY <1>0, <1>3 DEF Remember, TypeOK, Entry
  <2> QED
    BY <1>2, <2>2, <2>3
<1>4. CASE ~(k = key /\ n = ns)
  <2>1. Made(ns, key)' = Made(ns, key)
    BY <1>1, <1>2, <1>4 DEF Made
  <2>2. ledger'[<<ns, key>>] = ledger[<<ns, key>>]
    BY <1>4 DEF Remember, TypeOK
  <2> QED
    BY <1>2, <2>1, <2>2 DEF OneEventPerEntry, Made
<1> QED
  BY <1>3, <1>4

-----------------------------------------------------------------------------
(* Every operation preserves the invariant.                                *)

\* An event of this history is stamped with it, so a step within the history
\* that leaves retention alone keeps the marks.
LEMMA MarksKept ==
  ASSUME IInv, Stamped, meta' = meta, dropped' = dropped
  PROVE  HistoryMarked'
<1>1. meta.trimmed \in Nat /\ dropped \in 0..End /\ End \in Nat
  BY DEF IInv, TypeOK, Meta, End
<1>2. TypeOK /\ HistoryMarked
  BY InvByRecord DEF Parts
<1>3. \A s \in 1..dropped' : s <= dropped
  BY <1>1
<1> QED
  BY <1>1, <1>2, <1>3, HistoryKept

\* uuid4 draws an id that has no tombstone, no watermark and no event.
LEMMA FreshIsUnknown ==
  ASSUME IInv, NEW id \in Ids, Fresh(id)
  PROVE  /\ tombs[id] = None /\ wms[id] = None /\ ~Live(id)
         /\ \A s \in 1..End : ~Touches(s, id)
<1>1. RecordSound(id) /\ ~Live(id) /\ \A s \in 1..End : ~Touches(s, id)
  BY InvByRecord DEF Parts, Fresh, Live, Touches
<1> QED
  BY <1>1 DEF RecordSound, TombstoneSound, WatermarkSound, IsLast

LEMMA InvAddNew ==
  ASSUME IInv, NEW id \in Ids, NEW r \in Row, NEW key \in Keys \cup {NoKey},
         AddNew(id, r, key)
  PROVE  IInv'
<1> DEFINE e == Ev("created", id, r, None, key)
<1>1. /\ TypeOK /\ UniqueContent /\ OneEventPerEntry /\ TypeOK'
      /\ \A x \in Ids : RecordSound(x)
  BY InvByRecord, TypeAddNew DEF Parts
<1>2. Writes(e) /\ Stamped
  BY <1>1, WritesAddNew, WriteStamped
<1>3. /\ e.id = id /\ e.row = r /\ e.key = key /\ e.hist = meta.hist
      /\ e.type = "created" /\ e.type \in Reconstructing
  BY DEF Ev, Reconstructing
<1>4. /\ rows' = [rows EXCEPT ![id] = r] /\ tombs' = tombs /\ wms' = wms
      /\ dropped' = dropped /\ meta' = meta /\ imported' = imported
  BY DEF AddNew
<1> HIDE DEF e
<1>5. HistoryMarked'
  BY <1>2, <1>4, MarksKept
<1>6. UniqueContent'
  <2>1. \A x \in Ids : Live(x) => rows[x].ns # r.ns \/ rows[x].hash # r.hash
    BY DEF AddNew, Holders, Live
  <2>2. rows'[id] = r /\ \A x \in Ids \ {id} : rows'[x] = rows[x]
    BY <1>1, <1>4 DEF TypeOK
  <2> QED
    BY <1>1, <2>1, <2>2 DEF UniqueContent, Live
<1>7. OneEventPerEntry'
  <2>1. r.ns \in Namespaces /\ AddRequest(r) \in Request
    BY RequestsTyped DEF Row
  <2> QED
    BY <1>1, <1>2, <1>3, <2>1, EntryAdded DEF AddNew
<1>8. ASSUME NEW x \in Ids PROVE RecordSound(x)'
  <2>1. CASE x # id
    <3>1. rows'[x] = rows[x]
      BY <1>4, <2>1
    <3>2. dropped' \in Nat /\ dropped <= dropped'
      BY <1>1, <1>4 DEF TypeOK, End
    <3> QED
      BY <1>1, <1>2, <1>3, <1>4, <2>1, <3>1, <3>2, RecordKept
  <2>2. CASE x = id
    <3>1. tombs'[x] = None /\ wms'[x] = None
      BY <1>4, <2>2, FreshIsUnknown DEF AddNew
    <3>2. rows'[x] = r /\ r # None
      BY <1>1, <1>4, <2>2 DEF TypeOK
    <3>3. PICK n \in 1..End' : IsLast(n, x)' /\ log'[n] = e
      BY <1>2, <1>3, <2>2, LastWritten
    <3>4. After(log[n])' = r
      BY <1>3, <3>3 DEF After
    <3> QED
      BY <3>1, <3>2, <3>3, <3>4
      DEF RecordSound, TombstoneSound, WatermarkSound, RowExplained, DeathKept, Live
  <2> QED
    BY <2>1, <2>2
<1> QED
  BY <1>1, <1>5, <1>6, <1>7, <1>8, InvByRecordNext

LEMMA InvAddDuplicate ==
  ASSUME IInv, NEW id \in Ids, NEW r \in Row, NEW key \in Keys \cup {NoKey},
         AddDuplicate(id, r, key)
  PROVE  IInv'
<1> DEFINE e == Ev("observed", id, rows[id], None, key)
<1>1. /\ TypeOK /\ UniqueContent /\ OneEventPerEntry /\ TypeOK'
      /\ \A x \in Ids : RecordSound(x)
  BY InvByRecord, TypeAddDuplicate DEF Parts
<1>2. Writes(e) /\ Stamped
  BY <1>1, WritesAddDuplicate, WriteStamped
<1>3. /\ e.id = id /\ e.row = rows[id] /\ e.key = key
      /\ e.type = "observed" /\ e.type \notin Reconstructing
  BY DEF Ev, Reconstructing
<1>4. UNCHANGED <<rows, dropped, tombs, wms, meta, imported>>
  BY DEF AddDuplicate
<1> HIDE DEF e
<1>5. HistoryMarked'
  BY <1>2, <1>4, MarksKept
<1>6. UniqueContent'
  BY <1>1, <1>4 DEF UniqueContent, Live
<1>7. OneEventPerEntry'
  <2>1. r.ns \in Namespaces /\ AddRequest(r) \in Request /\ e.row.ns = r.ns
    BY <1>3, RequestsTyped DEF Row, AddDuplicate, Holders
  <2> QED
    BY <1>1, <1>2, <1>3, <2>1, EntryAdded DEF AddDuplicate
<1>8. ASSUME NEW x \in Ids PROVE RecordSound(x)'
  <2>1. dropped' \in Nat /\ dropped <= dropped'
    BY <1>1, <1>4 DEF TypeOK, End
  <2> QED
    BY <1>1, <1>2, <1>3, <1>4, <2>1, RecordKept
<1> QED
  BY <1>1, <1>5, <1>6, <1>7, <1>8, InvByRecordNext

\* A keyed update or delete runs only when its key is new in the namespace of
\* its record.
LEMMA KeyIsNew ==
  ASSUME NEW id, Live(id), NEW key, key = NoKey \/ FindOperation(id, key) = None
  PROVE  Remembered(rows[id].ns, key) = None
BY DEF Remembered, FindOperation, NsOf, Live

LEMMA InvUpdate ==
  ASSUME IInv, NEW id \in Ids, NEW r \in Row, NEW key \in Keys \cup {NoKey},
         NEW signal \in BOOLEAN, Update(id, r, key, signal)
  PROVE  IInv'
<1> DEFINE e == Ev("updated", id, r, rows[id], key)
<1>1. /\ TypeOK /\ UniqueContent /\ OneEventPerEntry /\ TypeOK'
      /\ \A x \in Ids : RecordSound(x)
  BY InvByRecord, TypeUpdate DEF Parts
<1>2. Writes(e) /\ Stamped
  BY <1>1, WritesUpdate, WriteStamped
<1>3. /\ e.id = id /\ e.row = r /\ e.key = key /\ e.hist = meta.hist
      /\ e.type = "updated" /\ e.type \in Reconstructing
  BY DEF Ev, Reconstructing
<1>4. /\ Live(id) /\ r.ns = rows[id].ns /\ Holders(r.ns, r.hash) \subseteq {id}
      /\ rows' = [rows EXCEPT ![id] = r] /\ tombs' = tombs
      /\ wms' = [wms EXCEPT ![id] = WatermarkOf(r)]
      /\ dropped' = dropped /\ meta' = meta /\ imported' = imported \ {id}
  BY DEF Update
<1> HIDE DEF e
<1>5. HistoryMarked'
  BY <1>2, <1>4, MarksKept
<1>6. UniqueContent'
  <2>1. \A x \in Ids \ {id} : Live(x) => rows[x].ns # r.ns \/ rows[x].hash # r.hash
    BY <1>4 DEF Holders, Live
  <2>2. rows'[id] = r /\ \A x \in Ids \ {id} : rows'[x] = rows[x]
    BY <1>1, <1>4 DEF TypeOK
  <2> QED
    BY <1>1, <2>1, <2>2 DEF UniqueContent, Live
<1>7. OneEventPerEntry'
  <2>1. /\ r.ns \in Namespaces /\ UpdateRequest(id, r) \in Request
        /\ Remembered(r.ns, key) = None
    BY <1>4, RequestsTyped, KeyIsNew DEF Row, Update
  <2> QED
    BY <1>1, <1>2, <1>3, <2>1, EntryAdded DEF Update
<1>8. ASSUME NEW x \in Ids PROVE RecordSound(x)'
  <2>1. CASE x # id
    <3>1. rows'[x] = rows[x] /\ wms'[x] = wms[x] /\ tombs'[x] = tombs[x]
      BY <1>4, <2>1
    <3>2. dropped' \in Nat /\ dropped <= dropped'
      BY <1>1, <1>4 DEF TypeOK, End
    <3>3. x \in imported => x \in imported'
      BY <1>4, <2>1
    <3> QED
      BY <1>1, <1>2, <1>3, <1>4, <2>1, <3>1, <3>2, <3>3, RecordKept
  <2>2. CASE x = id
    <3>1. tombs'[x] = None
      BY <1>1, <1>4, <2>2 DEF RecordSound, TombstoneSound
    <3>2. rows'[x] = r /\ r # None
      BY <1>1, <1>4, <2>2 DEF TypeOK
    <3>3. PICK n \in 1..End' : n = End + 1 /\ IsLast(n, x)' /\ log'[n] = e
      BY <1>2, <1>3, <2>2, LastWritten
    <3>4. After(log[n])' = r
      BY <1>3, <3>3 DEF After
    <3>5. /\ wms'[x].seq = n /\ wms'[x].hist = meta'.hist
          /\ wms'[x].fp = Fingerprint(r)
      BY <1>1, <1>4, <2>2, <3>3 DEF WatermarkOf, TypeOK
    <3>6. IsLast(wms[x].seq, x)' /\ log'[wms'[x].seq].row = r
      BY <1>3, <3>3, <3>5 DEF IsLast, Touches
    <3>7. WatermarkSound(x)'
      BY <3>2, <3>3, <3>5, <3>6 DEF WatermarkSound, Live, Fingerprint
    <3> QED
      BY <3>1, <3>2, <3>3, <3>4, <3>7
      DEF RecordSound, TombstoneSound, RowExplained, DeathKept, Live
  <2> QED
    BY <2>1, <2>2
<1> QED
  BY <1>1, <1>5, <1>6, <1>7, <1>8, InvByRecordNext

LEMMA InvDelete ==
  ASSUME IInv, NEW id \in Ids, NEW key \in Keys \cup {NoKey}, Delete(id, key)
  PROVE  IInv'
<1> DEFINE e == Ev("deleted", id, rows[id], None, key)
<1>1. /\ TypeOK /\ UniqueContent /\ OneEventPerEntry /\ TypeOK'
      /\ \A x \in Ids : RecordSound(x)
  BY InvByRecord, TypeDelete DEF Parts
<1>2. Writes(e) /\ Stamped
  BY <1>1, WritesDelete, WriteStamped
<1>3. /\ e.id = id /\ e.row = rows[id] /\ e.key = key /\ e.hist = meta.hist
      /\ e.type = "deleted" /\ e.type \in Reconstructing
  BY DEF Ev, Reconstructing
<1>4. /\ Live(id) /\ rows' = [rows EXCEPT ![id] = None]
      /\ tombs' = [tombs EXCEPT ![id] = TombstoneOf(rows[id])]
      /\ wms' = Forget(wms, {id})
      /\ dropped' = dropped /\ meta' = meta /\ imported' = imported \ {id}
  BY DEF Delete
<1> HIDE DEF e
<1>5. HistoryMarked'
  BY <1>2, <1>4, MarksKept
<1>6. UniqueContent'
  <2>1. ~Live(id)' /\ \A x \in Ids \ {id} : rows'[x] = rows[x]
    BY <1>1, <1>4 DEF TypeOK, Live
  <2> QED
    BY <1>1, <2>1 DEF UniqueContent, Live
<1>7. OneEventPerEntry'
  <2>1. /\ rows[id] \in Row /\ rows[id].ns \in Namespaces
        /\ DeleteRequest(id) \in Request
    BY <1>1, <1>4 DEF TypeOK, Live, Row, DeleteRequest, Request
  <2>2. Remembered(rows[id].ns, key) = None
    BY <1>4, KeyIsNew DEF Delete
  <2> QED
    BY <1>1, <1>2, <1>3, <2>1, <2>2, EntryAdded DEF Delete
<1>8. ASSUME NEW x \in Ids PROVE RecordSound(x)'
  <2>1. CASE x # id
    <3>1. rows'[x] = rows[x] /\ wms'[x] = wms[x] /\ tombs'[x] = tombs[x]
      BY <1>4, <2>1 DEF Forget
    <3>2. dropped' \in Nat /\ dropped <= dropped'
      BY <1>1, <1>4 DEF TypeOK, End
    <3>3. x \in imported => x \in imported'
      BY <1>4, <2>1
    <3> QED
      BY <1>1, <1>2, <1>3, <1>4, <2>1, <3>1, <3>2, <3>3, RecordKept
  <2>2. CASE x = id
    <3>1. rows'[x] = None /\ wms'[x] = None
      BY <1>1, <1>4, <2>2 DEF TypeOK, Forget
    <3>2. PICK n \in 1..End' : n = End + 1 /\ IsLast(n, x)' /\ log'[n] = e
      BY <1>2, <1>3, <2>2, LastWritten
    <3>3. After(log[n])' = None
      BY <1>3, <3>2 DEF After
    <3>4. tombs'[x] # None /\ tombs'[x].seq = n /\ tombs'[x].hist = meta'.hist
      <4>1. rows[id] \in Row
        BY <1>1, <1>4 DEF TypeOK, Live
      <4>2. TombstoneOf(rows[id]) # None
        BY <1>1, <4>1, MarksTyped
      <4> QED
        BY <1>1, <1>4, <2>2, <3>2, <4>2 DEF TombstoneOf, TypeOK
    <3>5. IsLast(tombs[x].seq, x)' /\ log'[tombs'[x].seq].type = "deleted"
      BY <1>3, <3>2, <3>4 DEF IsLast, Touches
    <3>6. TombstoneSound(x)'
      BY <3>1, <3>2, <3>4, <3>5 DEF TombstoneSound, Live
    <3>7. ASSUME NEW s \in 1..End', Touches(s, x)' PROVE s <= n
      BY <1>2, <3>2, <3>7, TouchedByWrite DEF Writes, Keeps
    <3>8. DeathKept(x)'
      BY <3>4, <3>7 DEF DeathKept, Retained
    <3> QED
      BY <3>1, <3>2, <3>3, <3>6, <3>8
      DEF RecordSound, WatermarkSound, RowExplained, Live
  <2> QED
    BY <2>1, <2>2
<1> QED
  BY <1>1, <1>5, <1>6, <1>7, <1>8, InvByRecordNext

\* A step that writes no record keeps what is known of every record.
LEMMA RecordsKept ==
  ASSUME IInv, OnlyObserves,
         UNCHANGED <<rows, tombs, wms, ledger, imported>>,
         meta'.hist = meta.hist, dropped' \in Nat, dropped <= dropped'
  PROVE  /\ UniqueContent' /\ OneEventPerEntry'
         /\ \A x \in Ids : RecordSound(x)'
<1>1. /\ TypeOK /\ UniqueContent /\ OneEventPerEntry
      /\ \A x \in Ids : RecordSound(x)
  BY InvByRecord DEF Parts
<1>2. UniqueContent'
  BY <1>1 DEF UniqueContent, Live
<1>3. OneEventPerEntry'
  BY <1>1, EntriesKept
<1>4. ASSUME NEW x \in Ids PROVE RecordSound(x)'
  <2>1. \E e : ~Writes(e) \/ Writes(e)
    OBVIOUS
  <2>2. PICK e : e = [id |-> None, type |-> "observed"]
    OBVIOUS
  <2>3. ~(e.id = x /\ e.type \in Reconstructing)
    BY <2>2 DEF Reconstructing
  <2> HIDE <2>2
  <2> QED
    BY <1>1, <2>3, RecordKept
<1> QED
  BY <1>2, <1>3, <1>4

LEMMA InvDropThrough ==
  ASSUME IInv, NEW k \in Retained, DropThrough(k),
         UNCHANGED <<rows, log, tombs, wms, ledger, imported>>
  PROVE  IInv'
<1>1. TypeOK /\ HistoryMarked /\ TypeOK'
  BY InvByRecord, TypeDropThrough DEF Parts
<1>2. OnlyObserves /\ Stamped
  BY <1>1, AppendsNothing DEF OnlyObserves, Quiet, Stamped
<1>3. /\ k \in 0..End /\ dropped < k /\ dropped \in Nat /\ meta.trimmed \in Nat
      /\ End \in Nat
  BY <1>1 DEF Retained, TypeOK, Meta, End
<1>4. dropped' = k /\ meta'.trimmed = Larger(meta.trimmed, k)
      /\ meta'.hist = meta.hist
  BY <1>1 DEF DropThrough, TypeOK, Meta
<1>5. /\ meta'.trimmed \in Nat /\ meta.trimmed <= meta'.trimmed
      /\ \A s \in 1..dropped' : s <= meta'.trimmed
  BY <1>3, <1>4 DEF Larger
<1>6. HistoryMarked'
  BY <1>1, <1>2, <1>3, <1>4, <1>5, HistoryKept
<1>7. dropped' \in Nat /\ dropped <= dropped'
  BY <1>3, <1>4
<1> QED
  BY <1>1, <1>2, <1>4, <1>6, <1>7, RecordsKept, InvByRecordNext

LEMMA InvHygiene ==
  ASSUME IInv, NEW warned \in Ids \cup {None}, Hygiene(warned)
  PROVE  IInv'
<1>1. TypeOK /\ HistoryMarked /\ TypeOK'
  BY InvByRecord, TypeHygiene DEF Parts
<1>2. OnlyObserves /\ Stamped
  BY <1>1, HygieneAppends DEF OnlyObserves, Quiet, Stamped
<1>3. dropped \in 0..End /\ dropped \in Nat /\ meta.trimmed \in Nat /\ End \in Nat
  BY <1>1 DEF TypeOK, Meta, End
<1>4. /\ Trims(warned) \/ UNCHANGED <<dropped, meta>>
      /\ UNCHANGED <<rows, tombs, wms, ledger, imported>>
  BY HygieneParts
<1>5. CASE UNCHANGED <<dropped, meta>>
  <2>1. HistoryMarked'
    BY <1>2, <1>5, MarksKept
  <2> QED
    BY <1>1, <1>2, <1>3, <1>4, <1>5, <2>1, RecordsKept, InvByRecordNext
<1>6. CASE Trims(warned)
  <2>1. Len(Audit(warned)) \in Nat
    BY <1>1, AuditTyped
  <2>2. /\ dropped' = Cut(warned) /\ Cut(warned) \in Nat /\ dropped < Cut(warned)
        /\ meta'.trimmed = Larger(meta.trimmed, Cut(warned))
        /\ meta'.hist = meta.hist
    BY <1>1, <1>3, <1>6, <2>1 DEF Trims, Cut, TypeOK, Meta
  <2>3. dropped' \in Nat /\ dropped <= dropped'
    BY <1>3, <2>2
  <2>4. /\ meta'.trimmed \in Nat /\ meta.trimmed <= meta'.trimmed
        /\ dropped' <= meta'.trimmed
    BY <1>3, <2>2 DEF Larger
  <2>5. HistoryMarked'
    BY <1>1, <1>2, <2>2, <2>3, <2>4, HistoryKept
  <2> QED
    BY <1>1, <1>2, <1>4, <2>2, <2>3, <2>5, RecordsKept, InvByRecordNext
<1> QED
  BY <1>4, <1>5, <1>6

LEMMA InvCompact ==
  ASSUME IInv, NEW through \in 0..MaxSeq, NEW acked \in 0..MaxSeq \cup {None},
         NEW ns \in Namespaces \cup {None}, NEW strict \in BOOLEAN,
         CompactTombstones(through, acked, ns, strict)
  PROVE  IInv'
<1>1. /\ TypeOK /\ UniqueContent /\ OneEventPerEntry /\ TypeOK'
      /\ \A x \in Ids : RecordSound(x)
  BY InvByRecord, TypeCompact DEF Parts
<1>2. PICK h \in CompactionHorizon(through, acked, strict), doomed \in SUBSET Ids :
        /\ tombs' = Forget(tombs, doomed)
        /\ meta' = [meta EXCEPT !.compacted = Larger(meta.compacted, h)]
        /\ \A x \in doomed :
             \A s \in Retained : s <= tombs[x].seq => log[s].id # x
  BY CompactEffect
<1>3. /\ UNCHANGED <<rows, log, dropped, wms, ledger, imported>>
      /\ meta'.hist = meta.hist /\ meta'.trimmed = meta.trimmed
  BY <1>1, <1>2 DEF CompactTombstones, TypeOK, Meta
<1>4. End' = End /\ Retained' = Retained
  BY <1>3 DEF End, Retained
<1>5. HistoryMarked'
  BY <1>3, <1>4, InvByRecord DEF Parts, HistoryMarked
<1>6. UniqueContent' /\ OneEventPerEntry'
  BY <1>1, <1>3, <1>4 DEF UniqueContent, OneEventPerEntry, Live
<1>7. ASSUME NEW x \in Ids PROVE RecordSound(x)'
  <2>1. \A s : /\ Touches(s, x)' <=> Touches(s, x)
               /\ IsLast(s, x)' <=> IsLast(s, x)
    BY <1>3, <1>4 DEF Touches, IsLast
  <2>2. tombs'[x] = tombs[x] \/ (x \in doomed /\ tombs'[x] = None)
    BY <1>2 DEF Forget
  <2>3. RecordSound(x)
    BY <1>1
  <2>4. WatermarkSound(x)' /\ RowExplained(x)'
    BY <1>3, <1>4, <2>1, <2>3
    DEF RecordSound, WatermarkSound, RowExplained, IsLast, Touches, Live, After
  <2>5. TombstoneSound(x)'
    BY <1>3, <1>4, <2>1, <2>2, <2>3
    DEF RecordSound, TombstoneSound, IsLast, Touches, Live
  <2>6. DeathKept(x)'
    <3> SUFFICES ASSUME x \notin imported, NEW s \in Retained, Touches(s, x),
                        log[s].hist = meta.hist, ~Live(x)
                 PROVE  tombs'[x] # None /\ tombs'[x].seq >= s
      BY <1>3, <1>4, <2>1 DEF DeathKept, Live
    <3>1. tombs[x] # None /\ tombs[x].seq >= s
      BY <2>3 DEF RecordSound, DeathKept
    <3>2. s <= tombs[x].seq
      BY <1>1, <3>1 DEF TypeOK, Tombstone, Retained, End
    <3> QED
      BY <1>2, <2>2, <3>1, <3>2 DEF Touches
  <2> QED
    BY <2>4, <2>5, <2>6 DEF RecordSound
<1> QED
  BY <1>1, <1>5, <1>6, <1>7, InvByRecordNext

LEMMA InvReplaceHistory ==
  ASSUME IInv, ReplaceHistory
  PROVE  IInv'
<1>1. /\ TypeOK /\ UniqueContent /\ OneEventPerEntry /\ TypeOK' /\ HistoryMarked
      /\ \A x \in Ids : RecordSound(x)
  BY InvByRecord, TypeReplaceHistory DEF Parts
<1>2. /\ UNCHANGED <<rows, log, dropped, ledger, imported>>
      /\ meta'.hist = meta.hist + 1 /\ meta.hist \in Nat
      /\ \A x \in Ids : tombs'[x] = None /\ wms'[x] = None
  BY <1>1 DEF ReplaceHistory, NextHistory, TypeOK, Meta
<1>3. End' = End /\ Retained' = Retained /\ dropped \in 0..End /\ End \in Nat
  BY <1>1, <1>2 DEF End, Retained, TypeOK
<1>4. ASSUME NEW s \in 1..End
      PROVE  log[s].hist <= meta'.hist /\ log[s].hist # meta'.hist
  <2>1. log[s].hist \in Nat
    <3>1. log[s] \in Event
      BY <1>1 DEF TypeOK, End
    <3> QED
      BY <3>1 DEF Event
  <2>2. log[s].hist <= meta.hist
    BY <1>1 DEF HistoryMarked
  <2>3. PICK n \in Nat : n = meta'.hist /\ n = meta.hist + 1
    BY <1>2
  <2>4. log[s].hist <= n /\ log[s].hist # n
    BY <1>2, <2>1, <2>2, <2>3
  <2> QED
    BY <2>3, <2>4
<1>5. HistoryMarked'
  <2>1. \A s \in 1..dropped : s \in 1..End
    BY <1>3
  <2> QED
    BY <1>2, <1>3, <1>4, <2>1 DEF HistoryMarked
<1>6. UniqueContent' /\ OneEventPerEntry'
  BY <1>1, <1>2, <1>3 DEF UniqueContent, OneEventPerEntry, Live
<1>7. ASSUME NEW x \in Ids PROVE RecordSound(x)'
  <2>1. \A s : IsLast(s, x)' <=> IsLast(s, x)
    BY <1>2, <1>3 DEF Touches, IsLast
  <2>2. RowExplained(x)'
    BY <1>1, <1>2, <1>3, <2>1
    DEF RecordSound, RowExplained, Touches, IsLast, Live, After
  <2>3. DeathKept(x)'
    BY <1>2, <1>3, <1>4 DEF DeathKept, Retained
  <2> QED
    BY <1>2, <2>2, <2>3 DEF RecordSound, TombstoneSound, WatermarkSound
<1> QED
  BY <1>1, <1>5, <1>6, <1>7, InvByRecordNext

LEMMA InvRestore ==
  ASSUME IInv, NEW id \in Ids, NEW r \in Row, Restore(id, r)
  PROVE  IInv'
<1>1. /\ TypeOK /\ UniqueContent /\ OneEventPerEntry /\ TypeOK' /\ HistoryMarked
      /\ \A x \in Ids : RecordSound(x)
  BY InvByRecord, TypeRestore DEF Parts
<1>2. OnlyObserves /\ Stamped
  BY <1>1, RestoreAppends DEF OnlyObserves, Quiet, Stamped
<1>3. /\ UNCHANGED <<dropped, ledger>>
      /\ meta'.hist = meta.hist /\ meta'.trimmed = meta.trimmed
      /\ meta.trimmed \in Nat /\ dropped \in Nat
      /\ tombs' = Forget(tombs, {id}) /\ wms' = Forget(wms, {id})
      /\ imported \subseteq imported' /\ id \in imported'
  BY <1>1 DEF Restore, TypeOK, Meta, End
<1>4. HistoryMarked'
  <2>1. meta.trimmed <= meta'.trimmed /\ dropped' \in Nat
        /\ \A s \in 1..dropped' : s <= dropped
    BY <1>3
  <2> QED
    BY <1>1, <1>2, <1>3, <2>1, HistoryKept
<1>5. OneEventPerEntry'
  BY <1>1, <1>2, <1>3, EntriesKept
<1>6. \* The rows: at most one is added, or one loses its annotations.
      \/ /\ \A y \in Ids \ {id} : rows'[y] = rows[y]
         /\ rows'[id] = rows[id] \/ (rows'[id] = r /\ Holders(r.ns, r.hash) = {})
      \/ \E x \in Ids :
           /\ \A y \in Ids \ {x} : rows'[y] = rows[y]
           /\ rows[x] # None /\ rows'[x] # None /\ x \in imported'
           /\ rows'[x].ns = rows[x].ns /\ rows'[x].hash = rows[x].hash
  <2>1. ASSUME NEW x \in Holders(r.ns, r.hash), NEW v \in Vals,
               rows' = [rows EXCEPT ![x].val = v], imported' = imported \cup {id, x}
        PROVE  /\ x \in Ids /\ x \in imported'
               /\ \A y \in Ids \ {x} : rows'[y] = rows[y]
               /\ rows[x] # None /\ rows'[x] # None
               /\ rows'[x].ns = rows[x].ns /\ rows'[x].hash = rows[x].hash
    <3>1. x \in Ids /\ rows[x] # None /\ rows[x] \in Row
      BY <1>1 DEF Holders, TypeOK
    <3>2. rows'[x] = [rows[x] EXCEPT !.val = v]
      BY <1>1, <2>1, <3>1 DEF TypeOK
    <3>3. rows'[x] \in Row
      BY <3>1, <3>2 DEF Row
    <3>4. rows'[x].ns = rows[x].ns /\ rows'[x].hash = rows[x].hash
      BY <3>1, <3>2 DEF Row
    <3> QED
      BY <1>1, <2>1, <3>1, <3>3, <3>4 DEF TypeOK
  <2>2. CASE rows' = [rows EXCEPT ![id] = r] /\ Holders(r.ns, r.hash) = {}
    BY <1>1, <2>2 DEF TypeOK
  <2>3. CASE rows' = rows
    BY <2>3
  <2> QED
    BY <2>1, <2>2, <2>3 DEF Restore
<1>7. UniqueContent'
  <2>1. CASE /\ \A y \in Ids \ {id} : rows'[y] = rows[y]
             /\ rows'[id] = rows[id] \/ (rows'[id] = r /\ Holders(r.ns, r.hash) = {})
    BY <1>1, <2>1 DEF UniqueContent, Live, Holders
  <2>2. ASSUME NEW x \in Ids,
               \A y \in Ids \ {x} : rows'[y] = rows[y],
               rows[x] # None, rows'[x] # None,
               rows'[x].ns = rows[x].ns, rows'[x].hash = rows[x].hash
        PROVE  UniqueContent'
    BY <1>1, <2>2 DEF UniqueContent, Live
  <2> QED
    BY <1>6, <2>1, <2>2
<1>8. ASSUME NEW y \in Ids PROVE RecordSound(y)'
  <2>1. CASE y = id
    <3>1. tombs'[y] = None /\ wms'[y] = None /\ y \in imported'
      BY <1>3, <2>1 DEF Forget
    <3> QED
      BY <3>1
      DEF RecordSound, TombstoneSound, WatermarkSound, RowExplained, DeathKept
  <2>2. CASE y # id
    <3>1. tombs'[y] = tombs[y] /\ wms'[y] = wms[y]
      BY <1>3, <2>2 DEF Forget
    <3>2. rows'[y] = rows[y] \/ (rows[y] # None /\ rows'[y] # None /\ y \in imported')
      BY <1>6, <2>2
    <3>3. dropped' \in Nat /\ dropped <= dropped' /\ (y \in imported => y \in imported')
      BY <1>3
    <3>4. PICK e : e = [id |-> None, type |-> "observed"]
      OBVIOUS
    <3>5. ~(e.id = y /\ e.type \in Reconstructing)
      BY <3>4 DEF Reconstructing
    <3> QED
      BY <1>1, <1>2, <1>3, <3>1, <3>2, <3>3, <3>5, RecordKept
  <2> QED
    BY <2>1, <2>2
<1> QED
  BY <1>1, <1>4, <1>5, <1>7, <1>8, InvByRecordNext

LEMMA InvStep == IInv /\ [Next]_storeVars => IInv'
<1> SUFFICES ASSUME IInv, [Next]_storeVars PROVE IInv'
  OBVIOUS
<1>1. NewRow \subseteq Row
  BY DEF NewRow
<1>2. CASE LocalWrite
  BY <1>1, <1>2, InvAddNew, InvAddDuplicate, InvUpdate, InvDelete
  DEF LocalWrite
<1>3. CASE Retention
  <2>1. ASSUME NEW n \in 1..(MaxSeq + 1), TrimBefore(n) \/ TrimByCount(n - 1)
        PROVE  IInv'
    BY <2>1, InvDropThrough DEF TrimBefore, TrimByCount
  <2> QED
    BY <1>3, <2>1, InvCompact, InvHygiene DEF Retention
<1>4. CASE ReplaceHistory
  BY <1>4, InvReplaceHistory
<1>5. CASE Import
  BY <1>5, InvRestore DEF Import
<1>6. CASE UNCHANGED storeVars
  <2>1. /\ End' = End /\ Retained' = Retained
        /\ UNCHANGED <<rows, log, dropped, tombs, wms, ledger, meta, imported>>
    BY <1>6 DEF storeVars, End, Retained
  <2>2. TypeOK' /\ MarksMatchLog' /\ TombstonesAreDead' /\ UniqueContent'
    BY <2>1 DEF IInv, TypeOK, MarksMatchLog, TombstonesAreDead, UniqueContent,
                Live, IsLast, Touches
  <2>3. /\ \A t, x : Touches(t, x)' <=> Touches(t, x)
        /\ \A t, x : IsLast(t, x)' <=> IsLast(t, x)
        /\ \A x : Live(x)' <=> Live(x)
    BY <2>1 DEF Touches, IsLast, Live
  <2>4. WatermarkCurrent' /\ DeadIdsKeepTombstone'
    BY <2>1, <2>3 DEF IInv, WatermarkCurrent, DeadIdsKeepTombstone
  <2>5. LogExplainsRows'
    BY <2>1, <2>3 DEF IInv, LogExplainsRows, After
  <2>6. OneEventPerEntry'
    BY <2>1, EntriesKept, AppendsNothing DEF IInv
  <2> QED
    BY <2>2, <2>4, <2>5, <2>6 DEF IInv
<1> QED
  BY <1>2, <1>3, <1>4, <1>5, <1>6 DEF Next

THEOREM InvAlways == Spec => []IInv
BY InvInit, InvStep, PTL DEF Spec

-----------------------------------------------------------------------------
(* What the invariant gives.                                               *)

\* No record is both live and tombstoned (delete_memory_record writes the
\* tombstone in the transaction that removes the row; restore clears it), and
\* replace_history leaves no tombstone of an earlier history behind.
THEOREM TombstonesAlwaysDead == Spec => []TombstonesAreDead
<1>1. IInv => TombstonesAreDead
  BY DEF IInv
<1> QED
  BY <1>1, InvAlways, PTL

\* Retention and history marks always agree with the log.
THEOREM MarksAlwaysMatch == Spec => []MarksMatchLog
<1>1. IInv => MarksMatchLog
  BY DEF IInv
<1> QED
  BY <1>1, InvAlways, PTL

\* No sequence of adds, updates, deletes and restores leaves one content
\* twice in a namespace.
THEOREM ContentAlwaysUnique == Spec => []UniqueContent
<1>1. IInv => UniqueContent
  BY DEF IInv
<1> QED
  BY <1>1, InvAlways, PTL

\* A replay watermark always names the last event about its live record.
THEOREM WatermarksAlwaysCurrent == Spec => []WatermarkCurrent
<1>1. IInv => WatermarkCurrent
  BY DEF IInv
<1> QED
  BY <1>1, InvAlways, PTL

\* The rows are always what the log says they are.
THEOREM LogAlwaysExplains == Spec => []LogExplainsRows
<1>1. IInv => LogExplainsRows
  BY DEF IInv
<1> QED
  BY <1>1, InvAlways, PTL

\* Compaction never drops a tombstone a retained event could undo.
THEOREM CompactionSafe == Spec => []DeadIdsKeepTombstone
<1>1. IInv => DeadIdsKeepTombstone
  BY DEF IInv
<1> QED
  BY <1>1, InvAlways, PTL

\* A recorded key always stands for exactly one event.
THEOREM LedgerMatchesLog == Spec => []OneEventPerEntry
<1>1. IInv => OneEventPerEntry
  BY DEF IInv
<1> QED
  BY <1>1, InvAlways, PTL

LEMMA AcceptsReach ==
  ASSUME TypeOK, NEW c \in 0..End, Accepts(c)
  PROVE  meta.trimmed <= c
<1>1. /\ meta.trimmed \in Nat /\ meta.lastHead \in Nat /\ End \in Nat
      /\ MaxPresent \in Nat
  BY DEF TypeOK, Meta, End, MaxPresent
<1>2. HeadSeq = 0 => meta.trimmed = 0
  BY <1>1 DEF HeadSeq, Larger
<1> QED
  BY <1>1, <1>2 DEF Accepts

LEMMA WindowIntact == ASSUME IInv PROVE CursorWindowIntact
<1> SUFFICES ASSUME NEW c \in 0..End, Accepts(c), NEW s \in (c + 1)..dropped
             PROVE  log[s].hist # meta.hist
  BY DEF CursorWindowIntact
<1>1. meta.trimmed <= c /\ meta.trimmed \in Nat /\ dropped \in 0..End
  BY AcceptsReach DEF IInv, TypeOK, Meta
<1>2. s \in 1..dropped /\ ~(s <= meta.trimmed)
  BY <1>1
<1> QED
  BY <1>2 DEF IInv, MarksMatchLog

\* A cursor the store accepts sees every later event of its history: no trim,
\* hygiene pass, restore or replaced history opens a gap behind it.
THEOREM CursorWindowAlwaysIntact == Spec => []CursorWindowIntact
BY WindowIntact, InvAlways, PTL

-----------------------------------------------------------------------------
(* Refused cursors.                                                        *)

\* Within one history the marks only grow.
Monotone ==
  /\ meta.trimmed <= meta'.trimmed /\ meta.compacted <= meta'.compacted
  /\ dropped <= dropped' /\ End <= End'
  /\ meta'.trimmed \in Nat /\ meta'.lastHead \in Nat /\ meta'.compacted \in Nat
  /\ dropped' \in Nat /\ End' \in Nat

LEMMA StepMonotone ==
  ASSUME TypeOK, TypeOK', [Next]_storeVars, meta'.hist = meta.hist
  PROVE  Monotone
<1>1. /\ meta.trimmed \in Nat /\ meta.lastHead \in Nat /\ meta.compacted \in Nat
      /\ meta.hist \in Nat /\ dropped \in 0..End /\ End \in Nat
  BY DEF TypeOK, Meta, End
<1>2. /\ meta'.trimmed \in Nat /\ meta'.lastHead \in Nat /\ meta'.compacted \in Nat
      /\ dropped' \in Nat /\ End' \in Nat
  BY DEF TypeOK, Meta, End
<1>3. End <= End'
  <2>1. CASE Next
    BY <2>1, StepAppends DEF Stamped, Keeps
  <2>2. CASE UNCHANGED storeVars
    BY <1>1, <2>2 DEF storeVars, End
  <2> QED
    BY <2>1, <2>2
<1>4. /\ meta.trimmed <= meta'.trimmed /\ meta.compacted <= meta'.compacted
      /\ dropped <= dropped'
  <2>1. CASE UNCHANGED <<dropped, meta>>
    BY <1>1, <2>1
  <2>2. ASSUME NEW k \in Retained, DropThrough(k)
        PROVE  /\ meta.trimmed <= meta'.trimmed /\ meta.compacted <= meta'.compacted
               /\ dropped <= dropped'
    <3>1. dropped < k /\ k \in Nat /\ dropped \in Nat /\ dropped' = k
      BY <1>1, <2>2 DEF Retained, DropThrough
    <3>2. /\ meta'.trimmed = Larger(meta.trimmed, k)
          /\ meta'.compacted = meta.compacted
      BY <2>2 DEF DropThrough, TypeOK, Meta
    <3> QED
      BY <1>1, <3>1, <3>2 DEF Larger
  <2>3. ASSUME NEW warned \in Ids \cup {None}, Hygiene(warned)
        PROVE  /\ meta.trimmed <= meta'.trimmed /\ meta.compacted <= meta'.compacted
               /\ dropped <= dropped'
    <3>1. CASE Trims(warned)
      <4>1. /\ dropped' = Cut(warned) /\ Cut(warned) \in Int
            /\ dropped < Cut(warned)
            /\ meta'.trimmed = Larger(meta.trimmed, Cut(warned))
            /\ meta'.compacted = meta.compacted
        BY <1>1, <3>1, AuditTyped DEF Trims, Cut, TypeOK, Meta
      <4> QED
        BY <1>1, <4>1 DEF Larger
    <3> QED
      BY <2>1, <2>3, <3>1, HygieneParts
  <2>4. ASSUME NEW through \in 0..MaxSeq, NEW acked \in 0..MaxSeq \cup {None},
               NEW ns \in Namespaces \cup {None}, NEW strict \in BOOLEAN,
               CompactTombstones(through, acked, ns, strict)
        PROVE  /\ meta.trimmed <= meta'.trimmed /\ meta.compacted <= meta'.compacted
               /\ dropped <= dropped'
    <3>1. PICK h \in CompactionHorizon(through, acked, strict) :
            meta' = [meta EXCEPT !.compacted = Larger(meta.compacted, h)]
      BY <2>4, CompactEffect
    <3>2. h \in Nat
      BY HorizonBounds
    <3>3. /\ meta'.trimmed = meta.trimmed
          /\ meta'.compacted = Larger(meta.compacted, h)
          /\ dropped' = dropped
      BY <2>4, <3>1 DEF TypeOK, Meta, CompactTombstones
    <3> QED
      BY <1>1, <3>2, <3>3 DEF Larger
  <2>5. CASE Import
    <3>1. dropped' = dropped /\ meta' = [meta EXCEPT !.epoch = 0]
      BY <2>5 DEF Import, Restore
    <3>2. meta'.trimmed = meta.trimmed /\ meta'.compacted = meta.compacted
      BY <3>1 DEF TypeOK, Meta
    <3> QED
      BY <1>1, <3>1, <3>2
  <2>6. CASE LocalWrite
    <3>1. ASSUME NEW id, NEW r, NEW key, NEW signal,
                 \/ AddNew(id, r, key) \/ AddDuplicate(id, r, key)
                 \/ Update(id, r, key, signal) \/ Delete(id, key)
          PROVE  dropped' = dropped /\ meta' = meta
      BY <3>1, Zenon DEF AddNew, AddDuplicate, Update, Delete
    <3>2. dropped' = dropped /\ meta' = meta
      BY <2>6, <3>1, Zenon DEF LocalWrite
    <3> QED
      BY <2>1, <3>2
  <2>7. ~ReplaceHistory
    BY <1>1 DEF ReplaceHistory, NextHistory
  <2>8. CASE Retention
    <3>1. ASSUME NEW n \in 1..(MaxSeq + 1), TrimBefore(n) \/ TrimByCount(n - 1)
          PROVE  \E k \in Retained : DropThrough(k)
      BY <3>1 DEF TrimBefore, TrimByCount
    <3>2. CASE \E n \in 1..(MaxSeq + 1) : TrimBefore(n) \/ TrimByCount(n - 1)
      BY <2>2, <3>1, <3>2
    <3> QED
      BY <2>3, <2>4, <2>8, <3>2 DEF Retention
  <2>9. CASE UNCHANGED storeVars
    BY <2>1, <2>9 DEF storeVars
  <2> QED
    BY <2>5, <2>6, <2>7, <2>8, <2>9 DEF Next
<1> QED
  BY <1>2, <1>3, <1>4 DEF Monotone

\* How a store refuses a cursor that is not ahead of its log.
LEMMA Refusals ==
  ASSUME TypeOK, NEW c \in 0..End
  PROVE  ~Accepts(c) <=> \/ c < meta.compacted
                         \/ c < meta.trimmed
                         \/ c > 0 /\ c <= dropped
<1>1. /\ meta.trimmed \in Nat /\ meta.lastHead \in Nat /\ meta.compacted \in Nat
      /\ dropped \in 0..End /\ End \in Nat /\ MaxPresent \in Nat
      /\ dropped < End => MaxPresent = End
      /\ dropped = End => MaxPresent = 0
  BY DEF TypeOK, Meta, End, MaxPresent
<1>2. /\ HeadSeq = 0 => meta.trimmed = 0 /\ MaxPresent = 0
      /\ HeadSeq \in Nat
  BY <1>1 DEF HeadSeq, Larger
<1>3. CASE HeadSeq = 0
  BY <1>1, <1>2, <1>3 DEF Accepts
<1>4. CASE HeadSeq # 0
  BY <1>1, <1>2, <1>4 DEF Accepts
<1> QED
  BY <1>3, <1>4

Stale(c) ==
  c < meta.compacted \/ c < meta.trimmed \/ (c > 0 /\ c <= dropped)
RefusalRule == TypeOK => \A c \in 0..End : ~Accepts(c) <=> Stale(c)

LEMMA RefusalsAlways == RefusalRule
BY Refusals DEF RefusalRule, Stale

LEMMA RefusalsNext == RefusalRule'
BY RefusalsAlways, PTL

\* A cursor refused as stale stays refused for the rest of its history.
THEOREM StaleForGood == Spec => StaleCursorStaysStale
<1>1. TypeOK /\ TypeOK' /\ [Next]_storeVars
        => [meta'.hist = meta.hist =>
              \A c \in 0..End : ~Accepts(c) => ~Accepts(c)']_storeVars
  <2> SUFFICES ASSUME TypeOK, TypeOK', [Next]_storeVars, meta'.hist = meta.hist,
                      NEW c \in 0..End, ~Accepts(c)
               PROVE  ~Accepts(c)'
    OBVIOUS
  <2>1. Monotone
    BY StepMonotone
  <2>2. /\ meta.trimmed \in Nat /\ meta.compacted \in Nat /\ dropped \in Nat
        /\ End \in Nat
    BY DEF TypeOK, Meta, End
  <2>3. c \in 0..End'
    BY <2>1, <2>2 DEF Monotone
  <2>4. c < meta.compacted \/ c < meta.trimmed \/ (c > 0 /\ c <= dropped)
    BY Refusals
  <2>5. c < meta'.compacted \/ c < meta'.trimmed \/ (c > 0 /\ c <= dropped')
    BY <2>1, <2>2, <2>4 DEF Monotone
  <2> QED
    BY <2>3, <2>5, RefusalsNext DEF RefusalRule, Stale
<1> QED
  BY <1>1, StoreTyped, PTL DEF Spec, StaleCursorStaysStale

-----------------------------------------------------------------------------
(* Retries.                                                                *)

\* A keyed operation whose ledger entry names its record is found again: by
\* the namespace the record is known in, or else by the entries about it.
LEMMA EntryIsFound ==
  ASSUME NEW ns \in Namespaces, NEW key \in Keys, ledger[<<ns, key>>] # None
  PROVE  FindOperation(ledger[<<ns, key>>].id, key) # None
<1> DEFINE id == ledger[<<ns, key>>].id
           byMemory == {n \in Namespaces : /\ Remembered(n, key) # None
                                           /\ Remembered(n, key).id = id}
<1>1. Remembered(ns, key) = ledger[<<ns, key>>]
  BY DEF Remembered
<1>2. ns \in byMemory
  BY <1>1
<1>3. PICK n \in Namespaces : n = CHOOSE m \in byMemory : TRUE
  BY <1>2
<1>4. Remembered(CHOOSE m \in byMemory : TRUE, key) # None
  BY <1>2
<1> QED
  BY <1>2, <1>4 DEF FindOperation

\* A retry of a recorded update or delete never executes again, whatever was
\* deleted, compacted, restored or replaced since.
THEOREM RetriesNeverExecute == Spec => []RetryNeverExecutes
<1>1. RetryNeverExecutes
  BY EntryIsFound DEF RetryNeverExecutes, Answer
<1> QED
  BY <1>1, PTL

-----------------------------------------------------------------------------
(* PART TWO: cursor replay.                                                *)

-----------------------------------------------------------------------------
(* What is assumed.                                                        *)

\* No retention, no write of the target and none between the two reads of an
\* export while a run or an export is under way; no base from before; and
\* callers' own cursors only where no package is about, packages only where
\* cursors are for all namespaces.
Undisturbed ==
  /\ DuringRun = {} /\ SharedBase = FALSE
  /\ MaxPackages = 0 \/ (AnyCursor = FALSE /\ Scope = None)

-----------------------------------------------------------------------------
(* The source.                                                             *)

Ordered == \A s, t \in 1..End : s <= t => log[s].hist <= log[t].hist

\* An id is never drawn twice.
DeletedForGood ==
  \A x \in Ids, s \in 1..End :
    Touches(s, x) /\ log[s].type = "deleted" =>
      \A t \in (s + 1)..End : ~Touches(t, x)

OneNamespace ==
  \A x \in Ids, s, t \in 1..End :
    Touches(s, x) /\ Touches(t, x) => NsAt(s) = NsAt(t)

\* The epoch mark separates the histories in what can be read.
EpochMarks ==
  /\ meta.epoch \in 0..End
  /\ \A s \in 1..meta.epoch : log[s].hist < meta.hist
  /\ \A s \in Retained : log[s].hist < meta.hist => s <= meta.epoch
  /\ meta.lastHead > 0 => meta.trimmed > 0

\* A reconstructing event says of whom, and what its record came to.
WellFormed ==
  \A s \in 1..End : log[s].type \in Reconstructing =>
    log[s].id \in Ids /\ log[s].row \in Row

SourceInv ==
  /\ IInv /\ imported = {}
  /\ Ordered /\ DeletedForGood /\ OneNamespace /\ EpochMarks /\ WellFormed

-----------------------------------------------------------------------------
(* Packages.                                                               *)

UniqueIn(rs) == \A x, y \in Ids : rs[x] # None /\ rs[y] # None
                  /\ rs[x].ns = rs[y].ns /\ rs[x].hash = rs[y].hash => x = y

PackageSound(package) ==
  /\ UniqueIn(package.rows)
  /\ package.hist <= meta.hist /\ package.through \in 0..End
  /\ SameRecords(package.rows, State(0, package.through))
  /\ Epoch(package.hist) <= package.through
  /\ package.cursor # None =>
       /\ package.cursor.hist = package.hist
       /\ package.cursor.seq <= package.through
       /\ package.hist = meta.hist =>
            \A s \in Retained : package.cursor.seq < s => package.through < s
  /\ package.cursor = None => package.hist < meta.hist \/ meta.trimmed > 0

PackagesInv ==
  /\ \A package \in packages : PackageSound(package)
  /\ exporting # None => exporting.rows = rows /\ exporting.through = End
  /\ MaxPackages = 0 => packages = {} /\ exporting = None

-----------------------------------------------------------------------------
(* The clone between runs.                                                 *)

\* What a run finds of a record it has not changed yet.
HeldBy(c) == [rows |-> c.rows, tombs |-> c.tombs, wms |-> c.wms, mutated |-> {}]
Held == HeldBy(clone)

Shown(s) == log[s].type \in Reconstructing /\ InScope(s)

\* What a later run reads again, it skips.
Rereads(c, s) ==
  /\ s \in Retained /\ Shown(s) /\ log[s].hist = meta.hist
  /\ s <= c.seen /\ c.source = meta.hist
  /\ AnyCursor = TRUE \/ c.saved.seq < s

Shows(c, p) ==
  /\ SameRecords(c.rows, State(p, c.seen))
  /\ p = 0 => Epoch(c.source) <= c.seen

Following(c) ==
  /\ c.source \in 0..meta.hist /\ c.seen \in 0..End
  /\ \E p \in {0, Epoch(c.source)} : Shows(c, p)
  /\ c.saved # None =>
       /\ c.saved.hist = c.source /\ c.saved.seq <= c.seen
       /\ \A s \in 1..End : Rereads(c, s) =>
            AnyCursor = TRUE /\ Skips(HeldBy(c), s, meta.hist)
  /\ c.saved = None =>
       /\ AnyCursor = FALSE
       /\ c.source < meta.hist \/ meta.trimmed > 0
  /\ \A x \in Ids :
       /\ c.tombs[x] # None => c.tombs[x].seq <= c.seen
       /\ c.wms[x] # None => c.wms[x].seq <= c.seen

CloneHolds(c) ==
  /\ UniqueIn(c.rows)
  /\ c.dirty = TRUE => c.events = TRUE
  /\ AnyCursor = TRUE /\ c.events = TRUE => c.dirty = TRUE
  /\ c.bound = (c.source # None)
  /\ c.source = None => c.saved = None /\ c.base = None /\ c.seen = 0
  /\ c.source = None /\ c.dirty = FALSE =>
       \A x \in Ids : c.tombs[x] = None /\ c.wms[x] = None
  /\ c.source # None /\ c.dirty = FALSE =>
       /\ c.base # None /\ c.base \subseteq LiveRows(c.rows)
       /\ c.base = LiveRows(c.rows) => Following(c)

CloneInv == \A c \in Clone : c = clone => CloneHolds(c)

-----------------------------------------------------------------------------
(* What the events planned so far make of the clone.                       *)

Latest(S) == CHOOSE t \in S : \A u \in S : u <= t
About(plan, x) == {t \in plan : log[t].id = x}
Ends(plan, x) == {t \in About(plan, x) : log[t].type = "deleted"}
Changed(plan) == {log[t].id : t \in plan}

RowBy(plan, x) == IF About(plan, x) = {} THEN clone.rows[x]
                  ELSE After(log[Latest(About(plan, x))])
TombBy(plan, x) ==
  IF Ends(plan, x) = {} THEN clone.tombs[x]
  ELSE LET t == Latest(Ends(plan, x))
       IN  [ns |-> log[t].row.ns, seq |-> t, hist |-> log[t].hist]
WmBy(plan, x) ==
  LET t == Latest(About(plan, x))
  IN  IF About(plan, x) = {} THEN clone.wms[x]
      ELSE IF log[t].type = "deleted" THEN None
      ELSE [fp |-> Fingerprint(log[t].row), seq |-> t, hist |-> log[t].hist]

RowsBy(plan) == [x \in Ids |-> RowBy(plan, x)]
TablesBy(plan) == [rows |-> RowsBy(plan), tombs |-> [x \in Ids |-> TombBy(plan, x)],
                   wms |-> [x \in Ids |-> WmBy(plan, x)]]

Before(plan, q) == {t \in plan : t < q}
UpThrough(plan, q) == {t \in plan : t <= q}

\* Rows on which the event can be applied.
Fits(rs, t) ==
  LET e == log[t]
  IN  /\ e.type = "created" => rs[e.id] = None /\ HolderIn(rs, e.row) = {}
      /\ e.type = "updated" => rs[e.id] # None /\ HolderIn(rs, e.row) \subseteq {e.id}

\* The events of the scope that a run from one to another event reads.
Window(from, to) == {s \in Retained : from < s /\ s <= to /\ Shown(s)}

\* The event is planned, or later ones of its record are, or it was skipped.
Settled(plan, s) ==
  LET x == log[s].id
  IN  \/ \E t \in About(plan, x) : s <= t
      \/ /\ About(plan, x) # {}
         /\ RowBy(plan, x) # None /\ log[s].type # "deleted"
         /\ Fingerprint(RowBy(plan, x)) = Declared(s)
      \/ About(plan, x) = {} /\ Skips(Held, s, meta.hist)

\* A row of the clone that shares its content with an event read.
Accounted(plan, s) ==
  \A x \in Ids :
    About(plan, x) = {} /\ clone.rows[x] # None
      /\ clone.rows[x].ns = log[s].row.ns
      /\ clone.rows[x].hash = log[s].row.hash
    => log[s].id = x

PlanSound(plan, from, to) ==
  /\ plan \subseteq Window(from, to)
  /\ \A t \in plan : clone.seen < t /\ clone.tombs[log[t].id] = None
  /\ UniqueIn(RowsBy(plan))
  /\ \A t \in plan : Fits(RowsBy(Before(plan, t)), t)
  /\ \A s \in Window(from, to) : Settled(plan, s)
  /\ clone.source = None => \A s \in Window(from, to) : Accounted(plan, s)

\* The simulated clone holds what the plan makes of the rows it has loaded.
SimIs(sim) ==
  /\ sim.failed = FALSE
  /\ sim.mutated = Changed(sim.plan) /\ sim.mutated \subseteq sim.loaded
  /\ \A x \in sim.loaded : sim.rows[x] = RowBy(sim.plan, x)
  /\ \A x \in sim.loaded \ sim.mutated :
       sim.tombs[x] = clone.tombs[x] /\ sim.wms[x] = clone.wms[x]

-----------------------------------------------------------------------------
(* A run.                                                                  *)

RunBegun(r) ==
  /\ clone.dirty = FALSE /\ clone.source \in {None, meta.hist}
  /\ clone.source = None => clone.events = FALSE
  /\ clone.source # None => clone.saved # None /\ clone.base = LiveRows(clone.rows)
  /\ r.cursor.hist = meta.hist
  /\ clone.saved # None /\ AnyCursor = FALSE => clone.saved.seq <= r.start
  /\ meta.epoch <= r.start
  /\ \A s \in 1..End : clone.seen < s /\ log[s].hist = meta.hist
                         => s \in Retained /\ r.start < s
  /\ r.start <= r.last /\ r.last <= End
  /\ PlanSound(r.sim.plan, r.start, r.last)

\* Every row of a clone that follows nothing has an event of its own.
NoneForeign(r) ==
  clone.source = None =>
    \A x \in Ids : clone.rows[x] # None =>
      \E s \in Window(r.start, r.last) : log[s].id = x

RunHolds(r) ==
  /\ RunBegun(r)
  /\ r.phase = "scan" => r.at = r.last /\ r.staged = None /\ SimIs(r.sim)
  /\ r.phase = "apply" =>
       /\ NoneForeign(r)
       /\ r.at \in 0..End
       /\ r.staged = None => r.at = r.start
       /\ r.staged # None => r.staged = TablesBy(UpThrough(r.sim.plan, r.at))

RunInv == \A r \in Run : r = run => RunHolds(r)

ReplayInv == SourceInv /\ PackagesInv /\ CloneInv /\ RunInv

-----------------------------------------------------------------------------
(* Numbers.                                                                *)

LEMMA LeastOf ==
  ASSUME NEW T \in SUBSET Nat, T # {} PROVE \E m \in T : \A i \in T : m <= i
<1>1. PICK m \in T : \A i \in T : <<i, m>> \notin OpToRel(<, Nat)
  BY NatLessThanWellFounded, WFMin
<1>2. \A i \in T : ~(i < m)
  BY <1>1 DEF OpToRel
<1> QED  BY <1>2

\* Induction up to a bound.
LEMMA UpTo ==
  ASSUME NEW n \in Nat, NEW S, 0 \in S, \A s \in 1..n : s - 1 \in S => s \in S
  PROVE  0..n \subseteq S
<1> DEFINE T == {s \in 0..n : s \notin S}
<1> SUFFICES ASSUME T # {} PROVE FALSE
  OBVIOUS
<1>1. PICK m \in T : \A i \in T : m <= i
  BY LeastOf, T \in SUBSET Nat
<1>2. m # 0 /\ m \in 1..n /\ m - 1 \in 0..n /\ m - 1 < m
  OBVIOUS
<1>3. m - 1 \in S
  BY <1>1, <1>2
<1> QED  BY <1>2, <1>3

\* A set of numbers with a bound has a latest one.
LEMMA LatestOf ==
  ASSUME NEW n \in Nat, NEW T \in SUBSET (0..n), T # {}
  PROVE  Latest(T) \in T /\ \A t \in T : t <= Latest(T)
<1> DEFINE U == {i \in 0..n : n - i \in T}
<1>1. ASSUME NEW t \in T PROVE \E i \in U : i = n - t
  <2>1. PICK i \in 0..n : i = n - t
    OBVIOUS
  <2>2. n - i = t
    BY <2>1
  <2> QED  BY <2>1, <2>2
<1>2. PICK m \in U : \A i \in U : m <= i
  <2>1. U # {}
    BY <1>1
  <2>2. U \in SUBSET Nat
    OBVIOUS
  <2> HIDE DEF U
  <2> QED  BY <2>1, <2>2, LeastOf
<1>3. ASSUME NEW t \in T PROVE t <= n - m
  BY <1>1, <1>2
<1>4. \E t \in T : \A u \in T : u <= t
  BY <1>2, <1>3
<1> QED  BY <1>4 DEF Latest

\* What nothing in a set comes after is its latest.
LEMMA LatestIs ==
  ASSUME NEW T \in SUBSET Nat, NEW t \in T, \A u \in T : u <= t
  PROVE  Latest(T) = t
<1>1. Latest(T) \in T /\ \A u \in T : u <= Latest(T)
  BY DEF Latest
<1>2. Latest(T) \in Nat /\ t \in Nat
  BY <1>1
<1> QED  BY <1>1, <1>2

\* The numbers of a set that has all smaller ones are counted by the last.
LEMMA PrefixCounted ==
  ASSUME NEW n \in Nat, NEW T \in SUBSET (1..n),
         \A s \in T : 1..s \subseteq T
  PROVE  Cardinality(T) \in 0..n /\ T = 1..Cardinality(T)
<1>1. CASE T = {}
  BY <1>1, FS_EmptySet
<1>2. CASE T # {}
  <2>1. Latest(T) \in T /\ \A t \in T : t <= Latest(T)
    <3>1. T \in SUBSET (0..n)
      OBVIOUS
    <3> QED  BY <1>2, <3>1, LatestOf
  <2>2. Latest(T) \in 1..n /\ \A t \in T : t \in 1..n /\ t <= Latest(T)
    BY <2>1
  <2>3. T = 1..Latest(T)
    <3>1. \A t \in T : t \in 1..Latest(T)
      BY <2>2
    <3>2. 1..Latest(T) \subseteq T
      BY <2>1
    <3> QED  BY <3>1, <3>2
  <2>4. Cardinality(1..Latest(T)) = Latest(T)
    BY <2>2, FS_Interval
  <2> QED  BY <2>2, <2>3, <2>4
<1> QED  BY <1>1, <1>2

-----------------------------------------------------------------------------
(* The first events of a set of events.                                    *)

LEMMA Counted ==
  ASSUME NEW n \in Nat, NEW S \in SUBSET (0..n)
  PROVE  IsFiniteSet(S) /\ Cardinality(S) \in Nat
<1>1. IsFiniteSet(0..n)
  BY FS_Interval
<1>2. IsFiniteSet(S)
  BY <1>1, FS_Subset
<1> QED  BY <1>2, FS_CardinalityType

\* What comes before one of the first is one of the first.
LEMMA FirstIsPrefix ==
  ASSUME NEW n \in Nat, NEW S \in SUBSET (0..n), NEW k \in Int,
         NEW s \in First(S, k), NEW t \in S, t <= s
  PROVE  t \in First(S, k)
<1> DEFINE upto(q) == {u \in S : u <= q}
<1>1. upto(s) \in SUBSET (0..n) /\ upto(t) \subseteq upto(s) /\ upto(t) \in SUBSET (0..n)
  <2>1. s \in Int /\ t \in Int /\ \A u \in S : u \in 0..n
    BY DEF First
  <2>2. \A u \in upto(t) : u <= s
    BY <2>1
  <2> QED  BY <2>1, <2>2
<1>2. Cardinality(upto(t)) <= Cardinality(upto(s))
  BY <1>1, Counted, FS_Subset
<1>3. Cardinality(upto(t)) \in Nat /\ Cardinality(upto(s)) \in Nat
  BY <1>1, Counted
<1>4. Cardinality(upto(s)) <= k
  BY DEF First
<1>5. Cardinality(upto(t)) <= k
  BY <1>2, <1>3, <1>4
<1> QED  BY <1>5 DEF First

\* Fewer than asked for are all there are.
LEMMA FewerAreAll ==
  ASSUME NEW n \in Nat, NEW S \in SUBSET (0..n), NEW k \in Int,
         Cardinality(First(S, k)) < k
  PROVE  First(S, k) = S
<1> DEFINE F == First(S, k)
           out == S \ F
           upto(q) == {u \in S : u <= q}
<1>1. F \in SUBSET (0..n) /\ F \subseteq S
  BY DEF First
<1> SUFFICES ASSUME out # {} PROVE FALSE
  BY <1>1
<1>2. PICK m \in out : \A i \in out : m <= i
  <2>1. \A i \in S : i \in Nat
    OBVIOUS
  <2>2. out \in SUBSET Nat
    BY <2>1
  <2> HIDE DEF out
  <2> QED  BY <2>2, LeastOf
<1>3. upto(m) \subseteq F \cup {m}
  <2>1. ASSUME NEW u \in upto(m), u # m PROVE u \in F
    BY <1>2, <2>1
  <2> QED  BY <2>1
<1>4. /\ IsFiniteSet(F) /\ Cardinality(F) \in Nat
      /\ IsFiniteSet(F \cup {m}) /\ Cardinality(F \cup {m}) = Cardinality(F) + 1
  <2>1. IsFiniteSet(F) /\ Cardinality(F) \in Nat
    BY <1>1, Counted
  <2>2. m \notin F
    BY <1>2
  <2> HIDE DEF F
  <2> QED  BY <2>1, <2>2, FS_AddElement
<1>5. Cardinality(upto(m)) <= Cardinality(F) + 1 /\ Cardinality(upto(m)) \in Nat
  <2>1. upto(m) \in SUBSET (0..n)
    OBVIOUS
  <2> HIDE DEF F, upto
  <2>2. Cardinality(upto(m)) \in Nat
    BY <2>1, Counted
  <2>3. Cardinality(upto(m)) <= Cardinality(F \cup {m})
    BY <1>3, <1>4, FS_Subset
  <2> QED  BY <1>4, <2>2, <2>3
<1>6. Cardinality(upto(m)) <= k
  BY <1>4, <1>5
<1> QED  BY <1>2, <1>6 DEF First

-----------------------------------------------------------------------------
(* What a step of the source appends.                                      *)

\* What may be appended about a record.
Consistent(e) ==
  e.type \in Reconstructing =>
    /\ e.id \in Ids /\ e.row \in Row
    /\ \A s \in 1..End : Touches(s, e.id) =>
         log[s].type # "deleted" /\ NsAt(s) = e.row.ns

\* A live record has been touched by nothing but what its row comes from.
LEMMA LiveIsConsistent ==
  ASSUME SourceInv, NEW x \in Ids, Live(x), NEW s \in 1..End, Touches(s, x)
  PROVE  log[s].type # "deleted" /\ NsAt(s) = rows[x].ns
<1>1. RowExplained(x) /\ x \notin imported
  BY InvByRecord DEF SourceInv, Parts, RecordSound
<1>2. PICK t \in 1..End : IsLast(t, x) /\ rows[x] = After(log[t])
  BY <1>1 DEF RowExplained
<1>3. log[t].type # "deleted" /\ rows[x] = log[t].row /\ Touches(t, x)
  BY <1>2 DEF After, Live, IsLast
<1>4. NsAt(t) = rows[x].ns
  BY <1>3 DEF NsAt, Live
<1>5. NsAt(s) = rows[x].ns
  BY <1>3, <1>4 DEF SourceInv, OneNamespace
<1>6. End \in Nat
  BY DEF SourceInv, IInv, TypeOK, End
<1>7. ASSUME log[s].type = "deleted" PROVE FALSE
  <2>1. s <= t /\ s # t
    <3>1. CASE t < s
      <4>1. s \in (t + 1)..End
        BY <1>6, <3>1
      <4> QED  BY <1>2, <4>1 DEF IsLast
    <3> QED  BY <1>3, <1>7, <3>1
  <2>2. t \in (s + 1)..End
    BY <1>6, <2>1
  <2> QED  BY <1>3, <1>7, <2>2 DEF SourceInv, DeletedForGood
<1> QED  BY <1>5, <1>7

LEMMA LocalWriteAppends ==
  ASSUME SourceInv, LocalWrite
  PROVE  \E e : /\ Writes(e) /\ Consistent(e) /\ e.hist = meta.hist
                /\ imported' = {} /\ UNCHANGED <<dropped, meta>>
<1>1. TypeOK /\ imported = {} /\ NewRow \subseteq Row
  BY DEF SourceInv, IInv, NewRow
<1>2. PICK id \in Ids, key \in Keys \cup {NoKey} :
        \/ \E r \in NewRow : AddNew(id, r, key) \/ AddDuplicate(id, r, key)
        \/ \E r \in Row, signal \in BOOLEAN : Update(id, r, key, signal)
        \/ Delete(id, key)
  BY DEF LocalWrite
<1>3. ASSUME NEW r \in Row, AddNew(id, r, key)
      PROVE  Consistent(Ev("created", id, r, None, key))
  BY <1>3 DEF AddNew, Fresh, Consistent, Ev, Touches
<1>4. ASSUME NEW r \in Row, AddDuplicate(id, r, key)
      PROVE  Consistent(Ev("observed", id, rows[id], None, key))
  BY DEF Consistent, Ev, Reconstructing
<1>5. ASSUME NEW r \in Row, NEW signal \in BOOLEAN, Update(id, r, key, signal)
      PROVE  Consistent(Ev("updated", id, r, rows[id], key))
  BY <1>5, LiveIsConsistent DEF Update, Consistent, Ev
<1>6. ASSUME Delete(id, key)
      PROVE  Consistent(Ev("deleted", id, rows[id], None, key))
  BY <1>1, <1>6, LiveIsConsistent DEF Delete, Consistent, Ev, TypeOK, Live
<1>7. \A type, row, prev : Ev(type, id, row, prev, key).hist = meta.hist
  BY DEF Ev
<1>8. ASSUME NEW r \in Row, AddNew(id, r, key)
      PROVE  imported' = {} /\ UNCHANGED <<dropped, meta>>
  BY <1>1, <1>8 DEF AddNew
<1>9. ASSUME NEW r \in Row, AddDuplicate(id, r, key)
      PROVE  imported' = {} /\ UNCHANGED <<dropped, meta>>
  BY <1>1, <1>9 DEF AddDuplicate
<1>10. ASSUME NEW r \in Row, NEW signal \in BOOLEAN, Update(id, r, key, signal)
       PROVE  imported' = {} /\ UNCHANGED <<dropped, meta>>
  BY <1>1, <1>10 DEF Update
<1>11. ASSUME Delete(id, key)
       PROVE  imported' = {} /\ UNCHANGED <<dropped, meta>>
  BY <1>1, <1>11 DEF Delete
<1>12. ASSUME NEW r \in NewRow, AddNew(id, r, key) \/ AddDuplicate(id, r, key)
       PROVE  \E e : /\ Writes(e) /\ Consistent(e) /\ e.hist = meta.hist
                     /\ imported' = {} /\ UNCHANGED <<dropped, meta>>
  <2>1. r \in Row
    BY <1>1
  <2>2. CASE AddNew(id, r, key)
    BY <1>1, <1>3, <1>7, <1>8, <2>1, <2>2, WritesAddNew
  <2>3. CASE AddDuplicate(id, r, key)
    BY <1>1, <1>4, <1>7, <1>9, <2>1, <2>3, WritesAddDuplicate
  <2> QED  BY <1>12, <2>2, <2>3
<1>13. ASSUME NEW r \in Row, NEW signal \in BOOLEAN, Update(id, r, key, signal)
       PROVE  \E e : /\ Writes(e) /\ Consistent(e) /\ e.hist = meta.hist
                     /\ imported' = {} /\ UNCHANGED <<dropped, meta>>
  BY <1>1, <1>5, <1>7, <1>10, <1>13, WritesUpdate
<1>14. ASSUME Delete(id, key)
       PROVE  \E e : /\ Writes(e) /\ Consistent(e) /\ e.hist = meta.hist
                     /\ imported' = {} /\ UNCHANGED <<dropped, meta>>
  BY <1>1, <1>6, <1>7, <1>11, <1>14, WritesDelete
<1> QED  BY <1>2, <1>12, <1>13, <1>14

\* What else a source does with its log.
LEMMA RetentionEffect ==
  ASSUME SourceInv, Retention
  PROVE  /\ OnlyObserves /\ imported' = {}
         /\ meta'.hist = meta.hist /\ meta'.epoch = meta.epoch
         /\ meta'.lastHead > 0 => meta'.trimmed > 0
<1>1. /\ TypeOK /\ imported = {} /\ meta.trimmed \in Nat /\ meta.lastHead \in Nat
      /\ dropped \in Nat /\ End \in Nat
      /\ meta.lastHead > 0 => meta.trimmed > 0
  BY DEF SourceInv, EpochMarks, IInv, TypeOK, Meta, End
<1>2. ASSUME NEW k \in Retained, DropThrough(k),
             UNCHANGED <<rows, log, tombs, wms, ledger, imported>>
      PROVE  /\ OnlyObserves /\ imported' = {}
             /\ meta'.hist = meta.hist /\ meta'.epoch = meta.epoch
             /\ meta'.lastHead > 0 => meta'.trimmed > 0
  <2>1. OnlyObserves
    BY <1>1, <1>2, AppendsNothing
  <2>2. k \in Nat /\ k > 0
    BY <1>1 DEF Retained
  <2>3. /\ meta'.trimmed = Larger(meta.trimmed, k)
        /\ meta'.hist = meta.hist /\ meta'.epoch = meta.epoch
    BY <1>1, <1>2 DEF DropThrough, TypeOK, Meta
  <2> QED  BY <1>1, <1>2, <2>1, <2>2, <2>3 DEF Larger
<1>3. ASSUME NEW n \in 1..(MaxSeq + 1), TrimBefore(n) \/ TrimByCount(n - 1)
      PROVE  \E k \in Retained :
               DropThrough(k) /\ UNCHANGED <<rows, log, tombs, wms, ledger, imported>>
  BY <1>3 DEF TrimBefore, TrimByCount
<1>4. ASSUME NEW warned \in Ids \cup {None}, Hygiene(warned)
      PROVE  /\ OnlyObserves /\ imported' = {}
             /\ meta'.hist = meta.hist /\ meta'.epoch = meta.epoch
             /\ meta'.lastHead > 0 => meta'.trimmed > 0
  <2>1. OnlyObserves /\ imported' = {}
    BY <1>1, <1>4, HygieneAppends, HygieneParts
  <2>2. CASE Trims(warned)
    <3>1. /\ Cut(warned) \in Int /\ dropped < Cut(warned)
          /\ meta'.trimmed = Larger(meta.trimmed, Cut(warned))
          /\ meta'.hist = meta.hist /\ meta'.epoch = meta.epoch
      BY <1>1, <2>2, AuditTyped DEF Trims, Cut, TypeOK, Meta
    <3> QED  BY <1>1, <2>1, <3>1 DEF Larger
  <2> QED  BY <1>1, <1>4, <2>1, <2>2, HygieneParts
<1>5. ASSUME NEW through \in 0..MaxSeq, NEW acked \in 0..MaxSeq \cup {None},
             NEW ns \in Namespaces \cup {None}, NEW strict \in BOOLEAN,
             CompactTombstones(through, acked, ns, strict)
      PROVE  /\ OnlyObserves /\ imported' = {}
             /\ meta'.hist = meta.hist /\ meta'.epoch = meta.epoch
             /\ meta'.lastHead > 0 => meta'.trimmed > 0
  <2>1. PICK h \in CompactionHorizon(through, acked, strict) :
          meta' = [meta EXCEPT !.compacted = Larger(meta.compacted, h)]
    BY <1>5, CompactEffect
  <2>2. /\ meta'.hist = meta.hist /\ meta'.epoch = meta.epoch
        /\ meta'.trimmed = meta.trimmed /\ meta'.lastHead = meta.lastHead
    BY <1>1, <2>1 DEF TypeOK, Meta
  <2>3. OnlyObserves /\ imported' = {}
    BY <1>1, <1>5, AppendsNothing DEF CompactTombstones
  <2> QED  BY <1>1, <2>2, <2>3
<1>6. CASE \E n \in 1..(MaxSeq + 1) : TrimBefore(n) \/ TrimByCount(n - 1)
  BY <1>2, <1>3, <1>6
<1> QED  BY <1>4, <1>5, <1>6 DEF Retention

SourceOp == LocalWrite \/ Retention \/ ReplaceHistory

\* The log grows, by events of the present history; what could be read can
\* still be read or is forgotten, and marks of a history only grow.
Progress ==
  /\ Stamped
  /\ dropped \in Nat /\ dropped' \in Nat /\ dropped <= dropped'
  /\ meta.hist \in Nat /\ meta'.hist \in Nat /\ meta.hist <= meta'.hist
  /\ meta.trimmed \in Nat /\ meta'.trimmed \in Nat
  /\ meta'.hist = meta.hist =>
       meta.trimmed <= meta'.trimmed /\ meta'.epoch = meta.epoch

LEMMA SourceProgress == ASSUME SourceInv, SourceOp PROVE Progress
<1>1. TypeOK /\ Next /\ TypeOK'
  BY TypeStep DEF SourceOp, Next, SourceInv, IInv
<1>2. Stamped
  BY <1>1, StepAppends
<1>3. /\ dropped \in Nat /\ dropped' \in Nat /\ meta.hist \in Nat /\ meta'.hist \in Nat
      /\ meta.trimmed \in Nat /\ meta'.trimmed \in Nat
  BY <1>1 DEF TypeOK, Meta, End
<1>4. CASE meta'.hist = meta.hist
  <2>1. meta.trimmed <= meta'.trimmed /\ dropped <= dropped'
    BY <1>1, <1>4, StepMonotone DEF Monotone
  <2>2. meta'.epoch = meta.epoch
    <3>1. CASE LocalWrite
      BY <3>1, LocalWriteAppends
    <3>2. CASE Retention
      BY <3>2, RetentionEffect
    <3>3. ~ReplaceHistory
      BY <1>3, <1>4 DEF ReplaceHistory, NextHistory
    <3> QED  BY <3>1, <3>2, <3>3 DEF SourceOp
  <2> QED  BY <1>2, <1>3, <1>4, <2>1, <2>2 DEF Progress
<1>5. CASE meta'.hist # meta.hist
  <2>1. ReplaceHistory
    BY <1>5, LocalWriteAppends, RetentionEffect DEF SourceOp
  <2>2. meta'.hist = meta.hist + 1 /\ dropped' = dropped
    BY <2>1 DEF ReplaceHistory, NextHistory
  <2> QED  BY <1>2, <1>3, <1>5, <2>2 DEF Progress
<1> QED  BY <1>4, <1>5

LEMMA LogTyped ==
  ASSUME TypeOK
  PROVE  End \in Nat /\ \A s \in 1..End : log[s] \in Event /\ log[s].hist \in Nat
<1>1. log \in Seq(Event) /\ End = Len(log)
  BY DEF TypeOK, End
<1>2. End \in Nat /\ \A s \in 1..End : log[s] \in Event
  BY <1>1
<1>3. \A e \in Event : e.hist \in Nat
  BY DEF Event
<1> QED  BY <1>2, <1>3

\* The events of the histories before one are the first of the log.
LEMMA EpochIs ==
  ASSUME SourceInv, NEW h \in Nat
  PROVE  /\ Epoch(h) \in 0..End
         /\ \A s \in 1..End : log[s].hist < h <=> s <= Epoch(h)
<1> DEFINE T == {s \in 1..End : log[s].hist < h}
<1>1. End \in Nat /\ \A s \in 1..End : log[s].hist \in Nat
  BY LogTyped DEF SourceInv, IInv
<1>2. ASSUME NEW s \in T PROVE 1..s \subseteq T
  BY <1>1, <1>2 DEF SourceInv, Ordered
<1>3. Cardinality(T) \in 0..End /\ T = 1..Cardinality(T)
  BY <1>1, <1>2, PrefixCounted, T \in SUBSET (1..End)
<1> QED  BY <1>1, <1>3 DEF Epoch

\* What a step of the source appends about a record.
Apt(s, x) ==
  /\ log'[s].row \in Row
  /\ \A t \in 1..End : Touches(t, x) =>
       log[t].type # "deleted" /\ NsAt(t) = log'[s].row.ns

LEMMA SourceAppends ==
  ASSUME SourceInv, SourceOp
  PROVE  \A s \in (End + 1)..End' : log'[s].type \in Reconstructing =>
           s = End + 1 /\ log'[s].id \in Ids /\ Apt(s, log'[s].id)
<1>1. TypeOK
  BY DEF SourceInv, IInv
<1>2. CASE LocalWrite
  <2>1. PICK e : Writes(e) /\ Consistent(e)
    BY <1>2, LocalWriteAppends
  <2>2. \A s \in (End + 2)..End' : log'[s].type = "observed"
    BY <2>1 DEF Writes, Quiet
  <2>3. log'[End + 1] = e /\ End \in Nat /\ End' \in Nat
    BY <2>1 DEF Writes, Keeps
  <2>4. e.type \in Reconstructing => e.id \in Ids /\ e.row \in Row
          /\ \A t \in 1..End : Touches(t, e.id) =>
               log[t].type # "deleted" /\ NsAt(t) = e.row.ns
    BY <2>1 DEF Consistent
  <2>5. "observed" \notin Reconstructing
    BY DEF Reconstructing
  <2>6. \A s \in (End + 1)..End' : s = End + 1 \/ s \in (End + 2)..End'
    BY <2>3
  <2> QED  BY <2>2, <2>3, <2>4, <2>5, <2>6 DEF Apt
<1>3. CASE Retention \/ ReplaceHistory
  <2>1. OnlyObserves
    BY <1>1, <1>3, RetentionEffect, AppendsNothing DEF ReplaceHistory
  <2> QED  BY <2>1 DEF OnlyObserves, Quiet, Reconstructing
<1> QED  BY <1>2, <1>3 DEF SourceOp

LEMMA SourceInvInit == Init => SourceInv
<1> SUFFICES ASSUME Init PROVE SourceInv
  OBVIOUS
<1>1. End = 0 /\ 1..End = {} /\ Retained = {}
  BY DEF Init, End, Retained
<1>2. /\ meta.epoch = 0 /\ meta.lastHead = 0 /\ imported = {}
  BY DEF Init
<1>3. IInv
  BY InvInit
<1>4. EpochMarks
  BY <1>1, <1>2 DEF EpochMarks
<1> QED  BY <1>1, <1>2, <1>3, <1>4
         DEF SourceInv, Ordered, DeletedForGood, OneNamespace, WellFormed

LEMMA SourceInvStep ==
  ASSUME SourceInv, SourceOp PROVE SourceInv'
<1>1. /\ IInv /\ TypeOK /\ Next /\ IInv' /\ TypeOK'
      /\ imported = {} /\ Progress
  BY InvStep, SourceProgress DEF SourceOp, Next, SourceInv, IInv
<1>2. /\ Keeps /\ \A s \in (End + 1)..End' : log'[s].hist = meta.hist
      /\ End \in Nat /\ End' \in Nat /\ End <= End'
      /\ \A s \in 1..End : log'[s] = log[s]
      /\ \A s \in 1..End' : s \in 1..End \/ s \in (End + 1)..End'
  BY <1>1 DEF Progress, Stamped, Keeps
<1>3. /\ \A s \in 1..End : log[s].hist <= meta.hist /\ log[s].hist \in Nat
      /\ meta.hist \in Nat /\ meta'.hist \in Nat
      /\ dropped \in Nat /\ dropped' \in Nat /\ dropped <= dropped'
      /\ meta.hist <= meta'.hist
  BY <1>1, LogTyped DEF IInv, MarksMatchLog, Progress
<1>4. Ordered'
  <2> SUFFICES ASSUME NEW s \in 1..End', NEW t \in 1..End', s <= t
               PROVE  log'[s].hist <= log'[t].hist
    BY DEF Ordered
  <2>1. CASE t \in 1..End
    BY <1>2, <2>1 DEF SourceInv, Ordered
  <2>2. CASE t \in (End + 1)..End'
    BY <1>2, <1>3, <2>2
  <2> QED  BY <1>2, <2>1, <2>2
<1>5. \A x \in Ids, s \in 1..End' : Touches(s, x)' =>
        \/ s \in 1..End /\ Touches(s, x)
        \/ s = End + 1 /\ Apt(s, x)
  BY <1>2, SourceAppends DEF Touches
<1>6. DeletedForGood'
  <2> SUFFICES ASSUME NEW x \in Ids, NEW s \in 1..End', Touches(s, x)',
                      log'[s].type = "deleted", NEW t \in (s + 1)..End',
                      Touches(t, x)'
               PROVE  FALSE
    BY DEF DeletedForGood
  <2>1. t \in 1..End' /\ s < t
    OBVIOUS
  <2>2. s \in 1..End /\ Touches(s, x) /\ log[s].type = "deleted"
    BY <1>2, <1>5, <2>1
  <2>3. CASE t \in 1..End /\ Touches(t, x)
    <3>1. t \in (s + 1)..End
      BY <1>2, <2>1, <2>3
    <3> QED  BY <2>2, <2>3, <3>1 DEF SourceInv, DeletedForGood
  <2>4. CASE Apt(t, x)
    BY <2>2, <2>4 DEF Apt
  <2> QED  BY <1>5, <2>1, <2>3, <2>4
<1>7. OneNamespace'
  <2>0. \A s \in 1..End : NsAt(s)' = NsAt(s)
    BY <1>2 DEF NsAt
  <2>1. \A x \in Ids, s \in 1..End' : Apt(s, x) => NsAt(s)' = log'[s].row.ns
    BY DEF Apt, NsAt
  <2> SUFFICES ASSUME NEW x \in Ids, NEW s \in 1..End', NEW t \in 1..End',
                      Touches(s, x)', Touches(t, x)'
               PROVE  NsAt(s)' = NsAt(t)'
    BY DEF OneNamespace
  <2>2. \/ s \in 1..End /\ Touches(s, x)
        \/ s = End + 1 /\ Apt(s, x)
    BY <1>5
  <2>3. \/ t \in 1..End /\ Touches(t, x)
        \/ t = End + 1 /\ Apt(t, x)
    BY <1>5
  <2>4. CASE s \in 1..End /\ Touches(s, x) /\ t \in 1..End /\ Touches(t, x)
    BY <2>0, <2>4 DEF SourceInv, OneNamespace
  <2>5. CASE s \in 1..End /\ Touches(s, x) /\ Apt(t, x)
    BY <2>0, <2>1, <2>5 DEF Apt
  <2>6. CASE t \in 1..End /\ Touches(t, x) /\ Apt(s, x)
    BY <2>0, <2>1, <2>6 DEF Apt
  <2> QED  BY <2>2, <2>3, <2>4, <2>5, <2>6
<1>8. WellFormed'
  <2>1. \A s \in 1..End : log'[s].type \in Reconstructing =>
          log'[s].id \in Ids /\ log'[s].row \in Row
    BY <1>2 DEF SourceInv, WellFormed
  <2>2. \A s \in (End + 1)..End' : log'[s].type \in Reconstructing =>
          log'[s].id \in Ids /\ log'[s].row \in Row
    BY SourceAppends DEF Apt
  <2> QED  BY <1>2, <2>1, <2>2 DEF WellFormed
<1>9. EpochMarks' /\ imported' = {}
  <2>1. /\ meta.epoch \in 0..End
        /\ \A s \in 1..meta.epoch : log[s].hist < meta.hist
        /\ \A s \in Retained : log[s].hist < meta.hist => s <= meta.epoch
        /\ meta.lastHead > 0 => meta.trimmed > 0
    BY DEF SourceInv, EpochMarks
  <2>2. CASE LocalWrite \/ Retention
    <3>1. /\ meta'.hist = meta.hist /\ meta'.epoch = meta.epoch /\ imported' = {}
          /\ meta'.lastHead > 0 => meta'.trimmed > 0
      BY <2>1, <2>2, LocalWriteAppends, RetentionEffect
    <3>2. meta'.epoch \in 0..End'
      BY <1>2, <2>1, <3>1
    <3>3. \A s \in 1..meta'.epoch : log'[s].hist < meta'.hist
      BY <1>2, <2>1, <3>1
    <3>4. \A s \in Retained' : log'[s].hist < meta'.hist => s <= meta'.epoch
      <4>1. \A s \in Retained' : s \in Retained \/ s \in (End + 1)..End'
        BY <1>2, <1>3 DEF Retained
      <4>2. \A s \in Retained : s \in 1..End /\ log'[s] = log[s]
        BY <1>2 DEF Retained
      <4>3. \A s \in (End + 1)..End' : ~(log'[s].hist < meta'.hist)
        BY <1>2, <1>3, <3>1
      <4> HIDE DEF Retained
      <4> QED  BY <2>1, <3>1, <4>1, <4>2, <4>3
    <3> QED  BY <3>1, <3>2, <3>3, <3>4 DEF EpochMarks
  <2>3. CASE ReplaceHistory
    <3>1. /\ meta'.lastHead = 0 /\ meta'.epoch = MaxPresent
          /\ meta'.hist = meta.hist + 1 /\ log' = log /\ dropped' = dropped
          /\ imported' = {} /\ End' = End /\ Retained' = Retained
      BY <1>1, <2>3 DEF ReplaceHistory, NextHistory, End, Retained
    <3>2. MaxPresent \in 0..End /\ \A s \in Retained : s <= MaxPresent
      BY <1>2, <1>3 DEF MaxPresent, Retained
    <3>3. \A s \in 1..MaxPresent : log[s].hist < meta.hist + 1
      BY <1>2, <1>3, <3>2
    <3> QED  BY <3>1, <3>2, <3>3 DEF EpochMarks
  <2> QED  BY <2>2, <2>3 DEF SourceOp
<1> QED  BY <1>1, <1>4, <1>6, <1>7, <1>8, <1>9 DEF SourceInv

LEMMA SourceInvKept ==
  ASSUME SourceInv, UNCHANGED storeVars PROVE SourceInv'
<1>1. IInv'
  BY InvStep DEF SourceInv
<1>2. Ordered' /\ DeletedForGood' /\ OneNamespace' /\ EpochMarks' /\ WellFormed'
  BY DEF SourceInv, storeVars, Ordered, DeletedForGood, OneNamespace, EpochMarks,
         WellFormed, End, Touches, NsAt, Retained
<1> QED  BY <1>1, <1>2 DEF SourceInv, storeVars

-----------------------------------------------------------------------------
(* A page of events, planned and applied one after the other.              *)

Planned(f, sim, page, hist) ==
  /\ f[0] = Load(sim, page)
  /\ \A s \in 1..End :
       f[s] = IF s \in page THEN PlanStep(f[s - 1], s, hist) ELSE f[s - 1]
  /\ Plan(sim, page, hist) = f[End]

LEMMA PlanIs ==
  ASSUME End \in Nat, NEW sim, NEW page, NEW hist
  PROVE  \E f : Planned(f, sim, page, hist)
<1> DEFINE Next1(f, s) == IF s = 0 THEN Load(sim, page)
                          ELSE IF s \in page THEN PlanStep(f[s - 1], s, hist)
                          ELSE f[s - 1]
           S == {n \in 0..End : \E f : f = [s \in 0..n |-> Next1(f, s)]}
           upto == CHOOSE f : f = [s \in 0..End |-> Next1(f, s)]
<1>1. 0 \in S
  <2> DEFINE f == [s \in 0..0 |-> Load(sim, page)]
  <2>1. f = [s \in 0..0 |-> Next1(f, s)]
    OBVIOUS
  <2>2. 0 \in 0..End
    OBVIOUS
  <2> HIDE DEF f
  <2> QED  BY <2>1, <2>2
<1>2. ASSUME NEW n \in 1..End, n - 1 \in S PROVE n \in S
  <2>1. PICK f : f = [s \in 0..(n - 1) |-> Next1(f, s)]
    BY <1>2
  <2> DEFINE h == [s \in 0..n |-> IF s = n THEN Next1(f, n) ELSE f[s]]
  <2>2. \A s \in 0..(n - 1) : f[s] = Next1(f, s)
    BY <2>1
  <2>3. \A s \in 0..n : h[s] = IF s = n THEN Next1(f, n) ELSE f[s]
    OBVIOUS
  <2>4. ASSUME NEW s \in 0..n PROVE h[s] = Next1(h, s)
    <3>1. CASE s = 0
      BY <2>2, <2>3, <3>1
    <3>2. CASE s # 0
      <4>1. s - 1 \in 0..n /\ s - 1 # n /\ s - 1 \in 0..(n - 1)
        BY <3>2
      <4>2. h[s - 1] = f[s - 1]
        BY <2>3, <4>1
      <4>3. h[s] = Next1(f, s)
        <5>1. CASE s = n
          BY <2>3, <5>1
        <5>2. CASE s # n
          <6>1. s \in 0..(n - 1)
            BY <5>2
          <6> QED  BY <2>2, <2>3, <5>2, <6>1
        <5> QED  BY <5>1, <5>2
      <4> HIDE DEF h
      <4> QED  BY <3>2, <4>2, <4>3
    <3> QED  BY <3>1, <3>2
  <2>5. h = [s \in 0..n |-> Next1(h, s)]
    <3>1. h = [s \in 0..n |-> h[s]]
      OBVIOUS
    <3> HIDE DEF h
    <3> QED  BY <2>4, <3>1
  <2>6. n \in 0..End
    OBVIOUS
  <2> HIDE DEF h
  <2> QED  BY <2>5, <2>6
<1>3. End \in S
  <2> HIDE DEF S
  <2>1. 0..End \subseteq S
    BY <1>1, <1>2, UpTo
  <2> QED  BY <2>1
<1>4. upto = [s \in 0..End |-> Next1(upto, s)]
  BY <1>3
<1>5. Plan(sim, page, hist) = upto[End]
  BY DEF Plan
<1>6. \A s \in 0..End : upto[s] = Next1(upto, s)
  <2> HIDE DEF upto
  <2> QED  BY <1>4
<1>7. upto[0] = Load(sim, page)
  BY <1>6
<1>8. \A s \in 1..End :
        upto[s] = IF s \in page THEN PlanStep(upto[s - 1], s, hist) ELSE upto[s - 1]
  <2> HIDE DEF upto
  <2>1. \A s \in 1..End : s \in 0..End /\ s # 0
    OBVIOUS
  <2> QED  BY <1>6, <2>1
<1> HIDE DEF upto
<1> QED  BY <1>5, <1>7, <1>8 DEF Planned

Applied(f, c, page, hist) ==
  /\ f[0] = c
  /\ \A s \in 1..End :
       f[s] = IF s \in page THEN ApplyStep(f[s - 1], s, hist) ELSE f[s - 1]
  /\ ApplyAll(c, page, hist) = f[End]

LEMMA ApplyAllIs ==
  ASSUME End \in Nat, NEW c, NEW page, NEW hist
  PROVE  \E f : Applied(f, c, page, hist)
<1> DEFINE Next1(f, s) == IF s = 0 THEN c
                          ELSE IF s \in page THEN ApplyStep(f[s - 1], s, hist)
                          ELSE f[s - 1]
           S == {n \in 0..End : \E f : f = [s \in 0..n |-> Next1(f, s)]}
           upto == CHOOSE f : f = [s \in 0..End |-> Next1(f, s)]
<1>1. 0 \in S
  <2> DEFINE f == [s \in 0..0 |-> c]
  <2>1. f = [s \in 0..0 |-> Next1(f, s)]
    OBVIOUS
  <2>2. 0 \in 0..End
    OBVIOUS
  <2> HIDE DEF f
  <2> QED  BY <2>1, <2>2
<1>2. ASSUME NEW n \in 1..End, n - 1 \in S PROVE n \in S
  <2>1. PICK f : f = [s \in 0..(n - 1) |-> Next1(f, s)]
    BY <1>2
  <2> DEFINE h == [s \in 0..n |-> IF s = n THEN Next1(f, n) ELSE f[s]]
  <2>2. \A s \in 0..(n - 1) : f[s] = Next1(f, s)
    BY <2>1
  <2>3. \A s \in 0..n : h[s] = IF s = n THEN Next1(f, n) ELSE f[s]
    OBVIOUS
  <2>4. ASSUME NEW s \in 0..n PROVE h[s] = Next1(h, s)
    <3>1. CASE s = 0
      BY <2>2, <2>3, <3>1
    <3>2. CASE s # 0
      <4>1. s - 1 \in 0..n /\ s - 1 # n /\ s - 1 \in 0..(n - 1)
        BY <3>2
      <4>2. h[s - 1] = f[s - 1]
        BY <2>3, <4>1
      <4>3. h[s] = Next1(f, s)
        <5>1. CASE s = n
          BY <2>3, <5>1
        <5>2. CASE s # n
          <6>1. s \in 0..(n - 1)
            BY <5>2
          <6> QED  BY <2>2, <2>3, <5>2, <6>1
        <5> QED  BY <5>1, <5>2
      <4> HIDE DEF h
      <4> QED  BY <3>2, <4>2, <4>3
    <3> QED  BY <3>1, <3>2
  <2>5. h = [s \in 0..n |-> Next1(h, s)]
    <3>1. h = [s \in 0..n |-> h[s]]
      OBVIOUS
    <3> HIDE DEF h
    <3> QED  BY <2>4, <3>1
  <2>6. n \in 0..End
    OBVIOUS
  <2> HIDE DEF h
  <2> QED  BY <2>5, <2>6
<1>3. End \in S
  <2> HIDE DEF S
  <2>1. 0..End \subseteq S
    BY <1>1, <1>2, UpTo
  <2> QED  BY <2>1
<1>4. upto = [s \in 0..End |-> Next1(upto, s)]
  BY <1>3
<1>5. ApplyAll(c, page, hist) = upto[End]
  BY DEF ApplyAll
<1>6. \A s \in 0..End : upto[s] = Next1(upto, s)
  <2> HIDE DEF upto
  <2> QED  BY <1>4
<1>7. upto[0] = c
  BY <1>6
<1>8. \A s \in 1..End :
        upto[s] = IF s \in page THEN ApplyStep(upto[s - 1], s, hist) ELSE upto[s - 1]
  <2> HIDE DEF upto
  <2>1. \A s \in 1..End : s \in 0..End /\ s # 0
    OBVIOUS
  <2> QED  BY <1>6, <2>1
<1> HIDE DEF upto
<1> QED  BY <1>5, <1>7, <1>8 DEF Applied

-----------------------------------------------------------------------------
(* Types.                                                                  *)

LEMMA EventIs ==
  ASSUME TypeOK, NEW s \in 1..End
  PROVE  /\ log[s].type \in Reconstructing \cup {"observed"}
         /\ log[s].id \in Ids \cup {None}
         /\ log[s].row \in Row \cup {None} /\ log[s].prev \in Row \cup {None}
         /\ log[s].hist \in Nat
BY LogTyped DEF Event

\* What reconstructs is well formed.
LEMMA Reconstructs ==
  ASSUME SourceInv, NEW s \in 1..End, log[s].type # "observed"
  PROVE  /\ log[s].type \in Reconstructing
         /\ log[s].id \in Ids /\ log[s].row \in Row /\ log[s].row # None
         /\ After(log[s]) \in Row \cup {None}
         /\ After(log[s]) = None <=> log[s].type = "deleted"
<1>1. log[s].type \in Reconstructing
  BY EventIs DEF SourceInv, IInv
<1>2. log[s].id \in Ids /\ log[s].row \in Row
  BY <1>1 DEF SourceInv, WellFormed
<1> QED  BY <1>1, <1>2 DEF After

LEMMA LoadTyped ==
  ASSUME clone \in Clone, NEW sim \in Sim, NEW page
  PROVE  Load(sim, page) \in Sim
<1> DEFINE res == Load(sim, page)
           named == {log[s].id : s \in page} \cup
               UNION {HolderIn(clone.rows, r) :
                        r \in (UNION {{log[s].row, log[s].prev} : s \in page}) \ {None}}
<1>1. /\ clone.rows \in Rows /\ clone.tombs \in Tombs /\ clone.wms \in Wms
      /\ sim.rows \in Rows /\ sim.tombs \in Tombs /\ sim.wms \in Wms
      /\ sim.loaded \subseteq Ids
  BY DEF Clone, Sim
<1>2. \A new \in SUBSET Ids :
        [sim EXCEPT
           !.rows  = [x \in Ids |-> IF x \in new THEN clone.rows[x] ELSE sim.rows[x]],
           !.tombs = [x \in Ids |-> IF x \in new THEN clone.tombs[x] ELSE sim.tombs[x]],
           !.wms   = [x \in Ids |-> IF x \in new THEN clone.wms[x] ELSE sim.wms[x]],
           !.loaded = sim.loaded \cup new] \in Sim
  <2> SUFFICES ASSUME NEW new \in SUBSET Ids
      PROVE [sim EXCEPT
           !.rows  = [x \in Ids |-> IF x \in new THEN clone.rows[x] ELSE sim.rows[x]],
           !.tombs = [x \in Ids |-> IF x \in new THEN clone.tombs[x] ELSE sim.tombs[x]],
           !.wms   = [x \in Ids |-> IF x \in new THEN clone.wms[x] ELSE sim.wms[x]],
           !.loaded = sim.loaded \cup new] \in Sim
    OBVIOUS
  <2>1. [x \in Ids |-> IF x \in new THEN clone.rows[x] ELSE sim.rows[x]] \in Rows
    BY <1>1 DEF Rows
  <2>2. [x \in Ids |-> IF x \in new THEN clone.tombs[x] ELSE sim.tombs[x]] \in Tombs
    BY <1>1 DEF Tombs
  <2>3. [x \in Ids |-> IF x \in new THEN clone.wms[x] ELSE sim.wms[x]] \in Wms
    BY <1>1 DEF Wms
  <2>4. sim.loaded \cup new \in SUBSET Ids
    BY <1>1
  <2> QED  BY <2>1, <2>2, <2>3, <2>4 DEF Sim
<1> QED  BY <1>2 DEF Load

LEMMA SimulateTyped ==
  ASSUME SourceInv, NEW sim \in Sim, NEW s \in 1..End, NEW hist \in Nat,
         log[s].type # "observed"
  PROVE  Simulate(sim, s, hist) \in Sim
<1>1. log[s].id \in Ids /\ log[s].row \in Row /\ After(log[s]) \in Row \cup {None}
  BY Reconstructs
<1>2. [sim.rows EXCEPT ![log[s].id] = After(log[s])] \in Rows
  BY <1>1 DEF Rows, Sim
<1>3. [ns |-> log[s].row.ns, seq |-> s, hist |-> hist] \in Tombstone
  BY <1>1 DEF Tombstone, Row
<1>4. [sim.tombs EXCEPT ![log[s].id] =
         IF log[s].type = "deleted"
         THEN [ns |-> log[s].row.ns, seq |-> s, hist |-> hist]
         ELSE sim.tombs[log[s].id]] \in Tombs
  BY <1>1, <1>3 DEF Tombs, Sim
<1>5. sim.mutated \cup {log[s].id} \in SUBSET Ids /\ sim.plan \cup {s} \in SUBSET Nat
  BY <1>1 DEF Sim
<1> QED  BY <1>2, <1>4, <1>5 DEF Sim, Simulate

LEMMA PlanStepTyped ==
  ASSUME SourceInv, NEW sim \in Sim, NEW s \in 1..End, NEW hist \in Nat
  PROVE  PlanStep(sim, s, hist) \in Sim
<1>1. [sim EXCEPT !.failed = TRUE] \in Sim
  BY DEF Sim
<1> QED  BY <1>1, SimulateTyped DEF PlanStep

LEMMA PlanTyped ==
  ASSUME SourceInv, clone \in Clone, NEW sim \in Sim, NEW page, NEW hist \in Nat
  PROVE  Plan(sim, page, hist) \in Sim
<1>1. End \in Nat
  BY LogTyped DEF SourceInv, IInv
<1>2. PICK f : Planned(f, sim, page, hist)
  BY <1>1, PlanIs
<1> DEFINE S == {s \in 0..End : f[s] \in Sim}
<1>3. 0 \in S
  BY <1>1, <1>2, LoadTyped DEF Planned
<1>4. ASSUME NEW s \in 1..End, s - 1 \in S PROVE s \in S
  BY <1>2, <1>4, PlanStepTyped DEF Planned
<1> HIDE DEF S
<1>5. 0..End \subseteq S
  BY <1>1, <1>3, <1>4, UpTo
<1> QED  BY <1>1, <1>2, <1>5 DEF S, Planned

LEMMA ApplyStepTyped ==
  ASSUME SourceInv, NEW c \in Tables, NEW s \in 1..End, NEW hist \in Nat
  PROVE  ApplyStep(c, s, hist) \in Tables
<1> DEFINE e == log[s]
           wm == [fp |-> Fingerprint(e.row), seq |-> s, hist |-> hist]
           tomb == [ns |-> e.row.ns, seq |-> s, hist |-> e.hist]
<1>1. CASE e.type = "observed"
  BY <1>1 DEF ApplyStep
<1>2. CASE e.type # "observed"
  <2>1. e.id \in Ids /\ e.row \in Row /\ e.hist \in Nat /\ e.type \in Reconstructing
    BY <1>2, Reconstructs, EventIs DEF SourceInv, IInv
  <2>2. wm \in Watermark /\ tomb \in Tombstone
    BY <2>1, FingerprintTyped DEF Watermark, Tombstone, Row
  <2>3. c.rows \in Rows /\ c.tombs \in Tombs /\ c.wms \in Wms
    BY DEF Tables
  <2> HIDE DEF wm, tomb
  <2>4. \A r \in Row \cup {None} : [c.rows EXCEPT ![e.id] = r] \in Rows
    BY <2>1, <2>3 DEF Rows
  <2>5. \A w \in Watermark \cup {None} : [c.wms EXCEPT ![e.id] = w] \in Wms
    BY <2>1, <2>3 DEF Wms
  <2>6. [c.tombs EXCEPT ![e.id] = tomb] \in Tombs
    BY <2>1, <2>2, <2>3 DEF Tombs
  <2>7. c.rows[e.id] \in Row \cup {None} /\ c.wms[e.id] \in Watermark \cup {None}
    BY <2>1, <2>3 DEF Rows, Wms
  <2>8. CASE e.type = "created"
    <3> DEFINE put == c.rows[e.id] = None /\ HolderIn(c.rows, e.row) = {}
               r == IF put THEN e.row ELSE c.rows[e.id]
               w == IF put \/ c.rows[e.id] # None THEN wm ELSE c.wms[e.id]
    <3>1. ApplyStep(c, s, hist) = [c EXCEPT !.rows[e.id] = r, !.wms[e.id] = w]
      BY <2>8 DEF ApplyStep, wm
    <3>2. r \in Row \cup {None} /\ w \in Watermark \cup {None}
      BY <2>1, <2>2, <2>7
    <3> HIDE DEF r, w
    <3>3. [c.rows EXCEPT ![e.id] = r] \in Rows /\ [c.wms EXCEPT ![e.id] = w] \in Wms
      BY <2>4, <2>5, <3>2
    <3> QED  BY <3>1, <3>3 DEF Tables
  <2>9. CASE e.type = "updated" /\ c.rows[e.id] # None
    <3>1. ApplyStep(c, s, hist) = [c EXCEPT !.rows[e.id] = e.row, !.wms[e.id] = wm]
      BY <2>9 DEF ApplyStep, wm
    <3>2. [c.rows EXCEPT ![e.id] = e.row] \in Rows /\ [c.wms EXCEPT ![e.id] = wm] \in Wms
      BY <2>1, <2>2, <2>4, <2>5
    <3> QED  BY <3>1, <3>2 DEF Tables
  <2>10. CASE e.type = "deleted"
    <3>1. ApplyStep(c, s, hist) =
            [c EXCEPT !.rows[e.id] = None, !.wms[e.id] = None, !.tombs[e.id] = tomb]
      BY <2>10 DEF ApplyStep, tomb
    <3>2. [c.rows EXCEPT ![e.id] = None] \in Rows /\ [c.wms EXCEPT ![e.id] = None] \in Wms
      BY <2>4, <2>5
    <3> QED  BY <2>6, <3>1, <3>2 DEF Tables
  <2>11. CASE e.type = "updated" /\ c.rows[e.id] = None
    BY <2>11 DEF ApplyStep
  <2> QED  BY <2>1, <2>8, <2>9, <2>10, <2>11 DEF Reconstructing
<1> QED  BY <1>1, <1>2

LEMMA ApplyAllTyped ==
  ASSUME SourceInv, NEW c \in Tables, NEW page, NEW hist \in Nat
  PROVE  ApplyAll(c, page, hist) \in Tables
<1>1. End \in Nat
  BY LogTyped DEF SourceInv, IInv
<1>2. PICK f : Applied(f, c, page, hist)
  BY <1>1, ApplyAllIs
<1> DEFINE S == {s \in 0..End : f[s] \in Tables}
<1>3. 0 \in S
  BY <1>1, <1>2 DEF Applied
<1>4. ASSUME NEW s \in 1..End, s - 1 \in S PROVE s \in S
  BY <1>2, <1>4, ApplyStepTyped DEF Applied
<1> HIDE DEF S
<1>5. 0..End \subseteq S
  BY <1>1, <1>3, <1>4, UpTo
<1> QED  BY <1>1, <1>2, <1>5 DEF S, Applied

-----------------------------------------------------------------------------
(* Pages.                                                                  *)

LEMMA LastOfIs ==
  ASSUME NEW n \in Nat, NEW T \in SUBSET (0..n), NEW d
  PROVE  /\ T = {} => LastOf(T, d) = d
         /\ T # {} => LastOf(T, d) \in T /\ \A t \in T : t <= LastOf(T, d)
BY LatestOf DEF LastOf, Latest

LEMMA LastOfTyped ==
  ASSUME NEW n \in Nat, NEW T \in SUBSET (0..n), NEW d \in Nat
  PROVE  LastOf(T, d) \in Nat
<1>1. CASE T = {}
  BY <1>1, LastOfIs
<1>2. CASE T # {}
  <2>1. LastOf(T, d) \in T
    BY <1>2, LastOfIs
  <2>2. \A t \in T : t \in Nat
    OBVIOUS
  <2> QED  BY <2>1, <2>2
<1> QED  BY <1>1, <1>2

\* What is there to read after an event.
LEMMA LaterIs ==
  ASSUME TypeOK, NEW p
  PROVE  /\ End \in Nat /\ Retained \subseteq 1..End
         /\ Later(p) \in SUBSET (0..End) /\ Later(p) \subseteq Retained
         /\ Page(p) \in SUBSET (0..End) /\ Page(p) \subseteq Later(p)
BY LogTyped DEF Retained, Later, Page, First

LEMMA LiveRowsTyped ==
  ASSUME NEW rs \in Rows PROVE LiveRows(rs) \in SUBSET Row
BY DEF LiveRows, Rows

USE ReplayAssumption

LEMMA CursorTyped ==
  ASSUME TypeOK, NEW s \in Nat PROVE At(s) \in Cursor
BY DEF TypeOK, Meta, At, Cursor

LEMMA HeadTyped ==
  ASSUME TypeOK PROVE HeadSeq \in Nat /\ MaxPresent \in Nat
<1>1. End \in Nat /\ meta.trimmed \in Nat /\ meta.lastHead \in Nat
  BY LogTyped DEF TypeOK, Meta
<1>2. MaxPresent \in Nat
  BY <1>1 DEF MaxPresent
<1> QED  BY <1>1, <1>2, LargerNat DEF HeadSeq

LEMMA EmptySimTyped == EmptySim \in Sim
BY DEF EmptySim, Sim, Rows, Tombs, Wms

LEMMA CheckpointTyped ==
  ASSUME NEW r \in Run PROVE Checkpoint(r) \in Cursor
BY DEF Checkpoint, Run, Cursor

LEMMA BeginTyped ==
  ASSUME TypeOK, NEW c \in Cursor, NEW b \in Budgets, Begin(c, b)
  PROVE  run' \in Run
<1>1. Larger(c.seq, meta.epoch) \in Nat
  BY LargerNat DEF Cursor, TypeOK, Meta
<1>2. b \in Nat \cup {None}
  OBVIOUS
<1> QED  BY <1>1, <1>2, EmptySimTyped DEF Begin, Run

\* What a page of pass 1 makes of the run, before its end is looked at.
With(r, sim, scanned, last, at) ==
  [r EXCEPT !.sim = sim, !.scanned = scanned, !.last = last, !.at = at]
Read(page, taken) ==
  With(run, Plan(run.sim, taken, run.cursor.hist),
       run.scanned + Cardinality(taken), LastOf(taken, run.last),
       LastOf(page, run.at))
TakenNow == IF run.budget = None THEN Page(run.at)
            ELSE First(Page(run.at), run.budget - run.scanned)

LEMMA RunWith ==
  ASSUME NEW r \in Run, NEW sim \in Sim, NEW scanned \in Nat, NEW last \in Nat,
         NEW at \in Nat
  PROVE  With(r, sim, scanned, last, at) \in Run
BY DEF Run, With

LEMMA ReadTyped ==
  ASSUME SourceInv, ReplayTypeOK, run # None
  PROVE  /\ Read(Page(run.at), TakenNow) \in Run
         /\ TakenNow \subseteq Page(run.at) /\ TakenNow \in SUBSET (0..End)
<1> DEFINE page == Page(run.at)
<1>0. TypeOK
  BY DEF SourceInv, IInv
<1>1. run \in Run /\ clone \in Clone
  BY DEF ReplayTypeOK
<1>2. page \in SUBSET (0..End) /\ End \in Nat
  BY <1>0, LaterIs
<1>3. TakenNow \subseteq page
  BY DEF TakenNow, First
<1>4. TakenNow \in SUBSET (0..End)
  BY <1>2, <1>3
<1>5. Cardinality(TakenNow) \in Nat
  BY <1>2, <1>4, Counted
<1>6. /\ run.sim \in Sim /\ run.cursor.hist \in Nat /\ run.scanned \in Nat
      /\ run.last \in Nat /\ run.at \in Nat
  BY <1>1 DEF Run, Cursor
<1> HIDE DEF page
<1>7. LastOf(TakenNow, run.last) \in Nat
  BY <1>2, <1>4, <1>6, LastOfTyped
<1>8. LastOf(page, run.at) \in Nat
  BY <1>2, <1>6, LastOfTyped
<1>9. Plan(run.sim, TakenNow, run.cursor.hist) \in Sim
  BY <1>1, <1>6, PlanTyped
<1>10. Read(page, TakenNow) \in Run
  <2>1. run.scanned + Cardinality(TakenNow) \in Nat
    BY <1>5, <1>6
  <2>2. With(run, Plan(run.sim, TakenNow, run.cursor.hist),
             run.scanned + Cardinality(TakenNow), LastOf(TakenNow, run.last),
             LastOf(page, run.at)) \in Run
    BY ONLY <1>1, <1>7, <1>8, <1>9, <2>1, RunWith
  <2> QED  BY <2>2 DEF Read
<1> QED  BY <1>3, <1>4, <1>10 DEF page

LEMMA ScanPageIs ==
  ASSUME ScanPage
  PROVE  /\ run # None /\ run.phase = "scan"
         /\ UNCHANGED <<storeVars, clone, packages, exporting>>
         /\ LET page == Page(run.at)
                r == Read(page, TakenNow)
                done == \/ r.sim.failed \/ Cardinality(page) < PageSize
                        \/ r.budget # None /\ r.scanned >= r.budget
            IN  run' = IF done THEN ScanEnd(r) ELSE r
BY DEF ScanPage, Read, With, TakenNow

LEMMA ScanPageTyped ==
  ASSUME SourceInv, ReplayTypeOK, ScanPage
  PROVE  run' \in Run \cup {None}
<1> DEFINE r == Read(Page(run.at), TakenNow)
<1>1. r \in Run
  BY ReadTyped, ScanPageIs
<1>2. run' \in {r, ScanEnd(r)}
  BY ScanPageIs
<1> HIDE DEF r
<1>3. [r EXCEPT !.phase = "apply", !.at = r.start] \in Run
  BY <1>1 DEF Run
<1>4. ScanEnd(r) \in Run \cup {None}
  BY <1>1, <1>3 DEF ScanEnd
<1> QED  BY <1>1, <1>2, <1>4

CloneTables == [rows |-> clone.rows, tombs |-> clone.tombs, wms |-> clone.wms]
Staged == IF run.staged # None THEN run.staged ELSE CloneTables
ToApply == {s \in Page(run.at) : run.budget = None \/ s <= run.last} \cap run.sim.plan
Applied1 == ApplyAll(Staged, ToApply, run.cursor.hist)
Applying == [run EXCEPT !.staged = Applied1, !.at = LastOf(Page(run.at), @)]

LEMMA ApplyPageIs ==
  ASSUME ApplyPage
  PROVE  /\ run # None /\ run.phase = "apply"
         /\ UNCHANGED <<storeVars, packages, exporting>>
         /\ \/ clone' = Commit(Applied1, run) /\ run' = None
            \/ run' = Applying /\ UNCHANGED clone
BY DEF ApplyPage, Staged, CloneTables, ToApply, Applied1, Applying

LEMMA AppliedTyped ==
  ASSUME SourceInv, ReplayTypeOK, run # None
  PROVE  Applied1 \in Tables /\ Applying \in Run
<1>1. run \in Run /\ clone \in Clone /\ TypeOK
  BY DEF ReplayTypeOK, SourceInv, IInv
<1>2. run.staged \in Tables \cup {None} /\ run.cursor.hist \in Nat /\ run.at \in Nat
  BY <1>1 DEF Run, Cursor
<1>3. CloneTables \in Tables
  BY <1>1 DEF Clone, Tables, CloneTables
<1>4. Staged \in Tables
  BY <1>2, <1>3 DEF Staged
<1>5. Applied1 \in Tables
  BY <1>2, <1>4, ApplyAllTyped DEF Applied1
<1>6. LastOf(Page(run.at), run.at) \in Nat
  BY <1>1, <1>2, LaterIs, LastOfTyped
<1> QED  BY <1>1, <1>5, <1>6 DEF Applying, Run

LEMMA CommitTyped ==
  ASSUME clone \in Clone, NEW c \in Tables, NEW r \in Run
  PROVE  Commit(c, r) \in Clone
<1>1. /\ c.rows \in Rows /\ c.tombs \in Tombs /\ c.wms \in Wms
      /\ r.cursor.hist \in Nat /\ r.last \in Nat /\ clone.seen \in Nat
  BY DEF Tables, Run, Cursor, Clone
<1>2. LiveRows(c.rows) \in SUBSET Row
  BY <1>1, LiveRowsTyped
<1>3. Larger(clone.seen, r.last) \in Nat
  BY <1>1, LargerNat
<1> QED  BY <1>1, <1>2, <1>3, CheckpointTyped DEF Commit, Clone

LEMMA SnapshotCursorTyped ==
  ASSUME SourceInv, ReplayTypeOK, SnapshotCursor
  PROVE  packages' \subseteq Package
<1>1. TypeOK /\ exporting \in Export /\ packages \subseteq Package
  BY DEF SourceInv, IInv, ReplayTypeOK, SnapshotCursor
<1>2. meta.hist \in Nat /\ HeadSeq \in Nat
  BY <1>1, HeadTyped DEF TypeOK, Meta
<1>3. PackageCursor \in Cursor \cup {None}
  BY <1>1, <1>2, CursorTyped DEF PackageCursor
<1>4. [rows |-> exporting.rows, hist |-> meta.hist,
       through |-> exporting.through, cursor |-> PackageCursor] \in Package
  BY <1>1, <1>2, <1>3 DEF Package, Export
<1> QED  BY <1>1, <1>4 DEF SnapshotCursor

\* What hydration puts into the clone, and whether it becomes its base.
Put(package) ==
  {x \in Ids : /\ package.rows[x] # None /\ clone.rows[x] = None
               /\ HolderIn(clone.rows, package.rows[x]) = {}}
Loaded(package) ==
  [clone EXCEPT
     !.rows  = [x \in Ids |-> IF x \in Put(package) THEN package.rows[x]
                              ELSE clone.rows[x]],
     !.tombs = [x \in Ids |-> IF package.rows[x] # None THEN None ELSE clone.tombs[x]],
     !.wms   = [x \in Ids |-> IF package.rows[x] # None THEN None ELSE clone.wms[x]]]
Based(package) ==
  [Loaded(package) EXCEPT
     !.bound = TRUE, !.source = package.hist, !.base = LiveRows(Loaded(package).rows),
     !.saved = IF package.cursor = None THEN clone.saved ELSE package.cursor,
     !.seen  = package.through]

LEMMA HydrateIs ==
  ASSUME NEW package, clone \in Clone, Hydrate(package)
  PROVE  /\ run = None /\ UNCHANGED <<storeVars, packages, exporting, run>>
         /\ \E logged \in {clone.events, TRUE} :
              clone' = [(IF Blank THEN Based(package) ELSE Loaded(package))
                          EXCEPT !.events = logged]
<1> DEFINE named == {x \in Ids : package.rows[x] # None}
           put   == {x \in named : /\ clone.rows[x] = None
                                   /\ HolderIn(clone.rows, package.rows[x]) = {}}
           loaded == [clone EXCEPT
             !.rows  = [x \in Ids |-> IF x \in put THEN package.rows[x] ELSE clone.rows[x]],
             !.tombs = [x \in Ids |-> IF x \in named THEN None ELSE clone.tombs[x]],
             !.wms   = [x \in Ids |-> IF x \in named THEN None ELSE clone.wms[x]]]
           based == [loaded EXCEPT
             !.bound = TRUE, !.source = package.hist,
             !.base  = LiveRows(loaded.rows),
             !.saved = IF package.cursor = None THEN loaded.saved ELSE package.cursor,
             !.seen  = package.through]
<1>1. put = Put(package)
  BY DEF Put
<1>2. loaded = Loaded(package)
  <2>1. [x \in Ids |-> IF x \in put THEN package.rows[x] ELSE clone.rows[x]] =
        [x \in Ids |-> IF x \in Put(package) THEN package.rows[x] ELSE clone.rows[x]]
    BY <1>1
  <2>2. [x \in Ids |-> IF x \in named THEN None ELSE clone.tombs[x]] =
        [x \in Ids |-> IF package.rows[x] # None THEN None ELSE clone.tombs[x]]
    OBVIOUS
  <2>3. [x \in Ids |-> IF x \in named THEN None ELSE clone.wms[x]] =
        [x \in Ids |-> IF package.rows[x] # None THEN None ELSE clone.wms[x]]
    OBVIOUS
  <2> HIDE DEF put, named
  <2> QED  BY <2>1, <2>2, <2>3 DEF Loaded
<1>3. loaded.saved = clone.saved
  BY DEF Clone
<1>4. based = Based(package)
  <2> HIDE DEF loaded
  <2> QED  BY <1>2, <1>3 DEF Based
<1>5. /\ run = None /\ UNCHANGED <<storeVars, packages, exporting, run>>
      /\ \E logged \in {clone.events, TRUE} :
           clone' = [(IF Blank THEN based ELSE loaded) EXCEPT !.events = logged]
  BY DEF Hydrate, Blank
<1> HIDE DEF based, loaded
<1> QED  BY <1>2, <1>4, <1>5

LEMMA HydrateTyped ==
  ASSUME clone \in Clone, NEW package \in Package, Hydrate(package)
  PROVE  /\ Loaded(package) \in Clone /\ Based(package) \in Clone
         /\ clone' \in Clone
<1>1. /\ clone.rows \in Rows /\ clone.tombs \in Tombs /\ clone.wms \in Wms
      /\ package.rows \in Rows /\ package.hist \in Nat /\ package.through \in Nat
      /\ package.cursor \in Cursor \cup {None} /\ clone.saved \in Cursor \cup {None}
      /\ clone.events \in BOOLEAN
  BY DEF Clone, Package
<1>2. [x \in Ids |-> IF x \in Put(package) THEN package.rows[x] ELSE clone.rows[x]]
        \in Rows
  BY <1>1 DEF Rows
<1>3. [x \in Ids |-> IF package.rows[x] # None THEN None ELSE clone.tombs[x]] \in Tombs
  BY <1>1 DEF Tombs
<1>4. [x \in Ids |-> IF package.rows[x] # None THEN None ELSE clone.wms[x]] \in Wms
  BY <1>1 DEF Wms
<1>5. Loaded(package) \in Clone
  BY <1>2, <1>3, <1>4 DEF Loaded, Clone
<1>6. LiveRows(Loaded(package).rows) \in SUBSET Row
  <2>1. Loaded(package).rows \in Rows
    BY <1>5 DEF Clone
  <2> QED  BY <2>1, LiveRowsTyped
<1>7. Based(package) \in Clone
  BY <1>1, <1>5, <1>6 DEF Based, Clone
<1>8. PICK logged \in BOOLEAN :
        clone' = [(IF Blank THEN Based(package) ELSE Loaded(package))
                    EXCEPT !.events = logged]
  BY <1>1, HydrateIs
<1>9. \A c \in Clone : [c EXCEPT !.events = logged] \in Clone
  BY DEF Clone
<1> QED  BY <1>5, <1>7, <1>8, <1>9

LEMMA CloneWriteTyped ==
  ASSUME clone \in Clone, NEW x \in Ids, NEW r \in NewRow \cup {None}, CloneWrite(x, r)
  PROVE  clone' \in Clone
<1> DEFINE tomb == IF r = None THEN [ns |-> clone.rows[x].ns, seq |-> 1, hist |-> LocalHist]
                   ELSE clone.tombs[x]
           wm == IF r = None \/ clone.rows[x] = None THEN None
                 ELSE [fp |-> Fingerprint(r), seq |-> 1, hist |-> LocalHist]
           wrote == clone.source # None
<1>1. /\ clone.rows \in Rows /\ clone.tombs \in Tombs /\ clone.wms \in Wms
      /\ r \in Row \cup {None} /\ LocalHist \in Nat
  BY DEF Clone, NewRow, LocalHist
<1>2. clone.rows[x] # r /\ clone.rows[x] \in Row \cup {None}
      /\ clone.tombs[x] \in Tombstone \cup {None}
  BY <1>1 DEF CloneWrite, Rows, Tombs
<1>3. tomb \in Tombstone \cup {None}
  <2>1. ASSUME r = None PROVE clone.rows[x] \in Row
    BY <1>2, <2>1
  <2> QED  BY <1>1, <1>2, <2>1 DEF Tombstone, Row
<1>4. wm \in Watermark \cup {None}
  BY <1>1, FingerprintTyped DEF Watermark
<1>5. clone' = [clone EXCEPT !.rows[x] = r, !.tombs[x] = tomb, !.wms[x] = wm,
                             !.events = TRUE, !.dirty = TRUE, !.wrote = wrote]
  BY DEF CloneWrite
<1>6. wrote \in BOOLEAN
  OBVIOUS
<1> HIDE DEF tomb, wm, wrote
<1>7. /\ [clone.rows EXCEPT ![x] = r] \in Rows
      /\ [clone.tombs EXCEPT ![x] = tomb] \in Tombs
      /\ [clone.wms EXCEPT ![x] = wm] \in Wms
  BY <1>1, <1>3, <1>4 DEF Rows, Tombs, Wms
<1> DEFINE newRows  == [clone.rows EXCEPT ![x] = r]
           newTombs == [clone.tombs EXCEPT ![x] = tomb]
           newWms   == [clone.wms EXCEPT ![x] = wm]
<1>8. clone' = [clone EXCEPT !.rows = newRows, !.tombs = newTombs, !.wms = newWms,
                             !.events = TRUE, !.dirty = TRUE, !.wrote = wrote]
  BY <1>5
<1>9. newRows \in Rows /\ newTombs \in Tombs /\ newWms \in Wms
  BY <1>7
<1> HIDE DEF newRows, newTombs, newWms
<1> QED  BY <1>6, <1>8, <1>9 DEF Clone

LEMMA NewClone ==
  ASSUME NEW rs \in Rows, NEW ts \in Tombs, NEW ws \in Wms, NEW bound \in BOOLEAN,
         NEW saved \in Cursor \cup {None}
  PROVE  [rows |-> rs, tombs |-> ts, wms |-> ws, bound |-> bound,
          source |-> None, base |-> None, saved |-> saved,
          events |-> FALSE, dirty |-> FALSE, wrote |-> FALSE, seen |-> 0] \in Clone
<1>1. None \in (SUBSET Row) \cup {None} /\ None \in Nat \cup {None} /\ 0 \in Nat
  OBVIOUS
<1> QED  BY <1>1, Zenon DEF Clone

LEMMA ReplayTypeInit == ReplayInit => ReplayTypeOK
<1> SUFFICES ASSUME ReplayInit PROVE ReplayTypeOK
  OBVIOUS
<1>1. TypeOK
  BY InvInit DEF ReplayInit, IInv
<1>2. PICK rs \in [Ids -> Preloaded \cup {None}] :
        clone = [rows |-> rs, tombs |-> [x \in Ids |-> None],
                   wms |-> [x \in Ids |-> None], bound |-> SharedBase,
                   source |-> None, base |-> None,
                   saved |-> IF SharedBase
                             THEN [At(0) EXCEPT !.hist = LocalHist] ELSE None,
                   events |-> FALSE, dirty |-> FALSE, wrote |-> FALSE,
                   seen |-> 0]
  BY DEF ReplayInit
<1>3. rs \in Rows
  BY DEF Rows
<1>4. [x \in Ids |-> None] \in Tombs /\ [x \in Ids |-> None] \in Wms
  BY DEF Tombs, Wms
<1>5. [At(0) EXCEPT !.hist = LocalHist] \in Cursor
  BY <1>1, CursorTyped DEF Cursor, LocalHist
<1>6. clone \in Clone
  <2> DEFINE saved == IF SharedBase THEN [At(0) EXCEPT !.hist = LocalHist] ELSE None
             none == [x \in Ids |-> None]
  <2>1. saved \in Cursor \cup {None}
    BY <1>5
  <2>2. SharedBase \in BOOLEAN
    OBVIOUS
  <2>3. none \in Tombs /\ none \in Wms
    BY <1>4
  <2>4. clone = [rows |-> rs, tombs |-> none, wms |-> none, bound |-> SharedBase,
                 source |-> None, base |-> None, saved |-> saved,
                 events |-> FALSE, dirty |-> FALSE, wrote |-> FALSE, seen |-> 0]
    BY <1>2
  <2> HIDE DEF saved, none
  <2> QED  BY <1>3, <2>1, <2>2, <2>3, <2>4, NewClone
<1> QED  BY <1>6 DEF ReplayInit, ReplayTypeOK

LEMMA ReplayTypeStep ==
  ASSUME SourceInv, ReplayTypeOK, [ReplayNext]_vars
  PROVE  ReplayTypeOK'
<1>1. /\ TypeOK /\ clone \in Clone /\ packages \subseteq Package
      /\ exporting \in Export \cup {None} /\ run \in Run \cup {None}
  BY DEF ReplayTypeOK, SourceInv, IInv
<1>2. CASE SourceStep \/ UNCHANGED vars
  BY <1>1, <1>2 DEF SourceStep, vars, ReplayTypeOK
<1>3. CASE ReplayStep
  <2>1. ASSUME NEW b \in Budgets, NEW c \in Cursor, Begin(c, b) PROVE ReplayTypeOK'
    BY <1>1, <2>1, BeginTyped DEF ReplayTypeOK, Begin
  <2>2. ASSUME NEW b \in Budgets, Resume(b) PROVE ReplayTypeOK'
    <3>1. clone.saved # None => clone.saved \in Cursor
      BY <1>1 DEF Clone
    <3>2. At(0) \in Cursor
      BY <1>1, CursorTyped
    <3> QED  BY <2>1, <2>2, <3>1, <3>2 DEF Resume
  <2>3. ASSUME NEW b \in Budgets, NEW c \in Issued, Begin(c, b) PROVE ReplayTypeOK'
    <3>1. c \in Cursor
      BY <1>1, LogTyped, CursorTyped DEF Issued
    <3> QED  BY <2>1, <2>3, <3>1
  <2>4. CASE ScanPage
    BY <1>1, <2>4, ScanPageTyped DEF ReplayTypeOK, ScanPage
  <2>5. CASE ApplyPage
    <3>1. /\ run # None /\ UNCHANGED <<storeVars, packages, exporting>>
          /\ \/ clone' = Commit(Applied1, run) /\ run' = None
             \/ run' = Applying /\ UNCHANGED clone
      BY <2>5, ApplyPageIs
    <3>2. Applied1 \in Tables /\ Applying \in Run /\ run \in Run
      BY <1>1, <3>1, AppliedTyped
    <3>3. Commit(Applied1, run) \in Clone
      BY <1>1, <3>2, CommitTyped
    <3> QED  BY <1>1, <3>1, <3>2, <3>3 DEF ReplayTypeOK
  <2> QED  BY <1>3, <2>2, <2>3, <2>4, <2>5 DEF ReplayStep
<1>4. CASE Crash
  BY <1>1, <1>4 DEF Crash, ReplayTypeOK
<1>5. CASE CloneStep
  <2>1. CASE SnapshotRows
    <3>1. rows \in Rows /\ End \in Nat
      BY <1>1, LogTyped DEF TypeOK, Rows
    <3>2. exporting' \in Export
      BY <2>1, <3>1 DEF SnapshotRows, Export
    <3> QED  BY <1>1, <2>1, <3>2 DEF SnapshotRows, ReplayTypeOK
  <2>2. CASE SnapshotCursor
    BY <1>1, <2>2, SnapshotCursorTyped DEF SnapshotCursor, ReplayTypeOK
  <2>3. ASSUME NEW package \in packages, Hydrate(package) PROVE ReplayTypeOK'
    <3>1. package \in Package
      BY <1>1
    <3>2. clone' \in Clone
      BY <1>1, <2>3, <3>1, HydrateTyped
    <3>3. UNCHANGED <<packages, exporting, run>>
      BY <1>1, <2>3, HydrateIs
    <3> QED  BY <1>1, <3>2, <3>3 DEF ReplayTypeOK
  <2>4. ASSUME NEW x \in Ids, NEW r \in NewRow \cup {None}, CloneWrite(x, r)
        PROVE  ReplayTypeOK'
    <3>1. clone' \in Clone
      BY <1>1, <2>4, CloneWriteTyped
    <3>2. UNCHANGED <<packages, exporting, run>>
      BY <2>4 DEF CloneWrite
    <3> QED  BY <1>1, <3>1, <3>2 DEF ReplayTypeOK
  <2> QED  BY <1>5, <2>1, <2>2, <2>3, <2>4 DEF CloneStep
<1> QED  BY <1>2, <1>3, <1>4, <1>5 DEF ReplayNext

\* A step of the whole system is one of the source, or leaves the source alone.
LEMMA SourceSteps ==
  ASSUME [ReplayNext]_vars
  PROVE  \/ SourceStep /\ SourceOp
         \/ UNCHANGED storeVars
<1>1. CASE SourceStep
  BY <1>1 DEF SourceStep, SourceOp
<1>2. CASE ReplayStep
  BY <1>2 DEF ReplayStep, Resume, Begin, ScanPage, ApplyPage
<1>3. CASE Crash \/ UNCHANGED vars
  BY <1>3 DEF Crash, vars
<1>4. CASE CloneStep
  BY <1>4 DEF CloneStep, SnapshotRows, SnapshotCursor, Hydrate, CloneWrite
<1> QED  BY <1>1, <1>2, <1>3, <1>4 DEF ReplayNext

LEMMA SourceInvAlways ==
  ASSUME SourceInv, [ReplayNext]_vars PROVE SourceInv'
BY SourceSteps, SourceInvStep, SourceInvKept

\* The state of the source, the clone, its packages and a run keeps its
\* types, whatever the source, the caller and the clone do.
THEOREM ReplayTyped == ReplaySpec => []ReplayTypeOK
<1>1. ReplayInit => SourceInv /\ ReplayTypeOK
  BY SourceInvInit, ReplayTypeInit DEF ReplayInit
<1>2. SourceInv /\ ReplayTypeOK /\ [ReplayNext]_vars => SourceInv' /\ ReplayTypeOK'
  BY SourceInvAlways, ReplayTypeStep
<1> QED  BY <1>1, <1>2, PTL DEF ReplaySpec

-----------------------------------------------------------------------------
(* A write of the clone's own.                                             *)

Wrote == clone.wrote = TRUE
Dirty == clone.dirty = TRUE
Logged == clone.events = TRUE

WriteInv ==
  /\ Wrote => Dirty /\ Logged
  /\ run # None => ~Wrote

LEMMA Flags ==
  ASSUME clone \in Clone
  PROVE  /\ clone.wrote <=> Wrote
         /\ clone.dirty <=> Dirty
         /\ clone.events <=> Logged
         /\ clone.bound \in BOOLEAN
BY DEF Clone, Wrote, Dirty, Logged

LEMMA BeginIs ==
  ASSUME SourceInv, ReplayTypeOK, NEW c \in Cursor, NEW b \in Budgets, Begin(c, b)
  PROVE  /\ run = None /\ UNCHANGED <<storeVars, clone, packages, exporting>>
         /\ Valid(c) /\ (Logged => ~Dirty)
         /\ run' # None
<1>1. run = None /\ UNCHANGED <<storeVars, clone, packages, exporting>> /\ Valid(c)
  BY DEF Begin
<1>2. Logged => ~Dirty
  <2>1. clone.events => ~clone.dirty
    BY <1>1 DEF Valid, CleanClone, Diverged
  <2> QED  BY <2>1, Flags DEF ReplayTypeOK
<1>3. run' # None
  BY BeginTyped DEF SourceInv, IInv
<1> QED  BY <1>1, <1>2, <1>3

\* A run begins, reads a page, or writes one.
LEMMA ReplayStepIs ==
  ASSUME SourceInv, ReplayTypeOK, ReplayStep
  PROVE  \/ \E b \in Budgets, c \in Cursor : Begin(c, b)
         \/ ScanPage \/ ApplyPage
<1>1. TypeOK
  BY DEF SourceInv, IInv
<1>2. \A s \in 0..End : At(s) \in Cursor
  BY <1>1, LogTyped, CursorTyped
<1>3. Issued \subseteq Cursor /\ At(0) \in Cursor
  BY <1>1, <1>2, CursorTyped DEF Issued
<1>4. clone.saved # None => clone.saved \in Cursor
  BY DEF ReplayTypeOK, Clone
<1> QED  BY <1>3, <1>4 DEF ReplayStep, Resume

\* What pass 2 leaves in the clone when it commits.
CommitHas(d, c, r) ==
  /\ d.rows = c.rows /\ d.tombs = c.tombs /\ d.wms = c.wms
  /\ d.bound = TRUE /\ d.source = r.cursor.hist
  /\ d.base = LiveRows(c.rows) /\ d.saved = Checkpoint(r)
  /\ d.events = clone.events /\ d.dirty = FALSE
  /\ d.wrote = clone.wrote /\ d.seen = Larger(clone.seen, r.last)

LEMMA CommitIs ==
  ASSUME clone \in Clone, NEW c, NEW r
  PROVE  CommitHas(Commit(c, r), c, r)
BY DEF Commit, Clone, CommitHas

LEMMA HydratedIs ==
  ASSUME clone \in Clone, NEW package \in Package, Hydrate(package)
  PROVE  /\ clone'.events \in {clone.events, TRUE}
         /\ clone'.dirty = clone.dirty /\ clone'.wrote = clone.wrote
<1>1. PICK logged \in {clone.events, TRUE} :
        clone' = [(IF Blank THEN Based(package) ELSE Loaded(package))
                    EXCEPT !.events = logged]
  BY HydrateIs
<1>2. Loaded(package) \in Clone /\ Based(package) \in Clone
  BY HydrateTyped
<1>3. Loaded(package).dirty = clone.dirty /\ Loaded(package).wrote = clone.wrote
  BY DEF Loaded, Clone
<1>4. Based(package).dirty = clone.dirty /\ Based(package).wrote = clone.wrote
  BY <1>2, <1>3 DEF Based, Clone
<1>5. \A c \in Clone : [c EXCEPT !.events = logged].events = logged
                       /\ [c EXCEPT !.events = logged].dirty = c.dirty
                       /\ [c EXCEPT !.events = logged].wrote = c.wrote
  BY DEF Clone
<1>6. CASE Blank
  <2>1. clone' = [Based(package) EXCEPT !.events = logged]
    BY <1>1, <1>6
  <2> QED  BY <1>2, <1>4, <1>5, <2>1
<1>7. CASE ~Blank
  <2>1. clone' = [Loaded(package) EXCEPT !.events = logged]
    BY <1>1, <1>7
  <2> QED  BY <1>2, <1>3, <1>5, <2>1
<1> QED  BY <1>6, <1>7

LEMMA WriteInvStep ==
  ASSUME "write" \notin DuringRun, SourceInv, ReplayTypeOK, WriteInv,
         [ReplayNext]_vars
  PROVE  WriteInv'
<1>1. clone \in Clone /\ run \in Run \cup {None} /\ packages \subseteq Package
  BY DEF ReplayTypeOK
<1>2. CASE UNCHANGED <<clone, run>>
  BY <1>2 DEF WriteInv, Wrote, Dirty, Logged
<1>3. CASE UNCHANGED clone /\ (run' # None => run # None)
  BY <1>3 DEF WriteInv, Wrote, Dirty, Logged
<1>4. CASE SourceStep \/ UNCHANGED vars
  BY <1>2, <1>4 DEF SourceStep, vars
<1>5. CASE ReplayStep
  <2>1. ASSUME NEW b \in Budgets, NEW c \in Cursor, Begin(c, b) PROVE WriteInv'
    <3>1. UNCHANGED clone /\ (Logged => ~Dirty)
      BY <2>1, BeginIs
    <3> QED  BY <3>1 DEF WriteInv, Wrote, Dirty, Logged
  <2>2. CASE ScanPage
    BY <1>3, <2>2 DEF ScanPage
  <2>3. CASE ApplyPage
    <3>1. /\ run # None
          /\ \/ clone' = Commit(Applied1, run) /\ run' = None
             \/ run' = Applying /\ UNCHANGED clone
      BY <2>3, ApplyPageIs
    <3>2. Applied1 \in Tables /\ run \in Run
      BY <1>1, <3>1, AppliedTyped
    <3>3. Commit(Applied1, run).wrote = clone.wrote
      <4>1. CommitHas(Commit(Applied1, run), Applied1, run)
        BY <1>1, CommitIs
      <4> QED  BY <4>1 DEF CommitHas
    <3> QED  BY <3>1, <3>3 DEF WriteInv, Wrote, Dirty, Logged
  <2> QED  BY <1>5, <2>1, <2>2, <2>3, ReplayStepIs
<1>6. CASE Crash
  BY <1>3, <1>6 DEF Crash
<1>7. CASE CloneStep
  <2>1. CASE SnapshotRows \/ SnapshotCursor
    BY <1>2, <2>1 DEF SnapshotRows, SnapshotCursor
  <2>2. ASSUME NEW package \in packages, Hydrate(package) PROVE WriteInv'
    <3>1. /\ clone'.events \in {clone.events, TRUE}
          /\ clone'.dirty = clone.dirty /\ clone'.wrote = clone.wrote
      BY <1>1, <2>2, HydratedIs
    <3>2. run' = run
      BY <1>1, <2>2, HydrateIs
    <3> QED  BY <3>1, <3>2 DEF WriteInv, Wrote, Dirty, Logged
  <2>3. ASSUME NEW x \in Ids, NEW r \in NewRow \cup {None}, CloneWrite(x, r)
        PROVE  WriteInv'
    <3>1. clone'.events = TRUE /\ clone'.dirty = TRUE
      BY <1>1, <2>3 DEF CloneWrite, Clone
    <3>2. run = None /\ run' = run
      BY <2>3 DEF CloneWrite
    <3> QED  BY <3>1, <3>2 DEF WriteInv, Wrote, Dirty, Logged
  <2> QED  BY <1>7, <2>1, <2>2, <2>3 DEF CloneStep
<1> QED  BY <1>4, <1>5, <1>6, <1>7 DEF ReplayNext

\* A clone that has written to its rows after it took its base is seen to
\* have diverged, and no replay covers it up, as long as nothing writes to
\* it while a run is between its reads and its commit.
THEOREM WritesSurface ==
  ASSUME "write" \notin DuringRun PROVE ReplaySpec => []LocalWritesSurface
<1>1. ReplayInit => SourceInv /\ ReplayTypeOK /\ WriteInv
  <2> SUFFICES ASSUME ReplayInit PROVE SourceInv /\ ReplayTypeOK /\ WriteInv
    OBVIOUS
  <2>1. clone.wrote = FALSE /\ run = None
    BY DEF ReplayInit
  <2> QED  BY <2>1, SourceInvInit, ReplayTypeInit DEF ReplayInit, WriteInv, Wrote
<1>2. SourceInv /\ ReplayTypeOK /\ WriteInv /\ [ReplayNext]_vars
        => SourceInv' /\ ReplayTypeOK' /\ WriteInv'
  BY SourceInvAlways, ReplayTypeStep, WriteInvStep
<1>3. ReplayTypeOK /\ WriteInv => LocalWritesSurface
  BY Flags DEF WriteInv, LocalWritesSurface, Diverged, ReplayTypeOK
<1> QED  BY <1>1, <1>2, <1>3, PTL DEF ReplaySpec

-----------------------------------------------------------------------------
(* The plan.                                                               *)

LEMMA WindowIs ==
  ASSUME SourceInv, NEW from, NEW to, NEW s \in Window(from, to)
  PROVE  /\ s \in 1..End /\ s \in Nat /\ s \in Retained /\ from < s /\ s <= to
         /\ log[s].type \in Reconstructing /\ log[s].type # "observed"
         /\ InScope(s)
         /\ log[s].id \in Ids /\ log[s].row \in Row /\ log[s].row # None
         /\ log[s].hist \in Nat
         /\ Touches(s, log[s].id)
<1>1. TypeOK /\ s \in Retained /\ Shown(s) /\ from < s /\ s <= to
  BY DEF SourceInv, IInv, Window
<1>2. s \in 1..End /\ s \in Nat
  BY <1>1 DEF Retained
<1>3. log[s].type \in Reconstructing /\ InScope(s) /\ log[s].type # "observed"
  BY <1>1 DEF Shown, Reconstructing
<1>4. log[s].id \in Ids /\ log[s].row \in Row /\ log[s].row # None
  BY <1>2, <1>3, Reconstructs
<1>5. log[s].hist \in Nat
  BY <1>1, <1>2, EventIs
<1> QED  BY <1>1, <1>2, <1>3, <1>4, <1>5 DEF Touches

\* What planning one more event, later than the rest, changes.
Grows(more, plan, s) ==
  /\ \A x : x # log[s].id => About(more, x) = About(plan, x)
  /\ \A x : x = log[s].id => /\ About(more, x) = About(plan, x) \cup {s}
                             /\ About(more, x) # {} /\ Latest(About(more, x)) = s
  /\ \A x : RowBy(more, x) = IF x = log[s].id THEN After(log[s]) ELSE RowBy(plan, x)
  /\ \A x : TombBy(more, x) =
              IF x = log[s].id /\ log[s].type = "deleted"
              THEN [ns |-> log[s].row.ns, seq |-> s, hist |-> log[s].hist]
              ELSE TombBy(plan, x)
  /\ \A x : WmBy(more, x) =
              IF x # log[s].id THEN WmBy(plan, x)
              ELSE IF log[s].type = "deleted" THEN None
              ELSE [fp |-> Fingerprint(log[s].row), seq |-> s, hist |-> log[s].hist]
  /\ Changed(more) = Changed(plan) \cup {log[s].id}

LEMMA PlanAdd ==
  ASSUME NEW plan \in SUBSET Nat, NEW s \in Nat, \A t \in plan : t < s,
         NEW more, more = plan \cup {s}
  PROVE  Grows(more, plan, s)
<1>0. SUFFICES ASSUME NEW x
      PROVE /\ x # log[s].id => About(more, x) = About(plan, x)
            /\ x = log[s].id => /\ About(more, x) = About(plan, x) \cup {s}
                                /\ About(more, x) # {} /\ Latest(About(more, x)) = s
            /\ RowBy(more, x) = IF x = log[s].id THEN After(log[s]) ELSE RowBy(plan, x)
            /\ TombBy(more, x) =
                 IF x = log[s].id /\ log[s].type = "deleted"
                 THEN [ns |-> log[s].row.ns, seq |-> s, hist |-> log[s].hist]
                 ELSE TombBy(plan, x)
            /\ WmBy(more, x) =
                 IF x # log[s].id THEN WmBy(plan, x)
                 ELSE IF log[s].type = "deleted" THEN None
                 ELSE [fp |-> Fingerprint(log[s].row), seq |-> s, hist |-> log[s].hist]
            /\ Changed(more) = Changed(plan) \cup {log[s].id}
  BY DEF Grows
<1>1. x # log[s].id => About(more, x) = About(plan, x) /\ Ends(more, x) = Ends(plan, x)
  BY DEF About, Ends
<1>2. ASSUME x = log[s].id
      PROVE  /\ About(more, x) = About(plan, x) \cup {s} /\ About(more, x) # {}
             /\ Latest(About(more, x)) = s
  <2>1. About(more, x) = About(plan, x) \cup {s} /\ About(plan, x) \subseteq plan
    BY <1>2 DEF About
  <2>2. About(more, x) \in SUBSET Nat /\ s \in About(more, x)
    BY <2>1
  <2>3. \A u \in About(more, x) : u <= s
    BY <2>1
  <2>4. Latest(About(more, x)) = s
    BY <2>2, <2>3, LatestIs
  <2> QED  BY <2>1, <2>4
<1>3. ASSUME x = log[s].id, log[s].type = "deleted"
      PROVE  Ends(more, x) # {} /\ Latest(Ends(more, x)) = s
  <2>1. Ends(more, x) \in SUBSET Nat /\ s \in Ends(more, x)
    BY <1>2, <1>3 DEF Ends, About
  <2>2. \A u \in Ends(more, x) : u <= s
    BY <1>2, <1>3 DEF Ends, About
  <2> QED  BY <2>1, <2>2, LatestIs
<1>4. log[s].type # "deleted" => Ends(more, x) = Ends(plan, x)
  BY DEF Ends, About
<1>5. Changed(more) = Changed(plan) \cup {log[s].id}
  BY DEF Changed
<1>6. RowBy(more, x) = IF x = log[s].id THEN After(log[s]) ELSE RowBy(plan, x)
  BY <1>1, <1>2 DEF RowBy
<1>7. TombBy(more, x) =
        IF x = log[s].id /\ log[s].type = "deleted"
        THEN [ns |-> log[s].row.ns, seq |-> s, hist |-> log[s].hist]
        ELSE TombBy(plan, x)
  BY <1>1, <1>3, <1>4 DEF TombBy
<1>8. WmBy(more, x) =
        IF x # log[s].id THEN WmBy(plan, x)
        ELSE IF log[s].type = "deleted" THEN None
        ELSE [fp |-> Fingerprint(log[s].row), seq |-> s, hist |-> log[s].hist]
  BY <1>1, <1>2 DEF WmBy
<1> QED  BY <1>1, <1>2, <1>5, <1>6, <1>7, <1>8

-----------------------------------------------------------------------------
(* Pass 1, event by event.                                                 *)

\* What a run that starts after an event relies on.
Ground(from) ==
  /\ UniqueIn(clone.rows) /\ clone.seen \in Nat
  /\ clone.source = None =>
       clone.seen = 0 /\ \A x \in Ids : clone.tombs[x] = None /\ clone.wms[x] = None
  /\ \A s \in Window(from, clone.seen) :
       log[s].hist = meta.hist => Skips(Held, s, meta.hist)

\* What the event is about has been read from the clone.
LoadedFor(sim, s) ==
  log[s].type # "observed" =>
    log[s].id \in sim.loaded /\ HolderIn(clone.rows, log[s].row) \subseteq sim.loaded

LEMMA WindowGrows ==
  ASSUME SourceInv, NEW from \in Nat, NEW s \in 1..End, from < s
  PROVE  Window(from, s) = IF s \in Retained /\ Shown(s)
                           THEN Window(from, s - 1) \cup {s} ELSE Window(from, s - 1)
<1>1. Retained \subseteq 1..End /\ End \in Nat
  BY LaterIs DEF SourceInv, IInv
<1>2. \A t \in Retained : t <= s <=> t = s \/ t <= s - 1
  BY <1>1
<1> QED  BY <1>2 DEF Window

LEMMA ShownIs ==
  ASSUME SourceInv, NEW s \in 1..End
  PROVE  Shown(s) <=> log[s].type # "observed" /\ InScope(s)
<1>1. TypeOK
  BY DEF SourceInv, IInv
<1> QED  BY <1>1, EventIs DEF Shown, Reconstructing

\* A record that no planned event is about is judged as the clone has it.
LEMMA SkipsAsHeld ==
  ASSUME NEW sim, SimIs(sim), NEW s, NEW hist,
         log[s].id \in sim.loaded, log[s].id \notin sim.mutated
  PROVE  /\ About(sim.plan, log[s].id) = {}
         /\ sim.rows[log[s].id] = clone.rows[log[s].id]
         /\ sim.tombs[log[s].id] = clone.tombs[log[s].id]
         /\ sim.wms[log[s].id] = clone.wms[log[s].id]
         /\ Skips(sim, s, hist) <=> Skips(Held, s, hist)
<1> DEFINE x == log[s].id
<1>1. About(sim.plan, x) = {}
  BY DEF SimIs, Changed, About
<1>2. sim.rows[x] = clone.rows[x]
  BY <1>1 DEF SimIs, RowBy
<1>3. sim.tombs[x] = clone.tombs[x] /\ sim.wms[x] = clone.wms[x]
  BY DEF SimIs
<1>4. /\ Held.rows = clone.rows /\ Held.tombs = clone.tombs /\ Held.wms = clone.wms
      /\ Held.mutated = {}
  BY DEF Held, HeldBy
<1>5. Tombstoned(sim, x) <=> Tombstoned(Held, x)
  BY <1>3, <1>4 DEF Tombstoned
<1>6. Covered(sim, s, hist) <=> Covered(Held, s, hist)
  BY <1>2, <1>3, <1>4 DEF Covered
<1>7. Skips(sim, s, hist) <=> Skips(Held, s, hist)
  BY <1>2, <1>3, <1>4, <1>5, <1>6 DEF Skips
<1> QED  BY <1>1, <1>2, <1>3, <1>7

\* A record that a planned event is about is judged by what it comes to.
LEMMA SkipsAsPlanned ==
  ASSUME NEW sim, SimIs(sim), NEW s, NEW hist,
         log[s].id \in sim.mutated, Skips(sim, s, hist)
  PROVE  /\ About(sim.plan, log[s].id) # {}
         /\ RowBy(sim.plan, log[s].id) # None
         /\ log[s].type # "deleted"
         /\ Fingerprint(RowBy(sim.plan, log[s].id)) = Declared(s)
<1> DEFINE x == log[s].id
<1>1. About(sim.plan, x) # {}
  BY DEF SimIs, Changed, About
<1>2. sim.rows[x] = RowBy(sim.plan, x)
  BY DEF SimIs
<1>3. ~Covered(sim, s, hist)
  BY DEF Covered
<1> QED  BY <1>1, <1>2, <1>3 DEF Skips

\* An event that is skipped leaves the plan as it is.
LEMMA PlanSkips ==
  ASSUME SourceInv, NEW from \in Nat, Ground(from),
         NEW sim, SimIs(sim), NEW s \in 1..End, from < s,
         PlanSound(sim.plan, from, s - 1), s \in Retained, Shown(s),
         LoadedFor(sim, s), Skips(sim, s, meta.hist)
  PROVE  PlanSound(sim.plan, from, s)
<1> DEFINE x == log[s].id  plan == sim.plan
<1>1. Window(from, s) = Window(from, s - 1) \cup {s}
  BY WindowGrows
<1>2. log[s].type # "observed" /\ x \in Ids /\ x \in sim.loaded /\ log[s].row \in Row
  BY ShownIs, Reconstructs DEF LoadedFor
<1>3. Settled(plan, s)
  <2>1. CASE x \in sim.mutated
    BY <2>1, SkipsAsPlanned DEF Settled
  <2>2. CASE x \notin sim.mutated
    BY <1>2, <2>2, SkipsAsHeld DEF Settled
  <2> QED  BY <2>1, <2>2
<1>4. ASSUME clone.source = None, NEW y \in Ids, About(plan, y) = {},
             clone.rows[y] # None, clone.rows[y].ns = log[s].row.ns,
             clone.rows[y].hash = log[s].row.hash
      PROVE  x = y
  <2>1. RowBy(plan, y) = clone.rows[y]
    BY <1>4 DEF RowBy
  <2>2. RowBy(plan, x) # None /\ Fingerprint(RowBy(plan, x)) = Declared(s)
    <3>1. CASE x \in sim.mutated
      BY <3>1, SkipsAsPlanned
    <3>2. CASE x \notin sim.mutated
      <4>1. Skips(Held, s, meta.hist) /\ About(plan, x) = {}
        BY <1>2, <3>2, SkipsAsHeld
      <4>2. Held.rows[x] # None /\ Fingerprint(Held.rows[x]) = Declared(s)
        <5>1. Held.tombs[x] = None /\ Held.wms[x] = None
          BY <1>2, <1>4 DEF Ground, Held, HeldBy
        <5> QED  BY <4>1, <5>1 DEF Skips, Tombstoned, Covered
      <4>3. RowBy(plan, x) = Held.rows[x]
        BY <4>1 DEF RowBy, Held, HeldBy
      <4> QED  BY <4>2, <4>3
    <3> QED  BY <3>1, <3>2
  <2>3. RowBy(plan, x).ns = log[s].row.ns /\ RowBy(plan, x).hash = log[s].row.hash
    BY <2>2 DEF Declared, Fingerprint
  <2>4. UniqueIn(RowsBy(plan))
    BY DEF PlanSound
  <2>5. RowsBy(plan)[x] = RowBy(plan, x) /\ RowsBy(plan)[y] = RowBy(plan, y)
    BY <1>2 DEF RowsBy
  <2> QED  BY <1>2, <1>4, <2>1, <2>2, <2>3, <2>4, <2>5 DEF UniqueIn
<1>5. clone.source = None => Accounted(plan, s)
  BY <1>4 DEF Accounted
<1> QED  BY <1>1, <1>3, <1>5 DEF PlanSound

\* Whoever holds what the event writes is known to the simulation.
LEMMA HoldersLoaded ==
  ASSUME NEW sim, SimIs(sim), NEW s, LoadedFor(sim, s), log[s].type # "observed",
         NEW y \in Ids, RowBy(sim.plan, y) # None,
         RowBy(sim.plan, y).ns = log[s].row.ns,
         RowBy(sim.plan, y).hash = log[s].row.hash
  PROVE  y \in sim.loaded /\ y \in HolderIn(sim.rows, log[s].row)
<1>1. y \in sim.loaded
  <2>1. CASE About(sim.plan, y) = {}
    <3>1. RowBy(sim.plan, y) = clone.rows[y]
      BY <2>1 DEF RowBy
    <3>2. y \in HolderIn(clone.rows, log[s].row)
      BY <3>1 DEF HolderIn
    <3> QED  BY <3>2 DEF LoadedFor
  <2>2. CASE About(sim.plan, y) # {}
    BY <2>2 DEF About, SimIs, Changed
  <2> QED  BY <2>1, <2>2
<1>2. sim.rows[y] = RowBy(sim.plan, y)
  BY <1>1 DEF SimIs
<1> QED  BY <1>1, <1>2 DEF HolderIn

\* What a planned event is written on is what the plan comes to before it.
LEMMA AppliesFits ==
  ASSUME SourceInv, NEW sim, SimIs(sim), NEW s \in 1..End, LoadedFor(sim, s),
         log[s].type # "observed", Applies(sim, s), UniqueIn(RowsBy(sim.plan))
  PROVE  /\ Fits(RowsBy(sim.plan), s)
         /\ \A y \in Ids : (/\ RowBy(sim.plan, y) # None
                            /\ RowBy(sim.plan, y).ns = log[s].row.ns
                            /\ RowBy(sim.plan, y).hash = log[s].row.hash)
                             => y = log[s].id
<1> DEFINE x == log[s].id  rs == RowsBy(sim.plan)
<1>1. x \in Ids /\ x \in sim.loaded
  BY Reconstructs DEF LoadedFor
<1>2. sim.rows[x] = RowBy(sim.plan, x)
  BY <1>1 DEF SimIs
<1>3. \A y \in Ids : rs[y] = RowBy(sim.plan, y)
  BY DEF RowsBy
<1>8. UniqueIn(rs)
  OBVIOUS
<1> HIDE DEF rs
<1>4. ASSUME NEW y \in HolderIn(rs, log[s].row)
      PROVE  y \in HolderIn(sim.rows, log[s].row)
  BY <1>3, HoldersLoaded DEF HolderIn
<1> DEFINE Mine == \A y \in Ids : (/\ rs[y] # None /\ rs[y].ns = log[s].row.ns
                                /\ rs[y].hash = log[s].row.hash)
                                 => y = x
<1>5. ASSUME Creates(sim, s) PROVE Fits(rs, s) /\ Mine
  <2>1. /\ log[s].type = "created" /\ rs[x] = None
        /\ HolderIn(sim.rows, log[s].row) = {}
    BY <1>1, <1>2, <1>3, <1>5 DEF Creates
  <2>2. HolderIn(rs, log[s].row) = {}
    BY <1>4, <2>1
  <2>3. Fits(rs, s)
    BY <2>1, <2>2 DEF Fits
  <2> QED  BY <2>2, <2>3 DEF HolderIn
<1>6. ASSUME Updates(sim, s) PROVE Fits(rs, s) /\ Mine
  <2>1. /\ log[s].type = "updated" /\ rs[x] # None
        /\ HolderIn(sim.rows, log[s].row) \subseteq {x}
    BY <1>1, <1>2, <1>3, <1>6 DEF Updates
  <2>2. HolderIn(rs, log[s].row) \subseteq {x}
    BY <1>4, <2>1
  <2>3. Fits(rs, s)
    BY <2>1, <2>2 DEF Fits
  <2> QED  BY <2>2, <2>3 DEF HolderIn
<1>7. ASSUME Deletes(sim, s) PROVE Fits(rs, s) /\ Mine
  <2>1. /\ log[s].type = "deleted" /\ rs[x] # None
        /\ Fingerprint(rs[x]) = Declared(s)
    BY <1>1, <1>2, <1>3, <1>7 DEF Deletes
  <2>2. rs[x].ns = log[s].row.ns /\ rs[x].hash = log[s].row.hash
    BY <2>1 DEF Declared, Fingerprint
  <2>3. Fits(rs, s)
    BY <2>1 DEF Fits
  <2> QED  BY <1>1, <1>8, <2>1, <2>2, <2>3 DEF UniqueIn
<1>9. Fits(rs, s) /\ Mine
  BY <1>5, <1>6, <1>7 DEF Applies
<1>10. \A y \in Ids : (/\ RowBy(sim.plan, y) # None
                       /\ RowBy(sim.plan, y).ns = log[s].row.ns
                       /\ RowBy(sim.plan, y).hash = log[s].row.hash)
                        => y = x
  <2> SUFFICES ASSUME NEW y \in Ids, RowBy(sim.plan, y) # None,
                      RowBy(sim.plan, y).ns = log[s].row.ns,
                      RowBy(sim.plan, y).hash = log[s].row.hash
               PROVE  y = x
    OBVIOUS
  <2>1. rs[y] = RowBy(sim.plan, y)
    BY <1>3
  <2> QED  BY <1>9, <2>1
<1> QED  BY <1>9, <1>10 DEF rs

\* An event is planned on a record whose deletion the clone does not hold, and
\* after all the clone has been through.
LEMMA AppliesNew ==
  ASSUME SourceInv, NEW from \in Nat, Ground(from),
         NEW sim, SimIs(sim), NEW s \in 1..End, from < s,
         PlanSound(sim.plan, from, s - 1), s \in Retained, Shown(s),
         LoadedFor(sim, s), log[s].hist = meta.hist,
         ~Skips(sim, s, meta.hist), Applies(sim, s)
  PROVE  clone.seen < s /\ clone.tombs[log[s].id] = None
<1> DEFINE x == log[s].id
<1>1. log[s].type # "observed" /\ x \in sim.loaded
  BY ShownIs DEF LoadedFor
<1>2. CASE x \in sim.mutated
  <2>1. PICK t \in sim.plan : log[t].id = x
    BY <1>2 DEF SimIs, Changed
  <2>2. clone.seen < t /\ clone.tombs[x] = None
    BY <2>1 DEF PlanSound
  <2>3. t \in Nat /\ t < s
    <3>1. t \in Window(from, s - 1)
      BY <2>1 DEF PlanSound
    <3> QED  BY <3>1, WindowIs
  <2> QED  BY <2>2, <2>3 DEF Ground
<1>3. CASE x \notin sim.mutated
  <2>1. ~Skips(Held, s, meta.hist) /\ sim.tombs[x] = clone.tombs[x]
    BY <1>1, <1>3, SkipsAsHeld
  <2>2. ~(s <= clone.seen)
    BY <2>1 DEF Ground, Window
  <2>3. sim.tombs[x] = None
    BY DEF Applies, Tombstoned
  <2> QED  BY <2>1, <2>2, <2>3 DEF Ground
<1> QED  BY <1>2, <1>3

LEMMA PlanApplies ==
  ASSUME SourceInv, NEW from \in Nat, Ground(from),
         NEW sim, SimIs(sim), NEW s \in 1..End, from < s,
         PlanSound(sim.plan, from, s - 1), s \in Retained, Shown(s),
         LoadedFor(sim, s), log[s].hist = meta.hist,
         ~Skips(sim, s, meta.hist), Applies(sim, s)
  PROVE  PlanSound(sim.plan \cup {s}, from, s)
<1> DEFINE x == log[s].id  plan == sim.plan  more == plan \cup {s}
<1>1. Window(from, s) = Window(from, s - 1) \cup {s}
  BY WindowGrows
<1>2. log[s].type # "observed" /\ x \in Ids /\ x \in sim.loaded /\ log[s].row \in Row
      /\ log[s].row # None
  BY ShownIs, Reconstructs DEF LoadedFor
<1>3. plan \in SUBSET Nat /\ \A t \in plan : t < s /\ t \in Window(from, s - 1)
  <2>1. plan \subseteq Window(from, s - 1)
    BY DEF PlanSound
  <2> QED  BY <2>1, WindowIs
<1>4. more \subseteq Window(from, s)
  BY <1>1, <1>3
<1>5. \A t \in more : clone.seen < t /\ clone.tombs[log[t].id] = None
  BY AppliesNew DEF PlanSound
<1>6. /\ Fits(RowsBy(plan), s)
      /\ \A y \in Ids : (/\ RowBy(plan, y) # None
                         /\ RowBy(plan, y).ns = log[s].row.ns
                         /\ RowBy(plan, y).hash = log[s].row.hash)
                          => y = x
  BY <1>2, AppliesFits DEF PlanSound
<1>7. /\ \A y : RowBy(more, y) = IF y = x THEN After(log[s]) ELSE RowBy(plan, y)
      /\ \A y : y # x => About(more, y) = About(plan, y)
      /\ s \in About(more, x)
      /\ \A y : About(plan, y) \subseteq About(more, y)
  <2>1. Grows(more, plan, s)
    BY <1>3, PlanAdd
  <2>2. s \in About(more, x) /\ \A y : About(plan, y) \subseteq About(more, y)
    BY DEF About
  <2> HIDE DEF more
  <2> QED  BY <2>1, <2>2 DEF Grows
<1>8. UniqueIn(RowsBy(more))
  <2>1. \A y \in Ids : RowsBy(plan)[y] = RowBy(plan, y)
    BY DEF RowsBy
  <2>2. UniqueIn(RowsBy(plan))
    BY DEF PlanSound
  <2>3. \A y \in Ids : RowsBy(more)[y] = IF y = x THEN After(log[s]) ELSE RowBy(plan, y)
    BY <1>7 DEF RowsBy
  <2>4. After(log[s]) # None => After(log[s]) = log[s].row
    BY DEF After
  <2> HIDE DEF more, x
  <2> SUFFICES ASSUME NEW y \in Ids, NEW z \in Ids,
                      RowsBy(more)[y] # None, RowsBy(more)[z] # None,
                      RowsBy(more)[y].ns = RowsBy(more)[z].ns,
                      RowsBy(more)[y].hash = RowsBy(more)[z].hash
               PROVE  y = z
    BY DEF UniqueIn
  <2>5. CASE y # x /\ z # x
    BY <2>1, <2>2, <2>3, <2>5 DEF UniqueIn
  <2>6. CASE y = x /\ z # x
    BY <1>6, <2>3, <2>4, <2>6
  <2>7. CASE y # x /\ z = x
    BY <1>6, <2>3, <2>4, <2>7
  <2> QED  BY <2>5, <2>6, <2>7
<1>9. ASSUME NEW t \in more PROVE Fits(RowsBy(Before(more, t)), t)
  <2>1. CASE t \in plan
    <3>1. Before(more, t) = Before(plan, t)
      BY <1>3, <2>1 DEF Before
    <3> QED  BY <2>1, <3>1 DEF PlanSound
  <2>2. CASE t = s
    <3>1. Before(more, t) = plan
      BY <1>3, <2>2 DEF Before
    <3> QED  BY <1>6, <2>2, <3>1
  <2> QED  BY <2>1, <2>2
<1>10. ASSUME NEW u \in Window(from, s) PROVE Settled(more, u)
  <2>1. CASE u = s
    <3>1. s \in About(more, log[u].id) /\ u <= s
      BY <1>7, <2>1
    <3> HIDE DEF more
    <3> QED  BY <3>1 DEF Settled
  <2>2. CASE u # s
    <3>1. u \in Window(from, s - 1) /\ Settled(plan, u)
      BY <1>1, <2>2 DEF PlanSound
    <3>2. u <= s
      BY <3>1, WindowIs
    <3>3. CASE log[u].id = x
      BY <1>7, <3>2, <3>3 DEF Settled
    <3>4. CASE log[u].id # x
      <4>1. /\ About(more, log[u].id) = About(plan, log[u].id)
            /\ RowBy(more, log[u].id) = RowBy(plan, log[u].id)
        BY <1>7, <3>4
      <4> HIDE DEF more
      <4> QED  BY <3>1, <4>1 DEF Settled
    <3> QED  BY <3>3, <3>4
  <2> QED  BY <2>1, <2>2
<1>11. ASSUME clone.source = None, NEW u \in Window(from, s) PROVE Accounted(more, u)
  <2> SUFFICES ASSUME NEW y \in Ids, About(more, y) = {}, clone.rows[y] # None,
                      clone.rows[y].ns = log[u].row.ns,
                      clone.rows[y].hash = log[u].row.hash
               PROVE  log[u].id = y
    BY DEF Accounted
  <2>1. About(plan, y) = {} /\ RowBy(plan, y) = clone.rows[y]
    BY <1>7 DEF RowBy
  <2>2. CASE u = s
    BY <1>6, <2>1, <2>2
  <2>3. CASE u # s
    <3>1. Accounted(plan, u)
      BY <1>1, <1>11, <2>3 DEF PlanSound
    <3> QED  BY <2>1, <3>1 DEF Accounted
  <2> QED  BY <2>2, <2>3
<1> HIDE DEF more
<1>12. PlanSound(more, from, s)
  BY <1>4, <1>5, <1>8, <1>9, <1>10, <1>11 DEF PlanSound
<1> QED  BY <1>12 DEF more

\* What is simulated for an event that applies.
LEMMA SimulateIs ==
  ASSUME SourceInv, NEW sim \in Sim, SimIs(sim), NEW s \in 1..End,
         \A t \in sim.plan : t < s, LoadedFor(sim, s), log[s].type # "observed",
         NEW hist
  PROVE  LET next == Simulate(sim, s, hist)
         IN  next.plan = sim.plan \cup {s} /\ next.loaded = sim.loaded /\ SimIs(next)
<1> DEFINE next == Simulate(sim, s, hist)  x == log[s].id
<1>1. x \in Ids /\ x \in sim.loaded
  BY Reconstructs DEF LoadedFor
<1>2. /\ sim.rows \in Rows /\ sim.tombs \in Tombs /\ sim.plan \in SUBSET Nat
  BY DEF Sim
<1>3. /\ next.plan = sim.plan \cup {s} /\ next.loaded = sim.loaded
      /\ next.mutated = sim.mutated \cup {x} /\ next.failed = sim.failed
      /\ next.wms = sim.wms
      /\ next.rows = [sim.rows EXCEPT ![x] = After(log[s])]
      /\ next.tombs = [sim.tombs EXCEPT ![x] =
                         IF log[s].type = "deleted"
                         THEN [ns |-> log[s].row.ns, seq |-> s, hist |-> hist]
                         ELSE sim.tombs[x]]
  BY DEF Simulate, Sim
<1> HIDE DEF next
<1>4. /\ next.rows[x] = After(log[s])
      /\ \A y : y # x => next.rows[y] = sim.rows[y] /\ next.tombs[y] = sim.tombs[y]
  BY <1>1, <1>2, <1>3 DEF Rows, Tombs
<1>5. /\ \A y : RowBy(next.plan, y) = IF y = x THEN After(log[s]) ELSE RowBy(sim.plan, y)
      /\ Changed(next.plan) = Changed(sim.plan) \cup {x}
  <2>1. Grows(next.plan, sim.plan, s)
    BY <1>2, <1>3, PlanAdd
  <2> QED  BY <2>1 DEF Grows
<1>6. SimIs(next)
  <2>0. /\ sim.failed = FALSE /\ sim.mutated = Changed(sim.plan)
        /\ sim.mutated \subseteq sim.loaded
        /\ \A y \in sim.loaded : sim.rows[y] = RowBy(sim.plan, y)
    BY DEF SimIs
  <2>1. /\ next.failed = FALSE /\ next.mutated = Changed(next.plan)
        /\ next.mutated \subseteq next.loaded
    <3>1. next.failed = FALSE
      BY <1>3, <2>0
    <3>2. next.mutated = Changed(next.plan)
      BY <1>3, <1>5, <2>0
    <3>3. next.mutated \subseteq next.loaded
      BY <1>1, <1>3, <2>0
    <3> QED  BY <3>1, <3>2, <3>3
  <2>2. ASSUME NEW y \in next.loaded PROVE next.rows[y] = RowBy(next.plan, y)
    <3>1. y \in sim.loaded /\ sim.rows[y] = RowBy(sim.plan, y)
      BY <1>3, <2>0
    <3>2. RowBy(next.plan, y) = IF y = x THEN After(log[s]) ELSE RowBy(sim.plan, y)
      BY <1>5
    <3> QED  BY <1>4, <3>1, <3>2
  <2>3. ASSUME NEW y \in next.loaded \ next.mutated
        PROVE  next.tombs[y] = clone.tombs[y] /\ next.wms[y] = clone.wms[y]
    <3>1. y # x /\ y \in sim.loaded \ sim.mutated
      BY <1>3
    <3> QED  BY <1>3, <1>4, <3>1 DEF SimIs
  <2> QED  BY <2>1, <2>2, <2>3 DEF SimIs
<1> QED  BY <1>3, <1>6 DEF next

\* The simulation stands for what the plan makes of the clone, unless the
\* run has been refused.
Good(sim, from, to) ==
  sim.failed = FALSE => PlanSound(sim.plan, from, to) /\ SimIs(sim)

LEMMA PlanStepSound ==
  ASSUME SourceInv, NEW from \in Nat, Ground(from), meta.epoch <= from,
         NEW sim \in Sim, NEW s \in 1..End, from < s, s \in Retained, InScope(s),
         Good(sim, from, s - 1), LoadedFor(sim, s),
         NEW next, next = PlanStep(sim, s, meta.hist)
  PROVE  next.loaded = sim.loaded /\ Good(next, from, s)
<1>0. \A r : r = [sim EXCEPT !.failed = TRUE] => r.loaded = sim.loaded /\ r.failed = TRUE
  BY DEF Sim
<1>1. CASE sim.failed = TRUE
  <2>1. next = sim
    BY <1>1 DEF PlanStep
  <2> QED  BY <1>1, <2>1 DEF Good
<1>2. CASE sim.failed = FALSE
  <2>1. PlanSound(sim.plan, from, s - 1) /\ SimIs(sim)
    BY <1>2 DEF Good
  <2>2. CASE log[s].type = "observed"
    <3>1. next = sim
      BY <2>2 DEF PlanStep
    <3>2. Window(from, s) = Window(from, s - 1)
      BY <2>2, WindowGrows, ShownIs
    <3>3. PlanSound(sim.plan, from, s)
      BY <2>1, <3>2 DEF PlanSound
    <3> QED  BY <2>1, <3>1, <3>3 DEF Good
  <2>3. CASE log[s].type # "observed" /\ ~OfHistory(s, meta.hist)
    <3>1. next = [sim EXCEPT !.failed = TRUE]
      BY <1>2, <2>3 DEF PlanStep
    <3> QED  BY <1>0, <3>1 DEF Good
  <2>4. CASE log[s].type # "observed" /\ OfHistory(s, meta.hist) /\ Skips(sim, s, meta.hist)
    <3>1. next = sim
      BY <1>2, <2>4 DEF PlanStep
    <3>2. Shown(s)
      BY <2>4, ShownIs
    <3>3. PlanSound(sim.plan, from, s)
      BY <2>1, <2>4, <3>2, PlanSkips
    <3> QED  BY <2>1, <3>1, <3>3 DEF Good
  <2>5. CASE /\ log[s].type # "observed" /\ OfHistory(s, meta.hist)
             /\ ~Skips(sim, s, meta.hist) /\ Applies(sim, s)
    <3>1. next = Simulate(sim, s, meta.hist)
      BY <1>2, <2>5 DEF PlanStep
    <3>2. Shown(s) /\ log[s].hist = meta.hist
      BY <2>5, ShownIs DEF OfHistory
    <3>3. \A t \in sim.plan : t < s
      <4>1. sim.plan \subseteq Window(from, s - 1)
        BY <2>1 DEF PlanSound
      <4> QED  BY <4>1, WindowIs
    <3>4. next.plan = sim.plan \cup {s} /\ next.loaded = sim.loaded /\ SimIs(next)
      BY <2>1, <2>5, <3>1, <3>3, SimulateIs
    <3>5. PlanSound(sim.plan \cup {s}, from, s)
      BY <2>1, <2>5, <3>2, PlanApplies
    <3> QED  BY <3>4, <3>5 DEF Good
  <2>6. CASE /\ log[s].type # "observed" /\ OfHistory(s, meta.hist)
             /\ ~Skips(sim, s, meta.hist) /\ ~Applies(sim, s)
    <3>1. next = [sim EXCEPT !.failed = TRUE]
      BY <1>2, <2>6 DEF PlanStep
    <3> QED  BY <1>0, <3>1 DEF Good
  <2> QED  BY <2>2, <2>3, <2>4, <2>5, <2>6
<1> QED  BY <1>1, <1>2 DEF Sim

\* Reading candidates from the clone changes nothing that was there.
LEMMA LoadIs ==
  ASSUME SourceInv, clone \in Clone, NEW sim \in Sim, NEW page \in SUBSET (1..End),
         NEW next, next = Load(sim, page), SimIs(sim)
  PROVE  /\ next.plan = sim.plan /\ next.failed = FALSE /\ SimIs(next)
         /\ \A s \in page : LoadedFor(next, s)
<1> DEFINE named == {e.id : e \in {log[s] : s \in page}} \cup
             UNION {HolderIn(clone.rows, r) :
                r \in (UNION {{e.row, e.prev} : e \in {log[s] : s \in page}}) \ {None}}
           new == (named \cap Ids) \ sim.loaded
<1>1. next = [sim EXCEPT
        !.rows  = [x \in Ids |-> IF x \in new THEN clone.rows[x] ELSE sim.rows[x]],
        !.tombs = [x \in Ids |-> IF x \in new THEN clone.tombs[x] ELSE sim.tombs[x]],
        !.wms   = [x \in Ids |-> IF x \in new THEN clone.wms[x] ELSE sim.wms[x]],
        !.loaded = sim.loaded \cup new]
  BY DEF Load
<1>2. ASSUME NEW s \in page, log[s].type # "observed"
      PROVE  log[s].id \in named \cap Ids /\ HolderIn(clone.rows, log[s].row) \subseteq named \cap Ids
  <2>1. log[s].id \in Ids /\ log[s].row # None
    BY <1>2, Reconstructs
  <2>2. log[s] \in {log[t] : t \in page}
    OBVIOUS
  <2>3. log[s].id \in named
    BY <2>2
  <2>4. log[s].row \in (UNION {{e.row, e.prev} : e \in {log[t] : t \in page}}) \ {None}
    BY <2>1, <2>2
  <2>5. HolderIn(clone.rows, log[s].row) \subseteq named
    BY <2>4
  <2>6. HolderIn(clone.rows, log[s].row) \subseteq Ids
    BY DEF HolderIn
  <2> HIDE DEF named
  <2> QED  BY <2>1, <2>3, <2>5, <2>6
<1>3. new \in SUBSET Ids
  OBVIOUS
<1>4. named \cap Ids \subseteq sim.loaded \cup new
  OBVIOUS
<1> HIDE DEF named, new
<1>5. /\ next.plan = sim.plan /\ next.mutated = sim.mutated
      /\ next.loaded = sim.loaded \cup new
      /\ \A x \in Ids : /\ next.rows[x] = IF x \in new THEN clone.rows[x] ELSE sim.rows[x]
                        /\ next.tombs[x] = IF x \in new THEN clone.tombs[x] ELSE sim.tombs[x]
                        /\ next.wms[x] = IF x \in new THEN clone.wms[x] ELSE sim.wms[x]
  BY <1>1 DEF Sim
<1>6. next.failed = sim.failed
  BY <1>1 DEF Sim
<1>7. next.failed = FALSE
  BY <1>6 DEF SimIs
<1>8. SimIs(next)
  <2>1. /\ sim.mutated = Changed(sim.plan) /\ sim.mutated \subseteq sim.loaded
        /\ \A x \in sim.loaded : sim.rows[x] = RowBy(sim.plan, x)
        /\ \A x \in sim.loaded \ sim.mutated :
             sim.tombs[x] = clone.tombs[x] /\ sim.wms[x] = clone.wms[x]
    BY DEF SimIs
  <2>2. new \cap sim.loaded = {} /\ sim.loaded \subseteq Ids
    BY DEF new, Sim
  <2>3. next.mutated = Changed(next.plan) /\ next.mutated \subseteq next.loaded
    BY <1>5, <2>1
  <2>4. ASSUME NEW x \in next.loaded PROVE next.rows[x] = RowBy(next.plan, x)
    <3>1. CASE x \in new
      <4>1. About(next.plan, x) = {}
        <5>1. x \notin Changed(sim.plan)
          BY <2>1, <2>2, <3>1
        <5> QED  BY <1>5, <5>1 DEF About, Changed
      <4> QED  BY <1>3, <1>5, <3>1, <4>1 DEF RowBy
    <3>2. CASE x \notin new
      BY <1>5, <2>1, <2>2, <3>2
    <3> QED  BY <3>1, <3>2
  <2>5. ASSUME NEW x \in next.loaded \ next.mutated
        PROVE  next.tombs[x] = clone.tombs[x] /\ next.wms[x] = clone.wms[x]
    BY <1>3, <1>5, <2>1, <2>2
  <2> QED  BY <1>7, <2>3, <2>4, <2>5 DEF SimIs
<1>9. \A s \in page : LoadedFor(next, s)
  BY <1>2, <1>4, <1>5 DEF LoadedFor
<1> QED  BY <1>5, <1>7, <1>8, <1>9

\* A page whose events are read in order, none left out, is planned soundly.
LEMMA PlanPage ==
  ASSUME SourceInv, clone \in Clone, NEW from \in Nat, Ground(from),
         meta.epoch <= from, NEW sim \in Sim, SimIs(sim), NEW at \in Nat, from <= at,
         PlanSound(sim.plan, from, at), NEW taken \in SUBSET Later(at),
         NEW last, last = LastOf(taken, at), at <= End,
         \A s \in Later(at) : s <= last => s \in taken,
         NEW next, next = Plan(sim, taken, meta.hist)
  PROVE  last \in at..End /\ Good(next, from, last)
<1>0. TypeOK /\ meta.hist \in Nat /\ End \in Nat
  BY LaterIs DEF SourceInv, IInv, TypeOK, Meta
<1>1. /\ taken \in SUBSET (0..End) /\ taken \in SUBSET (1..End)
      /\ \A s \in taken : at < s /\ s \in Retained /\ InScope(s)
      /\ Retained \subseteq 1..End
  <2>1. Later(at) \in SUBSET (0..End) /\ Later(at) \subseteq Retained
        /\ Retained \subseteq 1..End
    BY <1>0, LaterIs
  <2>2. \A s \in taken : at < s /\ InScope(s)
    BY DEF Later
  <2> QED  BY <2>1, <2>2
<1>2. last \in at..End /\ \A s \in taken : s <= last
  <2>1. CASE taken = {}
    BY <1>0, <1>1, <2>1, LastOfIs
  <2>2. CASE taken # {}
    <3>1. last \in taken /\ \A t \in taken : t <= last
      BY <1>0, <1>1, <2>2, LastOfIs
    <3> QED  BY <1>1, <3>1
  <2> QED  BY <2>1, <2>2
<1>3. PICK f : Planned(f, sim, taken, meta.hist)
  BY <1>0, PlanIs
<1>4. /\ f[0] = Load(sim, taken) /\ next = f[End]
      /\ \A s \in 1..End :
           f[s] = IF s \in taken THEN PlanStep(f[s - 1], s, meta.hist) ELSE f[s - 1]
  BY <1>3 DEF Planned
<1> DEFINE To(s) == IF s <= at THEN at ELSE IF s <= last THEN s ELSE last
           S == {s \in 0..End : /\ f[s] \in Sim /\ f[s].loaded = f[0].loaded
                                /\ Good(f[s], from, To(s))}
<1>5. /\ f[0] \in Sim /\ Good(f[0], from, at)
      /\ \A s \in taken : LoadedFor(f[0], s)
  <2>1. f[0] \in Sim
    BY <1>4, LoadTyped
  <2>2. /\ f[0].plan = sim.plan /\ SimIs(f[0])
        /\ \A s \in taken : LoadedFor(f[0], s)
    <3>1. PICK loaded : loaded = Load(sim, taken)
      OBVIOUS
    <3>2. taken \in SUBSET (1..End)
      BY <1>1
    <3>3. /\ loaded.plan = sim.plan /\ SimIs(loaded)
          /\ \A s \in taken : LoadedFor(loaded, s)
      BY <3>1, <3>2, LoadIs
    <3>4. f[0] = loaded
      BY <1>4, <3>1
    <3> QED  BY <3>3, <3>4
  <2> QED  BY <2>1, <2>2 DEF Good
<1>6. 0 \in S
  BY <1>0, <1>5
<1>7. ASSUME NEW s \in 1..End, s - 1 \in S PROVE s \in S
  <2>1. f[s - 1] \in Sim /\ f[s - 1].loaded = f[0].loaded /\ Good(f[s - 1], from, To(s - 1))
    BY <1>7
  <2>2. CASE s \in taken
    <3>1. at < s /\ s <= last /\ s \in Retained /\ InScope(s)
      BY <1>1, <1>2, <2>2
    <3>2. To(s) = s /\ To(s - 1) = s - 1 /\ from < s
      BY <1>0, <1>2, <3>1
    <3>3. LoadedFor(f[s - 1], s)
      BY <1>5, <2>1, <2>2 DEF LoadedFor
    <3>4. Good(f[s - 1], from, s - 1)
      BY <2>1, <3>2
    <3>5. f[s] = PlanStep(f[s - 1], s, meta.hist)
      BY <1>4, <2>2
    <3>6. f[s].loaded = f[s - 1].loaded /\ Good(f[s], from, s)
      BY <2>1, <3>1, <3>2, <3>3, <3>4, <3>5, PlanStepSound
    <3>7. f[s] \in Sim
      BY <1>0, <2>1, <3>5, PlanStepTyped
    <3>8. Good(f[s], from, To(s))
      BY <3>2, <3>6
    <3> QED  BY <2>1, <3>6, <3>7, <3>8
  <2>3. CASE s \notin taken
    <3>1. f[s] = f[s - 1]
      BY <1>4, <2>3
    <3>2. Good(f[s], from, To(s))
      <4>1. CASE s <= at \/ last < s
        <5>1. To(s) = To(s - 1)
          BY <1>0, <1>2, <4>1
        <5> QED  BY <2>1, <3>1, <5>1
      <4>2. CASE at < s /\ s <= last
        <5>1. To(s) = s /\ To(s - 1) = s - 1 /\ from < s
          BY <1>0, <1>2, <4>2
        <5>2. ~(s \in Retained /\ Shown(s))
          BY <2>3, <4>2 DEF Later, Shown
        <5>3. Window(from, s) = Window(from, s - 1)
          BY <5>1, <5>2, WindowGrows
        <5>4. Good(f[s], from, s - 1)
          BY <2>1, <3>1, <5>1
        <5>5. Good(f[s], from, s)
          BY <5>3, <5>4 DEF Good, PlanSound
        <5> QED  BY <5>1, <5>5
      <4> QED  BY <1>0, <1>2, <4>1, <4>2
    <3> QED  BY <2>1, <3>1, <3>2
  <2> QED  BY <2>2, <2>3
<1>8. End \in S
  <2> HIDE DEF S
  <2>1. 0..End \subseteq S
    BY <1>0, <1>6, <1>7, UpTo
  <2> QED  BY <1>0, <2>1
<1>9. To(End) = last
  BY <1>0, <1>2
<1>10. Good(f[End], from, To(End))
  BY <1>8
<1> QED  BY <1>2, <1>4, <1>9, <1>10

-----------------------------------------------------------------------------
(* The source goes on.                                                     *)

\* Events are appended, and nothing else happens to the source.
GoesOn ==
  /\ End \in Nat /\ End' \in Nat /\ End <= End'
  /\ Retained \subseteq 1..End /\ Retained' \subseteq 1..End'
  /\ \A s \in 1..End : log'[s] = log[s] /\ (s \in Retained' <=> s \in Retained)
  /\ \A s \in (End + 1)..End' : s \in Retained'
  /\ meta' = meta

LEMMA WriteGoesOn ==
  ASSUME SourceInv, SourceInv', LocalWrite \/ UNCHANGED storeVars
  PROVE  GoesOn
<1>1. TypeOK /\ TypeOK'
  BY DEF SourceInv, IInv
<1>2. /\ End \in Nat /\ Retained = {s \in 1..End : dropped < s} /\ dropped \in 0..End
      /\ Retained \subseteq 1..End
  BY <1>1, LaterIs DEF Retained, TypeOK
<1>3. /\ End' \in Nat /\ Retained' = {s \in 1..End' : dropped' < s}
      /\ Retained' \subseteq 1..End'
  <2>1. Retained' = {s \in 1..End' : dropped' < s}
    BY DEF Retained
  <2>2. dropped' \in 0..End' /\ log' \in Seq(Event) /\ End' = Len(log')
    BY <1>1 DEF TypeOK, End
  <2> QED  BY <2>1, <2>2
<1>4. CASE UNCHANGED storeVars
  <2>1. log' = log /\ dropped' = dropped /\ meta' = meta /\ End' = End
    BY <1>4 DEF storeVars, End
  <2> QED  BY <1>2, <1>3, <2>1 DEF GoesOn
<1>5. CASE LocalWrite
  <2>1. PICK e : Writes(e) /\ UNCHANGED <<dropped, meta>>
    BY <1>5, LocalWriteAppends
  <2>2. End < End' /\ \A s \in 1..End : log'[s] = log[s]
    BY <2>1 DEF Writes, Keeps
  <2>3. dropped' = dropped /\ meta' = meta
    BY <2>1
  <2>4. \A s \in 1..End : s \in Retained' <=> s \in Retained
    BY <1>2, <1>3, <2>2, <2>3
  <2>5. \A s \in (End + 1)..End' : s \in Retained'
    BY <1>2, <1>3, <2>3
  <2> QED  BY <1>2, <1>3, <2>2, <2>3, <2>4, <2>5 DEF GoesOn
<1> QED  BY <1>4, <1>5

\* What is said of events there were already is said of them still.
LEMMA EventsStay ==
  ASSUME GoesOn, NEW s \in 1..End
  PROVE  /\ InScope(s)' <=> InScope(s)
         /\ Shown(s)' <=> Shown(s)
         /\ s \in Retained' <=> s \in Retained
         /\ log'[s] = log[s]
<1>1. log'[s] = log[s] /\ (s \in Retained' <=> s \in Retained)
  BY DEF GoesOn
<1>2. InScope(s)' <=> InScope(s)
  BY <1>1 DEF InScope, NsAt
<1>3. Shown(s)' <=> Shown(s)
  BY <1>1, <1>2 DEF Shown
<1> QED  BY <1>1, <1>2, <1>3

LEMMA WindowStays ==
  ASSUME GoesOn, NEW from \in Nat, NEW to \in 0..End
  PROVE  Window(from, to)' = Window(from, to)
<1>1. End \in Nat /\ End' \in Nat /\ End <= End'
      /\ Retained \subseteq 1..End /\ Retained' \subseteq 1..End'
  BY DEF GoesOn
<1>2. Window(from, to)' = {s \in Retained' : from < s /\ s <= to /\ Shown(s)'}
  BY DEF Window
<1>3. ASSUME NEW s, s \in Window(from, to) PROVE s \in Window(from, to)'
  <2>1. s \in Retained /\ from < s /\ s <= to /\ Shown(s)
    BY <1>3 DEF Window
  <2>2. s \in 1..End
    BY <1>1, <2>1
  <2> QED  BY <1>2, <2>1, <2>2, EventsStay
<1>4. ASSUME NEW s, s \in Window(from, to)' PROVE s \in Window(from, to)
  <2>1. s \in Retained' /\ from < s /\ s <= to /\ Shown(s)'
    BY <1>2, <1>4
  <2>2. s \in 1..End
    BY <1>1, <2>1
  <2> QED  BY <2>1, <2>2, EventsStay DEF Window
<1> QED  BY <1>3, <1>4

LEMMA PlanStays ==
  ASSUME GoesOn, clone' = clone, NEW plan \in SUBSET (1..End), NEW x
  PROVE  /\ About(plan, x)' = About(plan, x)
         /\ RowBy(plan, x)' = RowBy(plan, x)
         /\ TombBy(plan, x)' = TombBy(plan, x)
         /\ WmBy(plan, x)' = WmBy(plan, x)
<1>1. \A t \in plan : log'[t] = log[t]
  BY DEF GoesOn
<1>2. About(plan, x)' = About(plan, x) /\ Ends(plan, x)' = Ends(plan, x)
  BY <1>1 DEF About, Ends
<1>3. \A S \in SUBSET plan : S # {} => Latest(S) \in plan
  <2> SUFFICES ASSUME NEW S \in SUBSET plan, S # {} PROVE Latest(S) \in plan
    OBVIOUS
  <2>1. End \in Nat /\ S \in SUBSET (0..End)
    BY DEF GoesOn
  <2> QED  BY <2>1, LatestOf
<1>4. /\ About(plan, x) # {} => log'[Latest(About(plan, x))] = log[Latest(About(plan, x))]
      /\ Ends(plan, x) # {} => log'[Latest(Ends(plan, x))] = log[Latest(Ends(plan, x))]
  BY <1>1, <1>3 DEF About, Ends
<1>5. RowBy(plan, x)' = IF About(plan, x)' = {} THEN clone'.rows[x]
                        ELSE After(log'[Latest(About(plan, x)')])
  BY DEF RowBy
<1>6. RowBy(plan, x)' = RowBy(plan, x)
  BY <1>2, <1>4, <1>5 DEF RowBy
<1>7. TombBy(plan, x)' = TombBy(plan, x)
  BY <1>2, <1>4 DEF TombBy
<1>8. WmBy(plan, x)' = WmBy(plan, x)
  BY <1>2, <1>4 DEF WmBy
<1> QED  BY <1>2, <1>6, <1>7, <1>8

LEMMA RunHoldsStays ==
  ASSUME GoesOn, clone' = clone, NEW r \in Run, RunHolds(r)
  PROVE  RunHolds(r)'
<1> DEFINE plan == r.sim.plan
<1>0. /\ End \in Nat /\ End' \in Nat /\ End <= End' /\ meta' = meta
      /\ Retained \subseteq 1..End
  BY DEF GoesOn
<1>1. /\ RunBegun(r) /\ r.start \in Nat /\ r.last \in 0..End
      /\ PlanSound(plan, r.start, r.last)
  <2>1. r.start \in Nat /\ r.last \in Nat
    BY DEF Run
  <2> QED  BY <1>0, <2>1 DEF RunHolds, RunBegun
<1>2. /\ Window(r.start, r.last)' = Window(r.start, r.last)
      /\ Window(r.start, r.last) \in SUBSET (1..End)
      /\ plan \in SUBSET (1..End)
  <2>1. Window(r.start, r.last) \in SUBSET (1..End)
    BY <1>0 DEF Window
  <2> QED  BY <1>1, <2>1, WindowStays DEF PlanSound
<1> DEFINE W == Window(r.start, r.last)
<1>3. \A p \in SUBSET plan : \A x :
        /\ About(p, x)' = About(p, x) /\ RowBy(p, x)' = RowBy(p, x)
        /\ TombBy(p, x)' = TombBy(p, x) /\ WmBy(p, x)' = WmBy(p, x)
  BY <1>2, PlanStays
<1>4. \A p \in SUBSET plan : RowsBy(p)' = RowsBy(p) /\ TablesBy(p)' = TablesBy(p)
  BY <1>3 DEF RowsBy, TablesBy
<1>5. \A s \in 1..End : log'[s] = log[s] /\ (InScope(s)' <=> InScope(s))
  BY EventsStay
<1>6. PlanSound(plan, r.start, r.last)'
  <2>1. plan \subseteq Window(r.start, r.last)'
    BY <1>1, <1>2 DEF PlanSound
  <2>2. \A t \in plan : clone'.seen < t /\ clone'.tombs[log'[t].id] = None
    BY <1>1, <1>2, <1>5 DEF PlanSound
  <2>3. UniqueIn(RowsBy(plan)')
    BY <1>1, <1>4 DEF PlanSound
  <2>4. ASSUME NEW t \in plan PROVE Fits(RowsBy(Before(plan, t)), t)'
    <3>1. Before(plan, t) \in SUBSET plan
      BY DEF Before
    <3>2. RowsBy(Before(plan, t))' = RowsBy(Before(plan, t))
      BY <1>4, <3>1
    <3>3. Fits(RowsBy(Before(plan, t)), t) /\ log'[t] = log[t]
      BY <1>1, <1>2, <1>5 DEF PlanSound
    <3> QED  BY <3>2, <3>3 DEF Fits
  <2>5. ASSUME NEW s \in W PROVE Settled(plan, s)'
    <3>1. Settled(plan, s) /\ log'[s] = log[s]
      BY <1>1, <1>2, <1>5 DEF PlanSound
    <3>2. PICK x : x = log[s].id
      OBVIOUS
    <3>3. /\ About(plan, x)' = About(plan, x) /\ RowBy(plan, x)' = RowBy(plan, x)
      BY <1>3
    <3>4. /\ {t \in plan : log'[t].id = log'[s].id} = About(plan, x)
          /\ {t \in plan : log[t].id = log[s].id} = About(plan, x)
      BY <1>2, <1>5, <3>1, <3>2 DEF About
    <3>5. RowBy(plan, log[s].id)' = RowBy(plan, x)
      <4>1. RowBy(plan, log[s].id)' =
               IF {t \in plan : log'[t].id = log'[s].id} = {} THEN clone'.rows[log'[s].id]
               ELSE After(log'[Latest({t \in plan : log'[t].id = log'[s].id})])
        BY DEF RowBy, About
      <4>2. RowBy(plan, x)' = IF About(plan, x)' = {} THEN clone'.rows[x]
                        ELSE After(log'[Latest(About(plan, x)')])
        BY DEF RowBy
      <4> QED  BY <3>1, <3>2, <3>3, <3>4, <4>1, <4>2
    <3>6. About(plan, log[s].id)' = About(plan, x)
      BY <3>4 DEF About
    <3>7. Skips(Held, s, meta.hist)' <=> Skips(Held, s, meta.hist)
      BY <1>0, <3>1 DEF Skips, Held, HeldBy, Tombstoned, Covered, Declared
    <3>8. About(plan, log[s].id) = About(plan, x) /\ RowBy(plan, log[s].id) = RowBy(plan, x)
      BY <3>2
    <3>9. CASE \E t \in About(plan, x) : s <= t
      <4>1. (\E t \in About(plan, log[s].id) : s <= t)'
        BY <3>6, <3>9
      <4> QED  BY <4>1 DEF Settled
    <3>10. CASE /\ About(plan, x) # {}
         /\ RowBy(plan, x) # None /\ log[s].type # "deleted"
         /\ Fingerprint(RowBy(plan, x)) = Declared(s)
      <4>1. /\ About(plan, log[s].id)' # {}
         /\ RowBy(plan, log[s].id)' # None /\ log'[s].type # "deleted"
         /\ Fingerprint(RowBy(plan, log[s].id)') = Declared(s)'
        BY <3>1, <3>5, <3>6, <3>10 DEF Declared
      <4> QED  BY <4>1 DEF Settled
    <3>11. CASE About(plan, x) = {} /\ Skips(Held, s, meta.hist)
      <4>1. About(plan, log[s].id)' = {} /\ Skips(Held, s, meta.hist)'
        BY <3>6, <3>7, <3>11
      <4> QED  BY <4>1 DEF Settled
    <3> QED  BY <3>1, <3>8, <3>9, <3>10, <3>11 DEF Settled
  <2>6. ASSUME clone'.source = None, NEW s \in W PROVE Accounted(plan, s)'
    <3>1. Accounted(plan, s) /\ log'[s] = log[s]
      BY <1>1, <1>2, <1>5, <2>6 DEF PlanSound
    <3>2. \A x \in Ids : About(plan, x)' = About(plan, x)
      BY <1>3
    <3> QED  BY <3>1, <3>2 DEF Accounted
  <2> QED  BY <1>2, <2>1, <2>2, <2>3, <2>4, <2>5, <2>6 DEF PlanSound
<1>7. RunBegun(r)'
  <2>1. \A s \in 1..End' : clone'.seen < s /\ log'[s].hist = meta'.hist
                         => s \in Retained' /\ r.start < s
    <3> SUFFICES ASSUME NEW s \in 1..End', clone'.seen < s, log'[s].hist = meta'.hist
                 PROVE  s \in Retained' /\ r.start < s
      OBVIOUS
    <3>1. CASE s \in 1..End
      BY <1>0, <1>1, <3>1, EventsStay DEF RunBegun
    <3>2. CASE s \in (End + 1)..End'
      <4>1. r.start <= End
        BY <1>0, <1>1 DEF RunBegun
      <4> QED  BY <1>0, <1>1, <3>2, <4>1 DEF GoesOn
    <3> QED  BY <1>0, <3>1, <3>2
  <2>2. /\ clone'.dirty = FALSE /\ clone'.source \in {None, meta'.hist}
        /\ clone'.source = None => clone'.events = FALSE
        /\ clone'.source # None =>
             clone'.saved # None /\ clone'.base = LiveRows(clone'.rows)
        /\ r.cursor.hist = meta'.hist
        /\ clone'.saved # None /\ AnyCursor = FALSE => clone'.saved.seq <= r.start
        /\ meta'.epoch <= r.start
        /\ r.start <= r.last /\ r.last <= End'
    BY <1>0, <1>1 DEF RunBegun
  <2> QED  BY <1>6, <2>1, <2>2 DEF RunBegun
<1>8. r.phase = "scan" => r.at = r.last /\ r.staged = None /\ SimIs(r.sim)'
  <2> SUFFICES ASSUME r.phase = "scan"
               PROVE  r.at = r.last /\ r.staged = None /\ SimIs(r.sim)'
    OBVIOUS
  <2>1. r.at = r.last /\ r.staged = None /\ SimIs(r.sim)
    BY DEF RunHolds
  <2>2. Changed(plan)' = Changed(plan)
    BY <1>2, <1>5 DEF Changed
  <2>3. \A x : RowBy(plan, x)' = RowBy(plan, x)
    BY <1>3
  <2> QED  BY <2>1, <2>2, <2>3 DEF SimIs
<1>9. r.phase = "apply" =>
        /\ NoneForeign(r)'
        /\ r.at \in 0..End'
        /\ r.staged = None => r.at = r.start
        /\ r.staged # None => r.staged = TablesBy(UpThrough(plan, r.at))'
  <2> SUFFICES ASSUME r.phase = "apply"
               PROVE  /\ NoneForeign(r)'
                      /\ r.at \in 0..End'
                      /\ r.staged = None => r.at = r.start
                      /\ r.staged # None => r.staged = TablesBy(UpThrough(plan, r.at))'
    OBVIOUS
  <2>1. NoneForeign(r)'
    <3>1. NoneForeign(r)
      BY DEF RunHolds
    <3>2. \A s \in W : log'[s].id = log[s].id
      BY <1>2, <1>5
    <3> QED  BY <1>2, <3>1, <3>2 DEF NoneForeign
  <2>2. UpThrough(plan, r.at) \in SUBSET plan
    BY DEF UpThrough
  <2>3. TablesBy(UpThrough(plan, r.at))' = TablesBy(UpThrough(plan, r.at))
    BY <1>4, <2>2
  <2> QED  BY <1>0, <2>1, <2>3 DEF RunHolds
<1> QED  BY <1>7, <1>8, <1>9 DEF RunHolds

-----------------------------------------------------------------------------
(* Pass 1, page by page.                                                   *)

LEMMA CloneNow == ASSUME ReplayTypeOK, CloneInv PROVE CloneHolds(clone)
BY DEF ReplayTypeOK, CloneInv

\* A run stands on what the clone was before it began.
LEMMA RunGround ==
  ASSUME ReplayTypeOK, CloneInv, NEW r, RunBegun(r), r.start \in Nat
  PROVE  Ground(r.start)
<1>1. clone.seen \in Nat /\ clone.source \in {None, meta.hist} /\ clone.dirty = FALSE
  BY DEF ReplayTypeOK, Clone, RunBegun
<1>0. CloneHolds(clone)
  BY CloneNow
<1>2. UniqueIn(clone.rows)
  BY <1>0 DEF CloneHolds
<1>3. clone.source = None =>
        clone.seen = 0 /\ \A x \in Ids : clone.tombs[x] = None /\ clone.wms[x] = None
  BY <1>0, <1>1 DEF CloneHolds
<1>4. ASSUME NEW s \in Window(r.start, clone.seen), log[s].hist = meta.hist
      PROVE  Skips(Held, s, meta.hist)
  <2>1. s \in Retained /\ r.start < s /\ s <= clone.seen /\ Shown(s) /\ s \in 1..End
    BY DEF Window, Retained
  <2>2. clone.source = meta.hist /\ clone.source # None
    <3>1. clone.seen # 0
      BY <1>1, <2>1
    <3> QED  BY <1>1, <1>3, <3>1
  <2>3. clone.saved # None /\ Following(clone)
    BY <1>0, <1>1, <2>2 DEF RunBegun, CloneHolds
  <2>4. AnyCursor = TRUE \/ clone.saved.seq < s
    <3>1. AnyCursor = FALSE => clone.saved.seq <= r.start
      BY <2>3 DEF RunBegun
    <3>2. clone.saved \in Cursor
      BY <2>3 DEF ReplayTypeOK, Clone
    <3>3. clone.saved.seq \in Nat
      BY <3>2 DEF Cursor
    <3>4. s \in Nat
      BY <2>1
    <3> QED  BY <2>1, <3>1, <3>3, <3>4 DEF ReplayAssumption
  <2>5. Rereads(clone, s)
    BY <1>4, <2>1, <2>2, <2>4 DEF Rereads
  <2> QED  BY <2>1, <2>3, <2>5 DEF Following, Held
<1> QED  BY <1>1, <1>2, <1>3, <1>4 DEF Ground

\* What a page of pass 1 makes of the run.
LEMMA ReadHas ==
  ASSUME run \in Run, NEW page, NEW taken
  PROVE  LET r == Read(page, taken)
         IN  /\ r.phase = run.phase /\ r.cursor = run.cursor /\ r.start = run.start
             /\ r.budget = run.budget /\ r.staged = run.staged
             /\ r.sim = Plan(run.sim, taken, run.cursor.hist)
             /\ r.scanned = run.scanned + Cardinality(taken)
             /\ r.last = LastOf(taken, run.last) /\ r.at = LastOf(page, run.at)
BY DEF Read, With, Run

\* A page is read in order, and all of it unless the budget ends there.
LEMMA TakenInOrder ==
  ASSUME SourceInv, ReplayTypeOK, run # None
  PROVE  /\ TakenNow \in SUBSET Later(run.at)
         /\ \A s \in Later(run.at), t \in TakenNow : s <= t => s \in TakenNow
         /\ \/ TakenNow = Page(run.at)
            \/ run.budget # None /\ run.budget <= run.scanned + Cardinality(TakenNow)
<1> DEFINE later == Later(run.at)  page == Page(run.at)
           k == run.budget - run.scanned
<1>1. /\ End \in Nat /\ later \in SUBSET (0..End) /\ page \in SUBSET (0..End)
      /\ page \subseteq later
  BY LaterIs DEF SourceInv, IInv
<1>2. page = First(later, PageSize) /\ PageSize \in Int
  BY DEF Page, ReplayAssumption
<1>3. run \in Run
  BY DEF ReplayTypeOK
<1>4. \A s \in later, t \in page : s <= t => s \in page
  BY <1>1, <1>2, FirstIsPrefix
<1>5. CASE run.budget = None
  <2>1. TakenNow = page
    BY <1>5 DEF TakenNow
  <2> QED  BY <1>1, <1>4, <2>1
<1>6. CASE run.budget # None
  <2>1. run.budget \in Nat /\ run.scanned \in Nat /\ k \in Int
    BY <1>3, <1>6 DEF Run
  <2>2. TakenNow = First(page, k)
    BY <1>6 DEF TakenNow
  <2>3. TakenNow \subseteq page
    BY <2>2 DEF First
  <2>4. \A s \in page, t \in TakenNow : s <= t => s \in TakenNow
    <3> HIDE DEF page, k
    <3> QED  BY <1>1, <2>1, <2>2, FirstIsPrefix
  <2>5. Cardinality(TakenNow) \in Nat
    BY <1>1, <2>3, Counted
  <2>6. Cardinality(TakenNow) < k => TakenNow = page
    <3> HIDE DEF page, k
    <3> QED  BY <1>1, <2>1, <2>2, FewerAreAll
  <2>7. TakenNow = page \/ run.budget <= run.scanned + Cardinality(TakenNow)
    BY <2>1, <2>5, <2>6
  <2>8. \A s \in later, t \in TakenNow : s <= t => s \in TakenNow
    BY <1>4, <2>3, <2>4
  <2> QED  BY <1>1, <1>6, <2>3, <2>7, <2>8
<1> QED  BY <1>5, <1>6

\* The pages read so far are planned soundly.
LEMMA ReadSound ==
  ASSUME SourceInv, ReplayTypeOK, CloneInv, run # None, run.phase = "scan",
         RunHolds(run), NEW r, r = Read(Page(run.at), TakenNow)
  PROVE  /\ r.last \in run.last..End
         /\ Good(r.sim, r.start, r.last)
         /\ r.sim.failed = FALSE => RunBegun(r)
         /\ \/ r.at = r.last
            \/ run.budget # None /\ r.scanned >= r.budget
<1> DEFINE page == Page(run.at)  taken == TakenNow
<1>1. /\ run \in Run /\ clone \in Clone /\ RunBegun(run) /\ run.at = run.last
      /\ SimIs(run.sim) /\ run.staged = None
  BY DEF ReplayTypeOK, RunHolds
<1>2. /\ run.start \in Nat /\ run.last \in Nat /\ run.at \in Nat /\ run.sim \in Sim
      /\ End \in Nat
  BY <1>1, LaterIs DEF Run, SourceInv, IInv
<1>3. /\ run.cursor.hist = meta.hist /\ meta.epoch <= run.start
      /\ run.start <= run.last /\ run.last <= End
      /\ PlanSound(run.sim.plan, run.start, run.last)
  BY <1>1 DEF RunBegun
<1>4. /\ r.phase = run.phase /\ r.cursor = run.cursor /\ r.start = run.start
      /\ r.budget = run.budget /\ r.staged = run.staged
      /\ r.sim = Plan(run.sim, taken, meta.hist)
      /\ r.scanned = run.scanned + Cardinality(taken)
      /\ r.last = LastOf(taken, run.last) /\ r.at = LastOf(page, run.at)
  BY <1>1, <1>3, ReadHas
<1>5. /\ taken \in SUBSET Later(run.at)
      /\ \A s \in Later(run.at), t \in taken : s <= t => s \in taken
      /\ \/ taken = page
         \/ run.budget # None /\ run.budget <= run.scanned + Cardinality(taken)
  BY TakenInOrder
<1>6. Ground(run.start)
  BY <1>1, <1>2, RunGround
<1>7. \A s \in Later(run.at) : s <= r.last => s \in taken
  <2>1. taken \in SUBSET (0..End) /\ Later(run.at) \in SUBSET (1..End)
    BY <1>5, LaterIs DEF SourceInv, IInv
  <2>2. CASE taken = {}
    <3>1. r.last = run.last
      BY <1>4, <2>2 DEF LastOf
    <3>2. \A s \in Later(run.at) : run.at < s
      BY DEF Later
    <3> QED  BY <1>1, <1>2, <2>1, <3>1, <3>2
  <2>3. CASE taken # {}
    <3>1. r.last \in taken
      BY <1>2, <1>4, <2>1, <2>3, LastOfIs
    <3> QED  BY <1>5, <3>1
  <2> QED  BY <2>2, <2>3
<1> HIDE DEF page, taken
<1>8. r.last \in run.at..End /\ Good(r.sim, run.start, r.last)
  BY <1>1, <1>2, <1>3, <1>4, <1>5, <1>6, <1>7, PlanPage
<1>9. ASSUME r.sim.failed = FALSE PROVE RunBegun(r)
  <2>1. PlanSound(r.sim.plan, r.start, r.last)
    BY <1>4, <1>8, <1>9 DEF Good
  <2>2. r.start <= r.last /\ r.last <= End
    BY <1>1, <1>2, <1>3, <1>4, <1>8
  <2> QED  BY <1>1, <1>4, <2>1, <2>2 DEF RunBegun
<1>10. \/ r.at = r.last
       \/ run.budget # None /\ r.scanned >= r.budget
  <2>1. CASE taken = page
    BY <1>1, <1>4, <2>1
  <2>2. CASE run.budget # None /\ run.budget <= run.scanned + Cardinality(taken)
    <3>1. run.budget \in Nat /\ run.scanned \in Nat
      BY <1>1, <2>2 DEF Run
    <3>2. Cardinality(taken) \in Nat
      <4>1. taken \in SUBSET (0..End)
        BY <1>5, LaterIs DEF SourceInv, IInv
      <4> QED  BY <1>2, <4>1, Counted
    <3> QED  BY <1>4, <2>2, <3>1, <3>2
  <2> QED  BY <1>5, <2>1, <2>2
<1> QED  BY <1>1, <1>4, <1>8, <1>9, <1>10

\* The foreign guard: a clone that follows nothing has no row that the run
\* has read no event of.
LEMMA GuardHolds ==
  ASSUME ReplayTypeOK, CloneInv, NEW r \in Run, RunBegun(r), ~Foreign(r)
  PROVE  NoneForeign(r)
<1> SUFFICES ASSUME clone.source = None, NEW x \in Ids, clone.rows[x] # None
             PROVE  \E s \in Window(r.start, r.last) : log[s].id = x
  BY DEF NoneForeign
<1>1. clone \in Clone
  BY DEF ReplayTypeOK
<1>2. Unproven
  <2>1. clone.bound = FALSE /\ clone.events = FALSE /\ clone.saved = None
    <3>1. CloneHolds(clone)
      BY CloneNow
    <3> QED  BY <3>1 DEF CloneHolds, RunBegun
  <2>2. clone.rows[x] \in LiveRows(clone.rows)
    BY DEF LiveRows
  <2> QED  BY <2>1, <2>2 DEF Unproven
<1>3. clone.rows[x] \in LiveRows(clone.rows)
  BY DEF LiveRows
<1>4. PICK s \in Retained \cap (r.start + 1)..r.last :
        /\ log[s].type \in Reconstructing /\ InScope(s)
        /\ log[s].row.ns = clone.rows[x].ns /\ log[s].row.hash = clone.rows[x].hash
  BY <1>2, <1>3 DEF Foreign
<1>5. s \in Window(r.start, r.last)
  <2>1. r.start \in Nat /\ r.last \in Nat
    BY DEF Run
  <2> QED  BY <1>4, <2>1 DEF Window, Shown
<1>6. /\ Accounted(r.sim.plan, s)
      /\ r.sim.plan \subseteq Window(r.start, r.last)
  BY <1>5 DEF RunBegun, PlanSound
<1>7. CASE About(r.sim.plan, x) = {}
  BY <1>4, <1>5, <1>6, <1>7 DEF Accounted
<1>8. CASE About(r.sim.plan, x) # {}
  BY <1>6, <1>8 DEF About
<1> QED  BY <1>7, <1>8

LEMMA ScanSound ==
  ASSUME SourceInv, ReplayTypeOK, CloneInv, RunInv, ScanPage,
         NEW q \in Run, q = run'
  PROVE  RunHolds(q)
<1>1. /\ run # None /\ run.phase = "scan"
      /\ LET page == Page(run.at)
             r == Read(page, TakenNow)
             done == \/ r.sim.failed \/ Cardinality(page) < PageSize
                     \/ r.budget # None /\ r.scanned >= r.budget
         IN  run' = IF done THEN ScanEnd(r) ELSE r
  BY ScanPageIs
<1>2. run \in Run /\ RunHolds(run)
  BY <1>1 DEF ReplayTypeOK, RunInv
<1>3. PICK r : r = Read(Page(run.at), TakenNow)
  OBVIOUS
<1>4. /\ r.last \in run.last..End
      /\ r.sim.failed = FALSE => RunBegun(r) /\ SimIs(r.sim)
      /\ \/ r.at = r.last
         \/ run.budget # None /\ r.scanned >= r.budget
  <2>1. /\ r.last \in run.last..End
        /\ Good(r.sim, r.start, r.last)
        /\ r.sim.failed = FALSE => RunBegun(r)
        /\ \/ r.at = r.last
           \/ run.budget # None /\ r.scanned >= r.budget
    BY <1>1, <1>2, <1>3, ReadSound
  <2> QED  BY <2>1 DEF Good
<1>5. /\ r \in Run /\ r.budget = run.budget /\ r.phase = "scan" /\ r.staged = None
      /\ r.start \in Nat
  <2>1. r \in Run
    BY <1>1, <1>3, ReadTyped
  <2>2. r.budget = run.budget /\ r.phase = run.phase /\ r.staged = run.staged
    BY <1>2, <1>3, ReadHas
  <2> QED  BY <1>1, <1>2, <2>1, <2>2 DEF RunHolds, Run
<1>6. \/ q = ScanEnd(r)
      \/ q = r /\ r.sim.failed = FALSE /\ ~(r.budget # None /\ r.scanned >= r.budget)
  <2>1. r.sim.failed \in BOOLEAN
    BY <1>5 DEF Run, Sim
  <2> QED  BY <1>1, <1>3, <2>1
<1>7. CASE q = r /\ r.sim.failed = FALSE /\ ~(r.budget # None /\ r.scanned >= r.budget)
  BY <1>4, <1>5, <1>7 DEF RunHolds
<1>8. CASE q = ScanEnd(r)
  <2>1. q # None
    BY DEF ReplayAssumption
  <2>2. r.sim.failed = FALSE /\ ~Foreign(r) /\ q = [r EXCEPT !.phase = "apply", !.at = r.start]
    <3>1. r.sim.failed \in BOOLEAN
      BY <1>5 DEF Run, Sim
    <3> QED  BY <1>8, <2>1, <3>1 DEF ScanEnd
  <2>3. /\ q.phase = "apply" /\ q.at = r.start /\ q.start = r.start /\ q.last = r.last
        /\ q.cursor = r.cursor /\ q.sim = r.sim /\ q.staged = r.staged
    BY <1>5, <2>2 DEF Run
  <2>4. RunBegun(r) /\ NoneForeign(r)
    BY <1>4, <1>5, <2>2, GuardHolds
  <2>5. RunBegun(q) /\ NoneForeign(q)
    BY <2>3, <2>4 DEF RunBegun, NoneForeign
  <2>6. q.at \in 0..End
    <3>1. End \in Nat
      BY LaterIs DEF SourceInv, IInv
    <3>2. r.start <= r.last /\ r.last <= End /\ r.last \in Nat
      BY <1>5, <2>4 DEF RunBegun, Run
    <3> QED  BY <1>5, <2>3, <3>1, <3>2
  <2> QED  BY <1>5, <2>3, <2>5, <2>6 DEF RunHolds
<1> QED  BY <1>6, <1>7, <1>8

-----------------------------------------------------------------------------
(* Pass 2.                                                                 *)

LEMMA OfThisHistory ==
  ASSUME SourceInv, NEW from \in Nat, meta.epoch <= from, NEW to,
         NEW s \in Window(from, to)
  PROVE  log[s].hist = meta.hist
<1>1. s \in Retained /\ s \in 1..End /\ from < s /\ log[s].hist \in Nat
  BY WindowIs
<1>2. log[s].hist <= meta.hist
  BY <1>1 DEF SourceInv, IInv, MarksMatchLog
<1>3. log[s].hist < meta.hist => s <= meta.epoch
  BY <1>1 DEF SourceInv, EpochMarks
<1>4. meta.hist \in Nat /\ meta.epoch \in Nat
  BY DEF SourceInv, IInv, TypeOK, Meta
<1> QED  BY <1>1, <1>2, <1>3, <1>4

\* A planned event, applied to what the plan comes to before it, finds the
\* rows it was planned on.
LEMMA ApplyOne ==
  ASSUME SourceInv, NEW plan \in SUBSET Nat, NEW s \in 1..End,
         \A t \in plan : t < s, log[s].type \in Reconstructing,
         Fits(RowsBy(plan), s), NEW more, more = plan \cup {s},
         NEW c, c = ApplyStep(TablesBy(plan), s, log[s].hist)
  PROVE  c = TablesBy(more)
<1> DEFINE x == log[s].id  e == log[s]  t == TablesBy(plan)
           wm == [fp |-> Fingerprint(e.row), seq |-> s, hist |-> e.hist]
           tomb == [ns |-> e.row.ns, seq |-> s, hist |-> e.hist]
<1>1. Grows(more, plan, s)
  BY PlanAdd
<1>2. /\ \A y : RowBy(more, y) = IF y = x THEN After(e) ELSE RowBy(plan, y)
      /\ \A y : TombBy(more, y) = IF y = x /\ e.type = "deleted" THEN tomb
                                  ELSE TombBy(plan, y)
      /\ \A y : WmBy(more, y) = IF y # x THEN WmBy(plan, y)
                                ELSE IF e.type = "deleted" THEN None ELSE wm
  BY <1>1 DEF Grows
<1>3. x \in Ids
  BY Reconstructs DEF Reconstructing
<1>4. /\ t.rows = RowsBy(plan) /\ t.tombs = [y \in Ids |-> TombBy(plan, y)]
      /\ t.wms = [y \in Ids |-> WmBy(plan, y)]
      /\ t = [rows |-> t.rows, tombs |-> t.tombs, wms |-> t.wms]
  BY DEF TablesBy
<1>5. /\ \A y \in Ids : /\ t.rows[y] = RowBy(plan, y) /\ t.tombs[y] = TombBy(plan, y)
                        /\ t.wms[y] = WmBy(plan, y)
      /\ DOMAIN t.rows = Ids /\ DOMAIN t.tombs = Ids /\ DOMAIN t.wms = Ids
      /\ t.rows = [y \in Ids |-> t.rows[y]] /\ t.tombs = [y \in Ids |-> t.tombs[y]]
      /\ t.wms = [y \in Ids |-> t.wms[y]]
  BY <1>4 DEF RowsBy
<1>6. TablesBy(more) =
        [rows  |-> [y \in Ids |-> IF y = x THEN After(e) ELSE t.rows[y]],
         tombs |-> [y \in Ids |-> IF y = x /\ e.type = "deleted" THEN tomb
                                  ELSE t.tombs[y]],
         wms   |-> [y \in Ids |-> IF y # x THEN t.wms[y]
                                  ELSE IF e.type = "deleted" THEN None ELSE wm]]
  <2> DEFINE rs == [y \in Ids |-> IF y = x THEN After(e) ELSE t.rows[y]]
             ts == [y \in Ids |-> IF y = x /\ e.type = "deleted" THEN tomb
                                  ELSE t.tombs[y]]
             ws == [y \in Ids |-> IF y # x THEN t.wms[y]
                                  ELSE IF e.type = "deleted" THEN None ELSE wm]
  <2>1. \A y \in Ids : /\ rs[y] = RowBy(more, y) /\ ts[y] = TombBy(more, y)
                       /\ ws[y] = WmBy(more, y)
    <3> SUFFICES ASSUME NEW y \in Ids
                 PROVE  /\ rs[y] = RowBy(more, y) /\ ts[y] = TombBy(more, y)
                        /\ ws[y] = WmBy(more, y)
      OBVIOUS
    <3>1. t.rows[y] = RowBy(plan, y) /\ t.tombs[y] = TombBy(plan, y) /\ t.wms[y] = WmBy(plan, y)
      BY <1>5
    <3>2. rs[y] = IF y = x THEN After(e) ELSE t.rows[y]
      OBVIOUS
    <3>3. ts[y] = IF y = x /\ e.type = "deleted" THEN tomb ELSE t.tombs[y]
      OBVIOUS
    <3>4. ws[y] = IF y # x THEN t.wms[y] ELSE IF e.type = "deleted" THEN None ELSE wm
      OBVIOUS
    <3> HIDE DEF rs, ts, ws, t, wm, tomb
    <3>5. rs[y] = RowBy(more, y)
      BY <1>2, <3>1, <3>2
    <3>6. ts[y] = TombBy(more, y)
      BY <1>2, <3>1, <3>3
    <3>7. ws[y] = WmBy(more, y)
      BY <1>2, <3>1, <3>4
    <3> QED  BY <3>5, <3>6, <3>7
  <2>2. /\ rs = [y \in Ids |-> rs[y]] /\ ts = [y \in Ids |-> ts[y]]
        /\ ws = [y \in Ids |-> ws[y]]
    OBVIOUS
  <2> HIDE DEF rs, ts, ws
  <2>3. TablesBy(more) = [rows  |-> [y \in Ids |-> RowBy(more, y)],
                        tombs |-> [y \in Ids |-> TombBy(more, y)],
                        wms   |-> [y \in Ids |-> WmBy(more, y)]]
    BY DEF TablesBy, RowsBy
  <2>4. TablesBy(more) = [rows |-> rs, tombs |-> ts, wms |-> ws]
    <3>1. rs = [y \in Ids |-> RowBy(more, y)]
      BY <2>1, <2>2
    <3>2. ts = [y \in Ids |-> TombBy(more, y)]
      BY <2>1, <2>2
    <3>3. ws = [y \in Ids |-> WmBy(more, y)]
      BY <2>1, <2>2
    <3> QED  BY <2>3, <3>1, <3>2, <3>3
  <2> QED  BY <2>4 DEF rs, ts, ws
<1>7. c = ApplyStep(t, s, e.hist) /\ Fits(t.rows, s)
  BY <1>4
<1> HIDE DEF t
<1>8. CASE e.type = "created"
  <2>1. t.rows[x] = None /\ HolderIn(t.rows, e.row) = {}
    BY <1>7, <1>8 DEF Fits
  <2>2. c = [t EXCEPT !.rows[x] = e.row, !.wms[x] = wm]
    BY <1>7, <1>8, <2>1 DEF ApplyStep
  <2>3. After(e) = e.row
    BY <1>8 DEF After
  <2>4. c = [rows |-> [t.rows EXCEPT ![x] = e.row], tombs |-> t.tombs,
             wms |-> [t.wms EXCEPT ![x] = wm]]
    BY <1>4, <2>2
  <2>5. [t.rows EXCEPT ![x] = e.row] = [y \in Ids |-> IF y = x THEN After(e) ELSE t.rows[y]]
    BY <1>3, <1>5, <2>3
  <2>6. t.tombs = [y \in Ids |-> IF y = x /\ e.type = "deleted" THEN tomb
                                  ELSE t.tombs[y]]
    BY <1>3, <1>5, <1>8
  <2>7. [t.wms EXCEPT ![x] = wm] = [y \in Ids |-> IF y # x THEN t.wms[y]
                                  ELSE IF e.type = "deleted" THEN None ELSE wm]
    BY <1>3, <1>5, <1>8
  <2> QED  BY <1>6, <2>4, <2>5, <2>6, <2>7
<1>9. CASE e.type = "updated"
  <2>1. t.rows[x] # None
    BY <1>7, <1>9 DEF Fits
  <2>2. c = [t EXCEPT !.rows[x] = e.row, !.wms[x] = wm]
    BY <1>7, <1>9, <2>1 DEF ApplyStep
  <2>3. After(e) = e.row
    BY <1>9 DEF After
  <2>4. c = [rows |-> [t.rows EXCEPT ![x] = e.row], tombs |-> t.tombs,
             wms |-> [t.wms EXCEPT ![x] = wm]]
    BY <1>4, <2>2
  <2>5. [t.rows EXCEPT ![x] = e.row] = [y \in Ids |-> IF y = x THEN After(e) ELSE t.rows[y]]
    BY <1>3, <1>5, <2>3
  <2>6. t.tombs = [y \in Ids |-> IF y = x /\ e.type = "deleted" THEN tomb
                                  ELSE t.tombs[y]]
    BY <1>3, <1>5, <1>9
  <2>7. [t.wms EXCEPT ![x] = wm] = [y \in Ids |-> IF y # x THEN t.wms[y]
                                  ELSE IF e.type = "deleted" THEN None ELSE wm]
    BY <1>3, <1>5, <1>9
  <2> QED  BY <1>6, <2>4, <2>5, <2>6, <2>7
<1>10. CASE e.type = "deleted"
  <2>2. c = [t EXCEPT !.rows[x] = None, !.wms[x] = None, !.tombs[x] = tomb]
    BY <1>7, <1>10 DEF ApplyStep
  <2>3. After(e) = None
    BY <1>10 DEF After
  <2>4. c = [rows |-> [t.rows EXCEPT ![x] = None],
             tombs |-> [t.tombs EXCEPT ![x] = tomb],
             wms |-> [t.wms EXCEPT ![x] = None]]
    BY <1>4, <2>2
  <2>5. [t.rows EXCEPT ![x] = None] = [y \in Ids |-> IF y = x THEN After(e) ELSE t.rows[y]]
    BY <1>3, <1>5, <2>3
  <2>6. [t.tombs EXCEPT ![x] = tomb] = [y \in Ids |-> IF y = x /\ e.type = "deleted" THEN tomb
                                  ELSE t.tombs[y]]
    BY <1>3, <1>5, <1>10
  <2>7. [t.wms EXCEPT ![x] = None] = [y \in Ids |-> IF y # x THEN t.wms[y]
                                  ELSE IF e.type = "deleted" THEN None ELSE wm]
    BY <1>3, <1>5, <1>10
  <2> QED  BY <1>6, <2>4, <2>5, <2>6, <2>7
<1> QED  BY <1>8, <1>9, <1>10 DEF Reconstructing

\* What the open transaction holds after a page: what the plan comes to, as
\* far as the page goes.
LEMMA AppliedIs ==
  ASSUME SourceInv, ReplayTypeOK, run # None, run.phase = "apply", RunHolds(run),
         NEW at, at = LastOf(Page(run.at), run.at)
  PROVE  /\ at \in 0..End
         /\ Applied1 = TablesBy(UpThrough(run.sim.plan, at))
         /\ \/ Cardinality(Page(run.at)) < PageSize
            \/ {s \in Page(run.at) : run.budget = None \/ s <= run.last} # Page(run.at)
            \/ run.budget # None /\ at >= run.last
            => UpThrough(run.sim.plan, at) = run.sim.plan
<1> DEFINE plan == run.sim.plan  page == Page(run.at)  later == Later(run.at)
<1>1. /\ run \in Run /\ RunBegun(run) /\ run.at \in 0..End
      /\ run.staged = None => run.at = run.start
      /\ run.staged # None => run.staged = TablesBy(UpThrough(plan, run.at))
  BY DEF ReplayTypeOK, RunHolds
<1>2. /\ End \in Nat /\ later \in SUBSET (0..End) /\ page \in SUBSET (0..End)
      /\ page \subseteq later /\ Retained \subseteq 1..End
      /\ page = First(later, PageSize) /\ PageSize \in Int
      /\ run.start \in Nat /\ run.last \in Nat
  BY <1>1, LaterIs DEF SourceInv, IInv, Page, Run, ReplayAssumption
<1>3. /\ plan \subseteq Window(run.start, run.last) /\ meta.epoch <= run.start
      /\ \A t \in plan : Fits(RowsBy(Before(plan, t)), t)
      /\ run.cursor.hist = meta.hist
  BY <1>1 DEF RunBegun, PlanSound
<1>4. ASSUME NEW t \in plan
      PROVE  /\ t \in 1..End /\ t <= run.last /\ run.start < t /\ t \in Retained
             /\ InScope(t) /\ log[t].type \in Reconstructing
             /\ log[t].hist = meta.hist
  BY <1>2, <1>3, WindowIs, OfThisHistory
<1>5. \A s \in later, t \in page : s <= t => s \in page
  BY <1>2, FirstIsPrefix
<1>6. \A t \in plan : run.at < t <=> t \in later
  BY <1>4 DEF Later
<1>7. /\ at \in run.at..End
      /\ page = {} => at = run.at
      /\ page # {} => at \in page /\ \A t \in page : t <= at
  <2>1. page = {} => at = run.at
    BY DEF LastOf
  <2>2. page # {} => at \in page /\ \A t \in page : t <= at
    BY <1>2, LastOfIs
  <2>3. \A t \in later : run.at < t
    BY DEF Later
  <2> QED  BY <1>1, <1>2, <2>1, <2>2, <2>3
<1>8. ToApply = {t \in plan : run.at < t /\ t <= at}
  <2>1. ToApply = {s \in page : run.budget = None \/ s <= run.last} \cap plan
    BY DEF ToApply
  <2>2. \A t \in plan : t \in page <=> run.at < t /\ t <= at
    <3> HIDE DEF page, later
    <3> SUFFICES ASSUME NEW t \in plan PROVE t \in page <=> run.at < t /\ t <= at
      OBVIOUS
    <3>1. CASE page = {}
      BY <1>1, <1>2, <1>4, <1>7, <3>1
    <3>2. CASE page # {}
      BY <1>2, <1>5, <1>6, <1>7, <3>2
    <3> QED  BY <3>1, <3>2
  <2> HIDE DEF page, plan
  <2>3. \A t \in plan : t <= run.last
    BY <1>4
  <2> QED  BY <2>1, <2>2, <2>3
<1>9. Staged = TablesBy(UpThrough(plan, run.at))
  <2>1. CASE run.staged # None
    BY <1>1, <2>1 DEF Staged
  <2>2. CASE run.staged = None
    <3>1. UpThrough(plan, run.at) = {}
      BY <1>1, <1>2, <1>4, <2>2 DEF UpThrough
    <3>2. Staged = CloneTables /\ clone \in Clone
      BY <2>2 DEF Staged, ReplayTypeOK
    <3>3. TablesBy({}) = CloneTables
      <4>1. \A x : RowBy({}, x) = clone.rows[x] /\ TombBy({}, x) = clone.tombs[x]
                   /\ WmBy({}, x) = clone.wms[x]
        BY DEF RowBy, TombBy, WmBy, About, Ends
      <4> DEFINE rs == [x \in Ids |-> RowBy({}, x)]
                 ts == [x \in Ids |-> TombBy({}, x)]
                 ws == [x \in Ids |-> WmBy({}, x)]
      <4>2. /\ \A x \in Ids : rs[x] = clone.rows[x]
            /\ \A x \in Ids : ts[x] = clone.tombs[x]
            /\ \A x \in Ids : ws[x] = clone.wms[x]
        BY <4>1
      <4>3. /\ DOMAIN rs = Ids /\ DOMAIN ts = Ids /\ DOMAIN ws = Ids
            /\ rs = [x \in Ids |-> rs[x]] /\ ts = [x \in Ids |-> ts[x]]
            /\ ws = [x \in Ids |-> ws[x]]
        OBVIOUS
      <4>4. /\ clone.rows = [x \in Ids |-> clone.rows[x]]
            /\ clone.tombs = [x \in Ids |-> clone.tombs[x]]
            /\ clone.wms = [x \in Ids |-> clone.wms[x]]
        BY <3>2 DEF Clone, Rows, Tombs, Wms
      <4>5. TablesBy({}) = [rows |-> rs, tombs |-> ts, wms |-> ws]
        BY DEF TablesBy, RowsBy
      <4> HIDE DEF rs, ts, ws
      <4>6. rs = clone.rows
        BY <4>2, <4>3, <4>4
      <4>7. ts = clone.tombs
        BY <4>2, <4>3, <4>4
      <4>8. ws = clone.wms
        BY <4>2, <4>3, <4>4
      <4> QED  BY <4>5, <4>6, <4>7, <4>8 DEF CloneTables
    <3> QED  BY <3>1, <3>2, <3>3
  <2> QED  BY <2>1, <2>2
<1>10. PICK f : Applied(f, Staged, ToApply, meta.hist)
  BY <1>2, ApplyAllIs
<1>11. /\ f[0] = Staged /\ Applied1 = f[End]
       /\ \A s \in 1..End : f[s] = IF s \in ToApply THEN ApplyStep(f[s - 1], s, meta.hist)
                                   ELSE f[s - 1]
  BY <1>3, <1>10 DEF Applied, Applied1
<1> DEFINE To(s) == IF s <= run.at THEN run.at ELSE IF s <= at THEN s ELSE at
           S == {s \in 0..End : f[s] = TablesBy(UpThrough(plan, To(s)))}
<1>12. 0 \in S
  BY <1>1, <1>2, <1>9, <1>11
<1>13. ASSUME NEW s \in 1..End, s - 1 \in S PROVE s \in S
  <2>1. f[s - 1] = TablesBy(UpThrough(plan, To(s - 1)))
    BY <1>13
  <2>2. CASE s \in ToApply
    <3>1. s \in plan /\ run.at < s /\ s <= at
      BY <1>8, <2>2
    <3>2. To(s) = s /\ To(s - 1) = s - 1
      BY <1>1, <1>2, <1>7, <3>1
    <3>3. /\ UpThrough(plan, s - 1) = Before(plan, s)
          /\ UpThrough(plan, s) = Before(plan, s) \cup {s}
      <4>1. \A t \in plan : (t <= s - 1 <=> t < s) /\ (t <= s <=> t < s \/ t = s)
        BY <1>4
      <4> HIDE DEF plan
      <4> QED  BY <3>1, <4>1 DEF UpThrough, Before
    <3>4. /\ Before(plan, s) \in SUBSET Nat /\ \A t \in Before(plan, s) : t < s
          /\ log[s].type \in Reconstructing /\ log[s].hist = meta.hist
          /\ Fits(RowsBy(Before(plan, s)), s)
      BY <1>3, <1>4, <3>1 DEF Before
    <3>5. f[s] = ApplyStep(TablesBy(Before(plan, s)), s, log[s].hist)
      BY <1>11, <2>1, <2>2, <3>2, <3>3, <3>4
    <3>6. f[s] = TablesBy(Before(plan, s) \cup {s})
      <4> HIDE DEF plan
      <4> QED  BY <3>4, <3>5, ApplyOne
    <3> QED  BY <3>2, <3>3, <3>6
  <2>3. CASE s \notin ToApply
    <3>1. f[s] = f[s - 1]
      BY <1>11, <2>3
    <3>2. UpThrough(plan, To(s)) = UpThrough(plan, To(s - 1))
      <4>1. CASE s <= run.at \/ at < s
        <5>1. To(s) = To(s - 1)
          BY <1>1, <1>2, <1>7, <4>1
        <5> QED  BY <5>1
      <4>2. CASE run.at < s /\ s <= at
        <5>1. To(s) = s /\ To(s - 1) = s - 1
          BY <1>1, <1>2, <1>7, <4>2
        <5>2. s \notin plan
          BY <1>8, <2>3, <4>2
        <5>3. \A t \in plan : t <= s - 1 <=> t <= s
          BY <1>4, <5>2
        <5> HIDE DEF plan
        <5>4. UpThrough(plan, s) = UpThrough(plan, s - 1)
          BY <5>3 DEF UpThrough
        <5> QED  BY <5>1, <5>4
      <4> QED  BY <1>1, <1>2, <1>7, <4>1, <4>2
    <3> QED  BY <2>1, <3>1, <3>2
  <2> QED  BY <2>2, <2>3
<1>14. Applied1 = TablesBy(UpThrough(plan, at))
  <2>1. End \in S
    <3> HIDE DEF S
    <3>1. 0..End \subseteq S
      BY <1>2, <1>12, <1>13, UpTo
    <3> QED  BY <1>2, <3>1
  <2>2. To(End) = at
    BY <1>1, <1>2, <1>7
  <2> QED  BY <1>11, <2>1, <2>2
<1>15. ASSUME \/ Cardinality(page) < PageSize
              \/ {s \in page : run.budget = None \/ s <= run.last} # page
              \/ run.budget # None /\ at >= run.last
       PROVE  UpThrough(plan, at) = plan
  <2> HIDE DEF page, later
  <2>1. \A t \in plan : t <= at
    <3>1. CASE Cardinality(page) < PageSize
      <4>1. page = later
        BY <1>2, <3>1, FewerAreAll
      <4>2. ASSUME NEW t \in plan, at < t PROVE FALSE
        <5>1. run.at < t
          BY <1>1, <1>2, <1>4, <1>7, <4>2
        <5>2. t \in page
          BY <1>6, <4>1, <5>1
        <5> QED  BY <1>2, <1>4, <1>7, <4>2, <5>2
      <4> QED  BY <1>2, <1>4, <1>7, <4>2
    <3>2. CASE {s \in page : run.budget = None \/ s <= run.last} # page
      <4>1. PICK s \in page : ~(s <= run.last)
        BY <3>2
      <4> QED  BY <1>2, <1>4, <1>7, <4>1
    <3>3. CASE run.budget # None /\ at >= run.last
      BY <1>2, <1>4, <1>7, <3>3
    <3> QED  BY <1>15, <3>1, <3>2, <3>3
  <2> QED  BY <2>1 DEF UpThrough
<1> QED  BY <1>1, <1>2, <1>7, <1>14, <1>15

\* Pass 2 commits when no planned event is left to apply.
LEMMA ApplyPageEnds ==
  ASSUME SourceInv, ReplayTypeOK, RunInv, ApplyPage
  PROVE  /\ run # None /\ run.phase = "apply" /\ RunHolds(run)
         /\ UNCHANGED <<storeVars, packages, exporting>>
         /\ \/ clone' = Commit(TablesBy(run.sim.plan), run) /\ run' = None
            \/ /\ run' = [run EXCEPT !.staged = Applied1, !.at = LastOf(Page(run.at), @)]
               /\ LET at == LastOf(Page(run.at), run.at)
                  IN  at \in 0..End /\ Applied1 = TablesBy(UpThrough(run.sim.plan, at))
               /\ UNCHANGED clone
<1>1. run # None /\ run.phase = "apply" /\ UNCHANGED <<storeVars, packages, exporting>>
  BY ApplyPageIs
<1>2. RunHolds(run)
  BY <1>1 DEF ReplayTypeOK, RunInv
<1>3. PICK at : at = LastOf(Page(run.at), run.at)
  OBVIOUS
<1>4. /\ at \in 0..End
      /\ Applied1 = TablesBy(UpThrough(run.sim.plan, at))
      /\ \/ Cardinality(Page(run.at)) < PageSize
         \/ {s \in Page(run.at) : run.budget = None \/ s <= run.last} # Page(run.at)
         \/ run.budget # None /\ at >= run.last
         => UpThrough(run.sim.plan, at) = run.sim.plan
  BY <1>1, <1>2, <1>3, AppliedIs
<1>5. IF \/ Cardinality(Page(run.at)) < PageSize
         \/ {s \in Page(run.at) : run.budget = None \/ s <= run.last} # Page(run.at)
         \/ run.budget # None /\ at >= run.last
      THEN clone' = Commit(Applied1, run) /\ run' = None
      ELSE /\ run' = [run EXCEPT !.staged = Applied1, !.at = LastOf(Page(run.at), @)]
           /\ UNCHANGED clone
  BY <1>3 DEF ApplyPage, Staged, CloneTables, ToApply, Applied1
<1> QED  BY <1>1, <1>2, <1>3, <1>4, <1>5

LEMMA ApplySound ==
  ASSUME SourceInv, ReplayTypeOK, RunInv, ApplyPage, NEW q \in Run, q = run'
  PROVE  RunHolds(q) /\ UNCHANGED clone
<1>1. q # None
  BY DEF ReplayAssumption
<1>2. PICK at : at = LastOf(Page(run.at), run.at)
  OBVIOUS
<1>3. /\ run # None /\ run.phase = "apply" /\ RunHolds(run) /\ UNCHANGED clone
      /\ q = [run EXCEPT !.staged = Applied1, !.at = LastOf(Page(run.at), @)]
      /\ at \in 0..End /\ Applied1 = TablesBy(UpThrough(run.sim.plan, at))
  <2>1. run' # None
    BY <1>1
  <2> QED  BY <1>2, <2>1, ApplyPageEnds
<1>4. run \in Run /\ Applied1 # None
  BY <1>3, AppliedTyped DEF ReplayTypeOK, ReplayAssumption
<1>5. /\ q.phase = "apply" /\ q.at = at /\ q.staged = Applied1 /\ q.start = run.start
      /\ q.last = run.last /\ q.cursor = run.cursor /\ q.sim = run.sim
  BY <1>2, <1>3, <1>4 DEF Run
<1>6. RunBegun(run) /\ NoneForeign(run)
  BY <1>3 DEF RunHolds
<1>7. RunBegun(q) /\ NoneForeign(q)
  BY <1>5, <1>6 DEF RunBegun, NoneForeign
<1> QED  BY <1>3, <1>4, <1>5, <1>7 DEF RunHolds

-----------------------------------------------------------------------------
(* What a run leaves.                                                      *)

\* Nothing the clone holds is of an event it has not been through.
Marked == \A x \in Ids :
  /\ clone.tombs[x] # None => clone.tombs[x].seq <= clone.seen
  /\ clone.wms[x] # None => clone.wms[x].seq <= clone.seen

LEMMA RunMarked ==
  ASSUME ReplayTypeOK, CloneInv, NEW r, RunBegun(r)
  PROVE  Marked
<1>1. CloneHolds(clone) /\ clone.dirty = FALSE
  BY CloneNow DEF RunBegun
<1>2. CASE clone.source = None
  BY <1>1, <1>2 DEF CloneHolds, Marked
<1>3. CASE clone.source # None
  <2>1. Following(clone)
    BY <1>1, <1>3 DEF CloneHolds, RunBegun
  <2> QED  BY <2>1 DEF Following, Marked
<1> QED  BY <1>2, <1>3

\* The rows say the same.
Alike(a, b) == (a = None) = (b = None) /\ (a # None => Fingerprint(a) = Fingerprint(b))

LEMMA SameIsAlike ==
  ASSUME NEW a, NEW b PROVE SameRecords(a, b) <=> \A x \in Ids : Alike(a[x], b[x])
BY DEF SameRecords, Alike

\* The last event about a record says what the plan makes of it.
LEMMA SettledRow ==
  ASSUME SourceInv, ReplayTypeOK, Marked, NEW plan \in SUBSET (1..End),
         NEW s \in 1..End, log[s].type # "observed", clone.seen < s,
         Settled(plan, s), \A t \in About(plan, log[s].id) : t <= s
  PROVE  Alike(RowBy(plan, log[s].id), After(log[s]))
<1> DEFINE x == log[s].id
<1>1. /\ x \in Ids /\ log[s].row # None /\ log[s].row \in Row
      /\ After(log[s]) = None <=> log[s].type = "deleted"
      /\ log[s].type # "deleted" => After(log[s]) = log[s].row
  BY Reconstructs DEF After
<1>0. /\ clone.seen \in Nat /\ s \in Nat
      /\ clone.tombs \in Tombs /\ clone.wms \in Wms
  BY DEF ReplayTypeOK, Clone
<1>2. CASE \E t \in About(plan, x) : s <= t
  <2>1. PICK t \in About(plan, x) : s <= t
    BY <1>2
  <2>2. t = s
    BY <2>1 DEF About
  <2>3. Latest(About(plan, x)) = s
    <3>1. About(plan, x) \in SUBSET Nat /\ s \in About(plan, x)
      BY <2>1, <2>2 DEF About
    <3> QED  BY <3>1, LatestIs
  <2>4. RowBy(plan, x) = After(log[s])
    BY <2>1, <2>3 DEF RowBy
  <2> QED  BY <2>4 DEF Alike
<1>3. CASE /\ About(plan, x) # {}
           /\ RowBy(plan, x) # None /\ log[s].type # "deleted"
           /\ Fingerprint(RowBy(plan, x)) = Declared(s)
  <2>1. Declared(s) = Fingerprint(After(log[s])) /\ After(log[s]) # None
    BY <1>1, <1>3 DEF Declared
  <2> HIDE DEF x
  <2> QED  BY <1>3, <2>1 DEF Alike, x
<1>4. CASE About(plan, x) = {} /\ Skips(Held, s, meta.hist)
  <2>1. RowBy(plan, x) = clone.rows[x]
    BY <1>4 DEF RowBy
  <2>2. /\ Held.rows[x] = clone.rows[x] /\ Held.tombs[x] = clone.tombs[x]
        /\ Held.wms[x] = clone.wms[x]
    BY DEF Held, HeldBy
  <2>3. clone.tombs[x] # None => ~(s <= clone.tombs[x].seq)
    <3>1. clone.tombs[x] # None => clone.tombs[x].seq \in Nat
      BY <1>0, <1>1 DEF Tombs, Tombstone
    <3> QED  BY <1>0, <1>1, <3>1 DEF Marked
  <2>4. clone.wms[x] # None => ~(clone.wms[x].seq >= s)
    <3>1. clone.wms[x] # None => clone.wms[x].seq \in Nat
      BY <1>0, <1>1 DEF Wms, Watermark
    <3> QED  BY <1>0, <1>1, <3>1 DEF Marked
  <2>5. ~Tombstoned(Held, x) /\ ~Covered(Held, s, meta.hist)
    BY <1>4, <2>2, <2>3, <2>4 DEF Skips, Tombstoned, Covered
  <2>6. /\ clone.rows[x] # None /\ log[s].type # "deleted"
        /\ Fingerprint(clone.rows[x]) = Declared(s)
    BY <1>4, <2>2, <2>5 DEF Skips
  <2>7. Declared(s) = Fingerprint(After(log[s])) /\ After(log[s]) # None
    BY <1>1, <2>6 DEF Declared
  <2> HIDE DEF x
  <2> QED  BY <2>1, <2>6, <2>7 DEF Alike, x
<1> QED  BY <1>2, <1>3, <1>4 DEF Settled

\* What a state says of a record: the last event about it that is in scope.
Tells(s, x) == Touches(s, x) /\ InScope(s)

LEMMA StateAfter ==
  ASSUME NEW p \in Nat, NEW q \in Nat, NEW x \in Ids, NEW m \in (p + 1)..q, Tells(m, x),
         \A s \in (p + 1)..q : Tells(s, x) => s <= m
  PROVE  State(p, q)[x] = After(log[m])
<1> DEFINE S == {s \in (p + 1)..q : Touches(s, x) /\ InScope(s)}
<1>1. /\ S \in SUBSET Nat /\ m \in S /\ \A s \in S : s <= m
  BY DEF Tells
<1>2. (CHOOSE s \in S : \A t \in S : t <= s) = m
  <2>1. Latest(S) = m
    <3> HIDE DEF S
    <3> QED  BY <1>1, LatestIs
  <2> HIDE DEF S
  <2> QED  BY <2>1 DEF Latest
<1>3. State(p, q)[x] = IF S = {} THEN None
                       ELSE After(log[CHOOSE s \in S : \A t \in S : t <= s])
  BY DEF State
<1> HIDE DEF S
<1> QED  BY <1>1, <1>2, <1>3

LEMMA StateNone ==
  ASSUME NEW p \in Nat, NEW q \in Nat, NEW x \in Ids,
         \A s \in (p + 1)..q : ~Tells(s, x)
  PROVE  State(p, q)[x] = None
<1>1. {s \in (p + 1)..q : Touches(s, x) /\ InScope(s)} = {}
  BY DEF Tells
<1> QED  BY <1>1 DEF State

LEMMA StateSame ==
  ASSUME NEW p \in Nat, NEW a \in Nat, NEW q \in Nat, NEW x \in Ids, a <= q,
         \A s \in (p + 1)..q : a < s => ~Tells(s, x)
  PROVE  State(p, q)[x] = State(p, a)[x]
<1> DEFINE S(b) == {s \in (p + 1)..b : Touches(s, x) /\ InScope(s)}
<1>1. S(q) = S(a)
  BY DEF Tells
<1>2. \A b \in Nat : State(p, b)[x] = IF S(b) = {} THEN None
                       ELSE After(log[CHOOSE s \in S(b) : \A t \in S(b) : t <= s])
  BY DEF State
<1> HIDE DEF S
<1> QED  BY <1>1, <1>2

\* A plan says of every record what the state of the source does, up to where
\* the run has come.
LEMMA PlanShows ==
  ASSUME SourceInv, ReplayTypeOK, CloneInv, NEW r \in Run, RunBegun(r), NEW x \in Ids,
         NEW p \in Nat, NEW q, q = Larger(clone.seen, r.last),
         p \in {0, Epoch(meta.hist)}, p = 0 => Epoch(meta.hist) <= clone.seen,
         Alike(clone.rows[x], State(p, clone.seen)[x])
           \/ \E s \in Window(r.start, r.last) : log[s].id = x /\ clone.seen < s
  PROVE  Alike(RowBy(r.sim.plan, x), State(p, q)[x])
<1> DEFINE plan == r.sim.plan  W == Window(r.start, r.last)
           New == {s \in (p + 1)..q : clone.seen < s /\ Tells(s, x)}
<1>1. /\ r.start \in Nat /\ r.last \in Nat /\ clone.seen \in Nat /\ End \in Nat
      /\ meta.hist \in Nat /\ r.last <= End /\ meta.epoch <= r.start
      /\ PlanSound(plan, r.start, r.last)
  BY LaterIs DEF Run, ReplayTypeOK, Clone, SourceInv, IInv, TypeOK, Meta, RunBegun
<1>2. /\ q \in Nat /\ clone.seen <= q /\ r.last <= q
      /\ q = clone.seen \/ q = r.last
  BY <1>1 DEF Larger
<1>3. /\ Epoch(meta.hist) \in 0..End
      /\ \A s \in 1..End : log[s].hist < meta.hist <=> s <= Epoch(meta.hist)
  BY <1>1, EpochIs
<1>4. /\ \A s \in W : /\ s \in 1..End /\ r.start < s /\ s <= r.last /\ log[s].hist = meta.hist
                      /\ log[s].type # "observed" /\ Tells(s, log[s].id)
      /\ plan \subseteq W /\ plan \in SUBSET (1..End)
  <2>1. \A s \in W : log[s].hist = meta.hist
    BY <1>1, OfThisHistory
  <2>2. \A s \in W : /\ s \in 1..End /\ r.start < s /\ s <= r.last
                     /\ log[s].type # "observed" /\ Tells(s, log[s].id)
    BY WindowIs DEF Tells
  <2>3. plan \subseteq W
    BY <1>1 DEF PlanSound
  <2> HIDE DEF W
  <2> QED  BY <2>1, <2>2, <2>3
<1>5. \A s \in W : p < s
  <2> HIDE DEF W
  <2> SUFFICES ASSUME NEW s \in W PROVE p < s
    OBVIOUS
  <2>1. s \in 1..End /\ ~(log[s].hist < meta.hist)
    BY <1>1, <1>4
  <2> QED  BY <1>3, <2>1
<1>6. \A t \in About(plan, x) : t \in New
  <2> HIDE DEF W
  <2> SUFFICES ASSUME NEW t \in About(plan, x) PROVE t \in New
    OBVIOUS
  <2>1. t \in plan /\ log[t].id = x /\ t \in W
    BY <1>4 DEF About
  <2>2. clone.seen < t
    BY <1>1, <2>1 DEF PlanSound
  <2>3. t \in 1..End /\ t <= r.last /\ Tells(t, x) /\ p < t
    BY <1>4, <1>5, <2>1
  <2>4. t \in (p + 1)..q
    BY <1>1, <1>2, <2>3
  <2> QED  BY <2>2, <2>3, <2>4
<1>7. CASE New = {}
  <2>1. RowBy(plan, x) = clone.rows[x]
    BY <1>6, <1>7 DEF RowBy
  <2>2. State(p, q)[x] = State(p, clone.seen)[x]
    BY <1>1, <1>2, <1>7, StateSame
  <2>3. ~ \E s \in W : log[s].id = x /\ clone.seen < s
    <3> HIDE DEF W
    <3> SUFFICES ASSUME NEW s \in W, log[s].id = x, clone.seen < s PROVE FALSE
      OBVIOUS
    <3>1. s \in (p + 1)..q
      BY <1>1, <1>2, <1>4, <1>5
    <3> QED  BY <1>4, <1>7, <3>1
  <2> QED  BY <2>1, <2>2, <2>3
<1>8. CASE New # {}
  <2>1. q <= End \/ q = clone.seen
    BY <1>1, <1>2
  <2>2. q = r.last /\ New \in SUBSET (0..End)
    BY <1>1, <1>2, <1>8
  <2>3. PICK m : m = Latest(New)
    OBVIOUS
  <2>4. m \in New /\ \A t \in New : t <= m
    <3> HIDE DEF New
    <3> QED  BY <1>1, <1>8, <2>2, <2>3, LatestOf
  <2>5. State(p, q)[x] = After(log[m])
    <3>1. \A s \in (p + 1)..q : Tells(s, x) => s <= m
      BY <1>1, <2>4
    <3> QED  BY <1>2, <2>4, <3>1, StateAfter
  <2>6. m \in 1..End /\ clone.seen < m /\ m <= r.last /\ Tells(m, x)
    BY <1>1, <2>2, <2>4
  <2>7. log[m].hist = meta.hist
    <3>1. ~(m <= Epoch(meta.hist))
      BY <1>1, <1>3, <2>4, <2>6
    <3>2. ~(log[m].hist < meta.hist)
      BY <1>3, <2>6, <3>1
    <3>3. log[m].hist <= meta.hist /\ log[m].hist \in Nat
      BY <2>6, LogTyped DEF SourceInv, IInv, MarksMatchLog
    <3> QED  BY <1>1, <3>2, <3>3
  <2>8. m \in W
    <3>1. m \in Retained /\ r.start < m
      BY <2>6, <2>7 DEF RunBegun
    <3>2. Shown(m)
      BY <2>6 DEF Shown, Tells, Touches
    <3> QED  BY <2>6, <3>1, <3>2 DEF Window
  <2>9. Settled(plan, m) /\ log[m].id = x /\ log[m].type # "observed"
    BY <1>1, <1>4, <2>6, <2>8 DEF PlanSound, Tells, Touches
  <2>10. \A t \in About(plan, log[m].id) : t <= m
    BY <1>6, <2>4, <2>9
  <2>11. Marked
    BY RunMarked
  <2>12. Alike(RowBy(plan, x), After(log[m]))
    <3> HIDE DEF plan
    <3> QED  BY <1>4, <2>6, <2>9, <2>10, <2>11, SettledRow
  <2> QED  BY <2>5, <2>12
<1> QED  BY <1>7, <1>8

\* What a run has made of the clone when it commits.
RunMade(d, r) ==
  /\ d.rows = RowsBy(r.sim.plan)
  /\ d.tombs = [x \in Ids |-> TombBy(r.sim.plan, x)]
  /\ d.wms = [x \in Ids |-> WmBy(r.sim.plan, x)]
  /\ d.bound = TRUE /\ d.source = meta.hist
  /\ d.base = LiveRows(d.rows)
  /\ d.saved.hist = meta.hist /\ d.saved.seq = r.last /\ d.saved # None
  /\ d.events = clone.events /\ d.dirty = FALSE
  /\ d.wrote = clone.wrote /\ d.seen = Larger(clone.seen, r.last)

LEMMA CommitMade ==
  ASSUME ReplayTypeOK, NEW r \in Run, RunBegun(r),
         NEW d, d = Commit(TablesBy(r.sim.plan), r)
  PROVE  RunMade(d, r)
<1>1. CommitHas(d, TablesBy(r.sim.plan), r)
  BY CommitIs DEF ReplayTypeOK
<1>2. Checkpoint(r).hist = r.cursor.hist /\ Checkpoint(r).seq = r.last
  BY DEF Checkpoint
<1>3. Checkpoint(r) # None
  BY CheckpointTyped DEF ReplayAssumption
<1>4. r.cursor.hist = meta.hist
  BY DEF RunBegun
<1> QED  BY <1>1, <1>2, <1>3, <1>4 DEF CommitHas, TablesBy, RunMade

LEMMA MadeShows ==
  ASSUME SourceInv, ReplayTypeOK, CloneInv, NEW r \in Run, RunBegun(r), NoneForeign(r),
         NEW d, RunMade(d, r)
  PROVE  \E p \in {0, Epoch(d.source)} : Shows(d, p)
<1> DEFINE plan == r.sim.plan
<1>1. /\ CloneHolds(clone) /\ clone.dirty = FALSE /\ clone.source \in {None, meta.hist}
      /\ meta.hist \in Nat /\ Epoch(meta.hist) \in Nat
      /\ clone.seen \in Nat /\ r.last \in Nat
  <2>1. meta.hist \in Nat
    BY DEF SourceInv, IInv, TypeOK, Meta
  <2>2. Epoch(meta.hist) \in Nat
    BY <2>1, EpochIs, LaterIs DEF SourceInv, IInv
  <2> QED  BY <2>1, <2>2, CloneNow DEF RunBegun, ReplayTypeOK, Clone, Run
<1>2. d.source = meta.hist /\ d.seen = Larger(clone.seen, r.last) /\ d.rows = RowsBy(plan)
  BY DEF RunMade
<1>3. \A x \in Ids : d.rows[x] = RowBy(plan, x)
  BY <1>2 DEF RowsBy
<1>4. clone.seen <= d.seen
  BY <1>1, <1>2 DEF Larger
<1>5. CASE clone.source = meta.hist
  <2>1. clone.source # None
    BY <1>1, <1>5 DEF ReplayAssumption
  <2>2. Following(clone)
    BY <1>1, <2>1 DEF CloneHolds, RunBegun
  <2>3. PICK p \in {0, Epoch(clone.source)} : Shows(clone, p)
    BY <2>2 DEF Following
  <2>4. /\ p \in {0, Epoch(meta.hist)} /\ p \in Nat
        /\ p = 0 => Epoch(meta.hist) <= clone.seen
        /\ \A x \in Ids : Alike(clone.rows[x], State(p, clone.seen)[x])
    <3>1. SameRecords(clone.rows, State(p, clone.seen))
      BY <2>3 DEF Shows
    <3>2. \A x \in Ids : Alike(clone.rows[x], State(p, clone.seen)[x])
      BY <3>1, SameIsAlike
    <3>3. p \in {0, Epoch(meta.hist)}
      BY <1>5
    <3>4. p = 0 => Epoch(meta.hist) <= clone.seen
      BY <1>5, <2>3 DEF Shows
    <3> QED  BY <1>1, <3>2, <3>3, <3>4
  <2>5. ASSUME NEW x \in Ids PROVE Alike(d.rows[x], State(p, d.seen)[x])
    <3>1. Alike(RowBy(plan, x), State(p, d.seen)[x])
      BY <1>2, <2>4, PlanShows
    <3> QED  BY <1>3, <3>1
  <2>6. SameRecords(d.rows, State(p, d.seen))
    BY <2>5, SameIsAlike
  <2>7. p = 0 => Epoch(d.source) <= d.seen
    <3>1. Epoch(d.source) = Epoch(meta.hist)
      BY <1>2
    <3>2. d.seen \in Nat
      BY <1>1, <1>2 DEF Larger
    <3> QED  BY <1>1, <1>4, <2>4, <3>1, <3>2
  <2>8. p \in {0, Epoch(d.source)}
    BY <1>2, <2>4
  <2> QED  BY <2>6, <2>7, <2>8 DEF Shows
<1>6. CASE clone.source = None
  <2>1. clone.seen = 0
    BY <1>1, <1>6 DEF CloneHolds
  <2>2. PICK p : p = Epoch(meta.hist)
    OBVIOUS
  <2>3. ASSUME NEW x \in Ids PROVE Alike(d.rows[x], State(p, d.seen)[x])
    <3>1. State(p, clone.seen)[x] = None
      BY <1>1, <2>1, <2>2, StateNone
    <3>2. \/ Alike(clone.rows[x], State(p, clone.seen)[x])
          \/ \E s \in Window(r.start, r.last) : log[s].id = x /\ clone.seen < s
      <4>1. CASE clone.rows[x] = None
        BY <3>1, <4>1 DEF Alike
      <4>2. CASE clone.rows[x] # None
        <5>1. PICK s \in Window(r.start, r.last) : log[s].id = x
          BY <1>6, <4>2 DEF NoneForeign
        <5>2. s \in Nat /\ r.start < s /\ r.start \in Nat
          BY WindowIs DEF Run
        <5> QED  BY <2>1, <5>1, <5>2
      <4> QED  BY <4>1, <4>2
    <3>3. p \in {0, Epoch(meta.hist)} /\ p \in Nat /\ (p = 0 => Epoch(meta.hist) <= clone.seen)
      BY <1>1, <2>1, <2>2
    <3>4. Alike(RowBy(plan, x), State(p, d.seen)[x])
      BY <1>2, <3>2, <3>3, PlanShows
    <3> QED  BY <1>3, <3>4
  <2>4. SameRecords(d.rows, State(p, d.seen))
    BY <2>3, SameIsAlike
  <2>5. p = 0 => Epoch(d.source) <= d.seen
    <3>1. Epoch(d.source) = Epoch(meta.hist)
      BY <1>2
    <3>2. d.seen \in Nat
      BY <1>1, <1>2 DEF Larger
    <3> QED  BY <1>1, <1>4, <2>1, <2>2, <3>1, <3>2
  <2>6. p \in {0, Epoch(d.source)}
    BY <1>2, <2>2
  <2> QED  BY <2>4, <2>5, <2>6 DEF Shows
<1> QED  BY <1>1, <1>5, <1>6

LEMMA MadeMarked ==
  ASSUME SourceInv, ReplayTypeOK, CloneInv, NEW r \in Run, RunBegun(r),
         NEW d, RunMade(d, r), NEW x \in Ids
  PROVE  /\ d.tombs[x] # None => d.tombs[x].seq <= d.seen
         /\ d.wms[x] # None => d.wms[x].seq <= d.seen
<1> DEFINE plan == r.sim.plan
<1>1. /\ d.tombs[x] = TombBy(plan, x) /\ d.wms[x] = WmBy(plan, x)
      /\ d.seen = Larger(clone.seen, r.last)
  BY DEF RunMade
<1>2. /\ clone.seen \in Nat /\ r.last \in Nat
      /\ clone.tombs \in Tombs /\ clone.wms \in Wms
      /\ clone.seen <= d.seen /\ r.last <= d.seen /\ d.seen \in Nat
  BY <1>1 DEF ReplayTypeOK, Clone, Run, Larger
<1>3. \A t \in plan : t \in Nat /\ t <= r.last
  <2>1. plan \subseteq Window(r.start, r.last)
    BY DEF RunBegun, PlanSound
  <2> QED  BY <2>1, WindowIs
<1>4. Marked
  BY RunMarked
<1>5. \A S \in SUBSET plan : S # {} => Latest(S) \in plan
  <2> HIDE DEF plan
  <2> SUFFICES ASSUME NEW S \in SUBSET plan, S # {} PROVE Latest(S) \in plan
    OBVIOUS
  <2>1. S \in SUBSET (0..r.last)
    BY <1>2, <1>3
  <2> QED  BY <1>2, <2>1, LatestOf
<1>6. About(plan, x) \in SUBSET plan /\ Ends(plan, x) \in SUBSET plan
  BY DEF About, Ends
<1> HIDE DEF plan
<1>7. d.tombs[x] # None => d.tombs[x].seq <= d.seen
  <2>1. CASE Ends(plan, x) = {}
    <3>1. d.tombs[x] = clone.tombs[x]
      BY <1>1, <2>1 DEF TombBy
    <3>2. clone.tombs[x] # None => clone.tombs[x].seq \in Nat /\ clone.tombs[x].seq <= clone.seen
      BY <1>2, <1>4 DEF Marked, Tombs, Tombstone
    <3> QED  BY <1>2, <3>1, <3>2
  <2>2. CASE Ends(plan, x) # {}
    <3>1. Latest(Ends(plan, x)) \in plan
      BY <1>5, <1>6, <2>2
    <3>2. d.tombs[x].seq = Latest(Ends(plan, x))
      BY <1>1, <2>2 DEF TombBy
    <3> QED  BY <1>2, <1>3, <3>1, <3>2
  <2> QED  BY <2>1, <2>2
<1>8. d.wms[x] # None => d.wms[x].seq <= d.seen
  <2>1. CASE About(plan, x) = {}
    <3>1. d.wms[x] = clone.wms[x]
      BY <1>1, <2>1 DEF WmBy
    <3>2. clone.wms[x] # None => clone.wms[x].seq \in Nat /\ clone.wms[x].seq <= clone.seen
      BY <1>2, <1>4 DEF Marked, Wms, Watermark
    <3> QED  BY <1>2, <3>1, <3>2
  <2>2. CASE About(plan, x) # {}
    <3>1. Latest(About(plan, x)) \in plan
      BY <1>5, <1>6, <2>2
    <3>2. d.wms[x] # None => d.wms[x].seq = Latest(About(plan, x))
      BY <1>1, <2>2 DEF WmBy
    <3> QED  BY <1>2, <1>3, <3>1, <3>2
  <2> QED  BY <2>1, <2>2
<1> QED  BY <1>7, <1>8

\* What a later run reads again, the run has left so that it is skipped.
LEMMA MadeSkips ==
  ASSUME SourceInv, ReplayTypeOK, CloneInv, NEW r \in Run, RunBegun(r),
         NEW d, RunMade(d, r), NEW s, Rereads(d, s)
  PROVE  AnyCursor = TRUE /\ Skips(HeldBy(d), s, meta.hist)
<1> DEFINE plan == r.sim.plan  x == log[s].id  W == Window(r.start, r.last)
           t0 == Latest(About(plan, x))
<1>1. /\ r.start \in Nat /\ r.last \in Nat /\ clone.seen \in Nat /\ End \in Nat
      /\ r.start <= r.last /\ meta.epoch <= r.start
      /\ PlanSound(plan, r.start, r.last)
  BY LaterIs DEF Run, ReplayTypeOK, Clone, SourceInv, IInv, TypeOK, Meta, RunBegun
<1>2. /\ s \in Retained /\ s \in 1..End /\ s \in Nat /\ Shown(s) /\ log[s].hist = meta.hist
      /\ s <= clone.seen \/ s <= r.last
      /\ AnyCursor = TRUE \/ r.last < s
  <2>1. d.seen = Larger(clone.seen, r.last) /\ d.saved.seq = r.last
    BY DEF RunMade
  <2>2. s <= clone.seen \/ s <= r.last
    BY <2>1 DEF Rereads, Larger
  <2> QED  BY <2>1, <2>2 DEF Rereads, Retained
<1>3. log[s].type # "observed" /\ log[s].type \in Reconstructing /\ x \in Ids
      /\ log[s].row # None /\ Touches(s, x)
  <2>1. log[s].type # "observed" /\ log[s].type \in Reconstructing
    BY <1>2 DEF Shown, Reconstructing
  <2> QED  BY <1>2, <2>1, Reconstructs DEF Touches
<1>4. /\ HeldBy(d).rows[x] = RowBy(plan, x) /\ HeldBy(d).tombs[x] = TombBy(plan, x)
      /\ HeldBy(d).wms[x] = WmBy(plan, x) /\ HeldBy(d).mutated = {}
  BY <1>3 DEF RunMade, RowsBy, HeldBy
<1>5. clone.seen < s => s \in W
  <2>1. clone.seen < s => s <= r.last
    BY <1>1, <1>2
  <2> QED  BY <1>2, <2>1 DEF Window, RunBegun
<1>6. clone.seen < s => Settled(plan, s)
  BY <1>1, <1>5 DEF PlanSound
<1>9. AnyCursor = TRUE
  <2> SUFFICES ASSUME AnyCursor = FALSE PROVE FALSE
    BY DEF ReplayAssumption
  <2>1. r.last < s /\ s <= clone.seen
    BY <1>1, <1>2
  <2>2. CloneHolds(clone) /\ clone.dirty = FALSE
    BY CloneNow DEF RunBegun
  <2>3. clone.source # None
    BY <1>1, <1>2, <2>1, <2>2 DEF CloneHolds
  <2>4. Following(clone) /\ clone.source = meta.hist /\ clone.saved # None
    BY <2>2, <2>3 DEF CloneHolds, RunBegun
  <2>5. clone.saved.seq \in Nat
    BY <2>4 DEF ReplayTypeOK, Clone, Cursor
  <2>6. clone.saved.seq < s
    BY <1>1, <1>2, <2>1, <2>4, <2>5 DEF RunBegun
  <2>7. Rereads(clone, s)
    BY <1>2, <2>1, <2>4, <2>6 DEF Rereads
  <2> QED  BY <1>2, <2>4, <2>7 DEF Following
<1> SUFFICES Skips(HeldBy(d), s, meta.hist)
  BY <1>9
<1>7. CASE About(plan, x) = {}
  <2>1. Ends(plan, x) = {}
    BY <1>7 DEF Ends
  <2>2. /\ RowBy(plan, x) = clone.rows[x] /\ TombBy(plan, x) = clone.tombs[x]
        /\ WmBy(plan, x) = clone.wms[x]
    BY <1>7, <2>1 DEF RowBy, TombBy, WmBy
  <2>3. Skips(Held, s, meta.hist)
    <3>1. CASE clone.seen < s
      <4> HIDE DEF plan
      <4> QED  BY <1>6, <1>7, <3>1 DEF Settled
    <3>2. CASE s <= clone.seen
      <4>1. CloneHolds(clone) /\ clone.dirty = FALSE
        BY CloneNow DEF RunBegun
      <4>2. clone.source # None
        BY <1>1, <1>2, <3>2, <4>1 DEF CloneHolds
      <4>3. Following(clone) /\ clone.source = meta.hist /\ clone.saved # None
        BY <4>1, <4>2 DEF CloneHolds, RunBegun
      <4>4. AnyCursor = TRUE \/ clone.saved.seq < s
        <5>1. clone.saved \in Cursor
          BY <4>3 DEF ReplayTypeOK, Clone
        <5>2. clone.saved.seq \in Nat
          BY <5>1 DEF Cursor
        <5>3. AnyCursor = FALSE => clone.saved.seq <= r.start
          BY <4>3 DEF RunBegun
        <5> QED  BY <1>1, <1>2, <5>2, <5>3 DEF ReplayAssumption
      <4>5. Rereads(clone, s)
        BY <1>2, <3>2, <4>3, <4>4 DEF Rereads
      <4> QED  BY <1>2, <4>3, <4>5 DEF Following, Held
    <3> QED  BY <1>1, <1>2, <3>1, <3>2
  <2>4. /\ Held.rows[x] = clone.rows[x] /\ Held.tombs[x] = clone.tombs[x]
        /\ Held.wms[x] = clone.wms[x] /\ Held.mutated = {}
    BY DEF Held, HeldBy
  <2>5. Tombstoned(HeldBy(d), x) <=> Tombstoned(Held, x)
    BY <1>4, <2>2, <2>4 DEF Tombstoned
  <2>6. Covered(HeldBy(d), s, meta.hist) <=> Covered(Held, s, meta.hist)
    BY <1>4, <2>2, <2>4 DEF Covered
  <2> QED  BY <1>4, <2>2, <2>3, <2>4, <2>5, <2>6 DEF Skips
<1>8. CASE About(plan, x) # {}
  <2>1. /\ t0 \in About(plan, x) /\ \A t \in About(plan, x) : t <= t0
        /\ \A t \in About(plan, x) : t \in W /\ t \in Nat
    <3>1. plan \subseteq W
      BY <1>1 DEF PlanSound
    <3>2. \A t \in W : t \in 1..End
      BY WindowIs
    <3> HIDE DEF W, plan
    <3>3. About(plan, x) \in SUBSET (0..End)
      BY <3>1, <3>2 DEF About
    <3> QED  BY <1>1, <1>8, <3>1, <3>2, <3>3, LatestOf DEF About
  <2>2. /\ t0 \in 1..End /\ t0 \in Nat /\ t0 <= r.last /\ log[t0].hist = meta.hist
        /\ log[t0].id = x /\ Touches(t0, x) /\ log[t0].type \in Reconstructing
        /\ log[t0].row # None /\ t0 \in plan
    <3>1. log[t0].id = x /\ t0 \in plan
      BY <2>1 DEF About
    <3>2. t0 \in W
      BY <2>1
    <3>3. log[t0].hist = meta.hist
      BY <1>1, <3>2, OfThisHistory
    <3> HIDE DEF t0, x, W
    <3>4. /\ t0 \in 1..End /\ t0 \in Nat /\ t0 <= r.last /\ log[t0].type \in Reconstructing
          /\ log[t0].row # None /\ Touches(t0, log[t0].id)
      BY <3>2, WindowIs DEF W
    <3> QED  BY <3>1, <3>3, <3>4
  <2>3. clone.seen < t0 /\ clone.tombs[x] = None
    BY <1>1, <2>2 DEF PlanSound
  <2>4. s <= r.last /\ t0 < s => clone.seen < s
    BY <1>1, <1>2, <2>2, <2>3
  <2>5. t0 < s => /\ RowBy(plan, x) # None /\ log[s].type # "deleted"
                  /\ Fingerprint(RowBy(plan, x)) = Declared(s)
    <3> SUFFICES ASSUME t0 < s
                 PROVE  /\ RowBy(plan, x) # None /\ log[s].type # "deleted"
                        /\ Fingerprint(RowBy(plan, x)) = Declared(s)
      OBVIOUS
    <3>1. clone.seen < s
      BY <1>1, <1>2, <2>2, <2>3
    <3>2. Settled(plan, s)
      BY <1>6, <3>1
    <3>3. ~ \E t \in About(plan, x) : s <= t
      <4> HIDE DEF t0, plan, x
      <4> QED  BY <1>2, <2>1, <2>2
    <3> HIDE DEF t0, plan
    <3> QED  BY <1>8, <3>2, <3>3 DEF Settled
  <2>6. RowBy(plan, x) = After(log[t0])
    BY <1>8 DEF RowBy
  <2>7. CASE log[t0].type = "deleted"
    <3>1. s <= t0
      <4>1. ~(s \in (t0 + 1)..End)
        BY <1>3, <2>2, <2>7 DEF SourceInv, DeletedForGood
      <4> QED  BY <1>1, <1>2, <2>2, <4>1
    <3>2. Ends(plan, x) # {} /\ Latest(Ends(plan, x)) = t0
      <4>1. t0 \in Ends(plan, x)
        BY <2>1, <2>7 DEF Ends
      <4>2. Ends(plan, x) \in SUBSET Nat /\ \A t \in Ends(plan, x) : t <= t0
        BY <2>1 DEF Ends
      <4> HIDE DEF t0
      <4> QED  BY <4>1, <4>2, LatestIs
    <3>3. TombBy(plan, x) = [ns |-> log[t0].row.ns, seq |-> t0, hist |-> log[t0].hist]
      BY <3>2 DEF TombBy
    <3>4. RowBy(plan, x) = None
      BY <2>6, <2>7 DEF After
    <3>5. TombBy(plan, x) # None
      <4>1. TombBy(plan, x) \in Tombstone
        BY <2>2, <3>3, EventIs DEF SourceInv, IInv, Tombstone, Row
      <4> QED  BY <4>1 DEF StoreAssumption
    <3> HIDE DEF t0
    <3>6. Tombstoned(HeldBy(d), x)
      BY <1>4, <3>5 DEF Tombstoned
    <3>7. TombBy(plan, x).seq = t0 /\ TombBy(plan, x).hist = meta.hist
      BY <2>2, <3>3
    <3> QED  BY <1>4, <3>1, <3>4, <3>6, <3>7 DEF Skips
  <2>8. CASE log[t0].type # "deleted"
    <3>1. Ends(plan, x) = {}
      <4> SUFFICES ASSUME NEW t \in Ends(plan, x) PROVE FALSE
        OBVIOUS
      <4>1. t \in About(plan, x) /\ log[t].type = "deleted" /\ log[t].id = x
        BY DEF Ends, About
      <4>2. t \in W /\ t <= t0
        BY <2>1, <4>1
      <4>3. t \in 1..End /\ Touches(t, x)
        <5> HIDE DEF x
        <5> QED  BY <4>1, <4>2, WindowIs
      <4>4. ~(t0 \in (t + 1)..End)
        BY <1>3, <2>2, <4>1, <4>3 DEF SourceInv, DeletedForGood
      <4>5. t = t0
        BY <2>2, <4>2, <4>3, <4>4
      <4> QED  BY <2>8, <4>1, <4>5
    <3>2. TombBy(plan, x) = None
      BY <2>3, <3>1 DEF TombBy
    <3>3. /\ RowBy(plan, x) = log[t0].row /\ RowBy(plan, x) # None
          /\ WmBy(plan, x) = [fp |-> Fingerprint(log[t0].row), seq |-> t0,
                              hist |-> log[t0].hist]
      BY <1>8, <2>2, <2>6, <2>8 DEF After, WmBy
    <3>4. WmBy(plan, x) # None
      <4>1. WmBy(plan, x) \in Watermark
        BY <2>2, <3>3, EventIs, FingerprintTyped DEF SourceInv, IInv, Watermark
      <4> QED  BY <4>1 DEF StoreAssumption
    <3>5. log[s].type # "deleted"
      <4> SUFFICES ASSUME log[s].type = "deleted" PROVE FALSE
        OBVIOUS
      <4>1. ~(t0 \in (s + 1)..End)
        BY <1>2, <1>3, <2>2 DEF SourceInv, DeletedForGood
      <4>2. t0 <= s
        BY <1>1, <1>2, <2>2, <4>1
      <4>3. t0 # s
        BY <2>8
      <4>4. t0 < s
        BY <1>2, <2>2, <4>2, <4>3
      <4> QED  BY <2>5, <4>4
    <3>6. s <= t0 \/ t0 < s
      BY <1>2, <2>2
    <3>7. ~Tombstoned(HeldBy(d), x)
      BY <1>4, <3>2 DEF Tombstoned
    <3>8. s <= t0 => Covered(HeldBy(d), s, meta.hist)
      <4> HIDE DEF t0
      <4>1. /\ WmBy(plan, x).seq = t0 /\ WmBy(plan, x).hist = meta.hist
            /\ WmBy(plan, x).fp = Fingerprint(RowBy(plan, x))
        BY <2>2, <3>3
      <4> QED  BY <1>2, <1>4, <2>2, <3>4, <4>1 DEF Covered
    <3>9. t0 < s => Fingerprint(RowBy(plan, x)) = Declared(s)
      BY <2>5
    <3> HIDE DEF t0
    <3> QED  BY <1>4, <3>3, <3>5, <3>6, <3>7, <3>8, <3>9 DEF Skips
  <2> QED  BY <2>7, <2>8
<1> QED  BY <1>7, <1>8

\* What a run commits is what a clone that follows has to be.
LEMMA CommitSound ==
  ASSUME SourceInv, ReplayTypeOK, CloneInv, RunInv, ApplyPage, clone' # clone,
         NEW d \in Clone, d = clone'
  PROVE  CloneHolds(d)
<1> DEFINE r == run
<1>1. /\ r # None /\ r.phase = "apply" /\ RunHolds(r)
      /\ d = Commit(TablesBy(r.sim.plan), r)
  BY ApplyPageEnds
<1>2. r \in Run /\ RunBegun(r) /\ NoneForeign(r)
  BY <1>1 DEF ReplayTypeOK, RunHolds
<1>3. RunMade(d, r)
  BY <1>1, <1>2, CommitMade
<1>4. /\ CloneHolds(clone) /\ clone.dirty = FALSE /\ PlanSound(r.sim.plan, r.start, r.last)
      /\ r.last \in Nat /\ clone.seen \in Nat /\ End \in Nat /\ r.last <= End
      /\ meta.hist \in Nat
  BY <1>2, CloneNow, LaterIs DEF RunBegun, Run, ReplayTypeOK, Clone, SourceInv, IInv,
     TypeOK, Meta
<1> HIDE DEF r
<1>5. clone.seen <= End
  <2>1. clone.source = None => clone.seen = 0
    BY <1>4 DEF CloneHolds
  <2>2. clone.source # None => clone.seen \in 0..End
    BY <1>2, <1>4 DEF CloneHolds, Following, RunBegun
  <2> QED  BY <1>4, <2>1, <2>2
<1>6. d.seen \in 0..End /\ r.last <= d.seen
  BY <1>3, <1>4, <1>5 DEF RunMade, Larger
<1>7. UniqueIn(d.rows)
  BY <1>3, <1>4 DEF RunMade, PlanSound
<1>8. AnyCursor = TRUE => clone.events # TRUE
  BY <1>4 DEF CloneHolds
<1>9. d.source = meta.hist /\ d.source # None /\ d.bound = TRUE /\ d.dirty = FALSE
      /\ d.events = clone.events /\ d.saved # None
  BY <1>3, <1>4 DEF RunMade, ReplayAssumption
<1>10. Following(d)
  <2>1. \E p \in {0, Epoch(d.source)} : Shows(d, p)
    BY <1>2, <1>3, MadeShows
  <2>2. \A s \in 1..End : Rereads(d, s) =>
          AnyCursor = TRUE /\ Skips(HeldBy(d), s, meta.hist)
    BY <1>2, <1>3, MadeSkips
  <2>3. \A x \in Ids : /\ d.tombs[x] # None => d.tombs[x].seq <= d.seen
                       /\ d.wms[x] # None => d.wms[x].seq <= d.seen
    BY <1>2, <1>3, MadeMarked
  <2>4. d.base = LiveRows(d.rows) /\ d.saved.hist = d.source /\ d.saved.seq <= d.seen
    BY <1>3, <1>6 DEF RunMade
  <2>5. d.source \in 0..meta.hist
    BY <1>4, <1>9
  <2> QED  BY <1>6, <1>9, <2>1, <2>2, <2>3, <2>4, <2>5 DEF Following
<1>11. d.base # None /\ d.base \subseteq LiveRows(d.rows)
  <2>1. d.rows \in Rows /\ d.base = LiveRows(d.rows)
    BY <1>3 DEF RunMade, Clone
  <2> QED  BY <2>1, LiveRowsTyped DEF ReplayAssumption
<1> QED  BY <1>7, <1>8, <1>9, <1>10, <1>11 DEF CloneHolds

-----------------------------------------------------------------------------
(* The past of the source.                                                 *)

LEMMA Progresses ==
  ASSUME SourceInv, SourceOp \/ UNCHANGED storeVars PROVE Progress
<1>1. CASE UNCHANGED storeVars
  <2>1. log' = log /\ dropped' = dropped /\ meta' = meta
    BY <1>1 DEF storeVars
  <2>2. log' = log /\ End \in Nat /\ dropped \in Nat /\ meta.hist \in Nat
        /\ meta.trimmed \in Nat
    BY <2>1, LogTyped DEF SourceInv, IInv, TypeOK, Meta
  <2>3. End' = End /\ log \in Seq(Event)
    BY <2>1 DEF End, SourceInv, IInv, TypeOK
  <2>4. \A s \in (End + 1)..End' : FALSE
    BY <2>2, <2>3
  <2>5. Stamped
    BY <2>2, <2>3, <2>4 DEF Stamped, Keeps
  <2> QED  BY <2>1, <2>2, <2>5 DEF Progress
<1> QED  BY <1>1, SourceProgress

\* What was in the log is in it, and what can still be read could be before.
LEMMA PastStays ==
  ASSUME SourceInv, Progress
  PROVE  /\ End \in Nat /\ End' \in Nat /\ End <= End'
         /\ meta.hist \in Nat /\ meta'.hist \in Nat /\ meta.hist <= meta'.hist
         /\ \A s \in 1..End : log'[s] = log[s]
         /\ \A s \in (End + 1)..End' : log'[s].hist = meta.hist
         /\ \A s \in Retained' : s \in 1..End' /\ (s <= End => s \in Retained)
<1>1. /\ End \in Nat /\ End' \in Nat /\ End <= End'
      /\ \A s \in 1..End : log'[s] = log[s]
      /\ \A s \in (End + 1)..End' : log'[s].hist = meta.hist
  BY DEF Progress, Stamped, Keeps
<1>2. /\ dropped \in Nat /\ dropped' \in Nat /\ dropped <= dropped'
      /\ meta.hist \in Nat /\ meta'.hist \in Nat /\ meta.hist <= meta'.hist
  BY DEF Progress
<1>3. \A s \in Retained' : s \in 1..End' /\ dropped' < s
  BY DEF Retained
<1>4. \A s \in Retained' : s <= End => s \in Retained
  BY <1>1, <1>2, <1>3 DEF Retained
<1> QED  BY <1>1, <1>2, <1>3, <1>4

LEMMA EpochStays ==
  ASSUME SourceInv, Progress, NEW h \in 0..meta.hist
  PROVE  Epoch(h)' = Epoch(h)
<1>1. \A s \in 1..End' : s \in 1..End \/ s \in (End + 1)..End'
  BY PastStays
<1>2. {s \in 1..End' : log'[s].hist < h} = {s \in 1..End : log[s].hist < h}
  BY <1>1, PastStays
<1> QED  BY <1>2 DEF Epoch

LEMMA StateStays ==
  ASSUME SourceInv, Progress, NEW p \in Nat, NEW q \in 0..End
  PROVE  State(p, q)' = State(p, q)
<1> DEFINE S(x) == {s \in (p + 1)..q : Touches(s, x) /\ InScope(s)}
           S1(x) == {s \in (p + 1)..q : Touches(s, x)' /\ InScope(s)'}
           Row1(x) == IF S1(x) = {} THEN None
                      ELSE After(log'[Latest(S1(x))])
           Row0(x) == IF S(x) = {} THEN None
                      ELSE After(log[Latest(S(x))])
<1>1. /\ \A s \in (p + 1)..q : s \in 1..End /\ log'[s] = log[s]
      /\ End \in Nat
  BY PastStays
<1>2. \A x : S1(x) = S(x)
  BY <1>1 DEF Touches, InScope, NsAt
<1>3. ASSUME NEW x PROVE Row1(x) = Row0(x)
  <2>1. PICK T : T = S(x)
    OBVIOUS
  <2>2. T \in SUBSET (0..End) /\ \A t \in T : log'[t] = log[t]
    BY <1>1, <2>1
  <2>3. T # {} => Latest(T) \in T
    BY <1>1, <2>2, LatestOf
  <2>4. T # {} => log'[Latest(T)] = log[Latest(T)]
    BY <2>2, <2>3
  <2>5. /\ Row0(x) = IF T = {} THEN None ELSE After(log[Latest(T)])
        /\ Row1(x) = IF T = {} THEN None ELSE After(log'[Latest(T)])
    <3>1. S1(x) = T
      BY <1>2, <2>1
    <3> HIDE DEF S, S1
    <3>2. Row0(x) = IF T = {} THEN None ELSE After(log[Latest(T)])
      BY <2>1
    <3>3. Row1(x) = IF T = {} THEN None ELSE After(log'[Latest(T)])
      BY <3>1
    <3> QED  BY <3>2, <3>3
  <2> HIDE DEF Row0, Row1
  <2> QED  BY <2>4, <2>5
<1>4. State(p, q)' = [x \in Ids |-> Row1(x)] /\ State(p, q) = [x \in Ids |-> Row0(x)]
  BY DEF State, Latest
<1> HIDE DEF Row0, Row1
<1> QED  BY <1>3, <1>4

LEMMA ShowsStays ==
  ASSUME SourceInv, Progress, NEW c, c.source \in 0..meta.hist, c.seen \in 0..End,
         NEW p \in Nat, Shows(c, p)
  PROVE  Shows(c, p)'
<1>1. State(p, c.seen)' = State(p, c.seen) /\ Epoch(c.source)' = Epoch(c.source)
  BY StateStays, EpochStays
<1>2. /\ SameRecords(c.rows, State(p, c.seen))
      /\ p = 0 => Epoch(c.source) <= c.seen
  BY DEF Shows
<1>3. SameRecords(c.rows, State(p, c.seen)')
  BY <1>1, <1>2
<1>4. p = 0 => Epoch(c.source)' <= c.seen
  BY <1>1, <1>2
<1>5. SameRecords(c.rows, State(p, c.seen))' <=> SameRecords(c.rows, State(p, c.seen)')
  BY DEF SameRecords
<1> QED  BY <1>3, <1>4, <1>5 DEF Shows

LEMMA FollowingStays ==
  ASSUME SourceInv, Progress, NEW c \in Clone, Following(c)
  PROVE  Following(c)'
<1>1. /\ c.source \in 0..meta.hist /\ c.seen \in 0..End
      /\ c.saved # None =>
           /\ c.saved.hist = c.source /\ c.saved.seq <= c.seen
           /\ \A s \in 1..End : Rereads(c, s) =>
                AnyCursor = TRUE /\ Skips(HeldBy(c), s, meta.hist)
      /\ c.saved = None =>
           /\ AnyCursor = FALSE
           /\ c.source < meta.hist \/ meta.trimmed > 0
      /\ \A x \in Ids :
           /\ c.tombs[x] # None => c.tombs[x].seq <= c.seen
           /\ c.wms[x] # None => c.wms[x].seq <= c.seen
  BY DEF Following
<1>2. /\ End \in Nat /\ End' \in Nat /\ End <= End'
      /\ meta.hist \in Nat /\ meta'.hist \in Nat /\ meta.hist <= meta'.hist
      /\ \A s \in 1..End : log'[s] = log[s]
      /\ \A s \in Retained' : s \in 1..End' /\ (s <= End => s \in Retained)
  BY PastStays
<1>4. c.source \in 0..meta'.hist /\ c.seen \in 0..End'
  BY <1>1, <1>2
<1>5. \E p \in {0, Epoch(c.source)'} : Shows(c, p)'
  <2>1. PICK p \in {0, Epoch(c.source)} : Shows(c, p)
    BY DEF Following
  <2>2. p \in Nat
    BY <1>1, EpochIs
  <2>3. Epoch(c.source)' = Epoch(c.source)
    BY <1>1, EpochStays
  <2>4. Shows(c, p)'
    BY <1>1, <2>1, <2>2, ShowsStays
  <2> QED  BY <2>1, <2>3, <2>4
<1>6. ASSUME c.saved # None, NEW s \in 1..End', Rereads(c, s)'
      PROVE  AnyCursor = TRUE /\ Skips(HeldBy(c), s, meta.hist)'
  <2>1. /\ s \in Retained' /\ Shown(s)' /\ log'[s].hist = meta'.hist
        /\ s <= c.seen /\ c.source = meta'.hist
        /\ AnyCursor = TRUE \/ c.saved.seq < s
    BY <1>6 DEF Rereads
  <2>2. s \in 1..End /\ s \in Retained /\ log'[s] = log[s] /\ meta'.hist = meta.hist
    BY <1>1, <1>2, <2>1
  <2>3. Shown(s)
    BY <2>1, <2>2 DEF Shown, InScope, NsAt
  <2>4. Rereads(c, s)
    BY <2>1, <2>2, <2>3 DEF Rereads
  <2>5. AnyCursor = TRUE /\ Skips(HeldBy(c), s, meta.hist)
    BY <1>1, <1>6, <2>2, <2>4
  <2> QED  BY <2>2, <2>5 DEF Skips, HeldBy, Tombstoned, Covered, Declared
<1>7. c.saved = None => c.source < meta'.hist \/ meta'.trimmed > 0
  <2>1. meta'.hist = meta.hist => meta.trimmed <= meta'.trimmed
    BY DEF Progress
  <2>2. meta.trimmed \in Nat /\ meta'.trimmed \in Nat
    BY DEF Progress
  <2> QED  BY <1>1, <1>2, <2>1, <2>2
<1> QED  BY <1>1, <1>4, <1>5, <1>6, <1>7 DEF Following

LEMMA CloneHoldsStays ==
  ASSUME SourceInv, Progress, NEW c \in Clone, CloneHolds(c)
  PROVE  CloneHolds(c)'
<1>1. UniqueIn(c.rows)' <=> UniqueIn(c.rows)
  BY DEF UniqueIn
<1>2. LiveRows(c.rows)' = LiveRows(c.rows)
  BY DEF LiveRows
<1> QED  BY <1>1, <1>2, FollowingStays DEF CloneHolds

-----------------------------------------------------------------------------
(* Beginning a run.                                                        *)

\* A cursor the clone is let in with.
LEMMA LetIn ==
  ASSUME SourceInv, ReplayTypeOK, CloneInv, SharedBase = FALSE, NEW c \in Cursor, Valid(c)
  PROVE  /\ clone.dirty = FALSE /\ clone.source \in {None, meta.hist}
         /\ clone.source = None => clone.events = FALSE
         /\ c.hist = meta.hist /\ Accepts(c.seq)
         /\ clone.source # None =>
              Following(clone) /\ clone.base = LiveRows(clone.rows)
         /\ c.seq > 0 /\ clone.events = FALSE =>
              clone.saved # None /\ clone.saved.seq >= c.seq
<1>1. CloneHolds(clone) /\ clone.bound \in BOOLEAN /\ clone.events \in BOOLEAN
      /\ clone.dirty \in BOOLEAN
  BY CloneNow DEF ReplayTypeOK, Clone
<1>2. clone.bound = (clone.source # None)
  BY <1>1 DEF CloneHolds
<1>3. CASE clone.bound
  <2>1. clone.source = meta.hist /\ ~clone.dirty
    BY <1>3 DEF Valid, CleanClone, Diverged
  <2>2. clone.source # None /\ clone.dirty = FALSE
    BY <1>1, <1>2, <1>3, <2>1
  <2>3. clone.base = LiveRows(clone.rows)
    <3>1. clone.base # None
      BY <1>1, <2>2 DEF CloneHolds
    <3> QED  BY <1>3, <3>1 DEF Valid, CleanClone, Diverged
  <2>4. Following(clone)
    BY <1>1, <2>2, <2>3 DEF CloneHolds
  <2> QED  BY <1>1, <2>1, <2>2, <2>3, <2>4 DEF Valid, FromSource
<1>4. CASE ~clone.bound
  <2>1. ~clone.events
    BY <1>4 DEF Valid
  <2>2. clone.events = FALSE /\ clone.source = None
    BY <1>1, <1>2, <1>4, <2>1
  <2>3. clone.dirty = FALSE
    BY <1>1, <2>2 DEF CloneHolds
  <2> QED  BY <1>1, <2>1, <2>2, <2>3 DEF Valid, FromSource
<1> QED  BY <1>3, <1>4

\* The events of this history the clone has not been through are there to
\* read, and after where the run starts.
LEMMA NothingMissed ==
  ASSUME SourceInv, NEW c \in Cursor, c.seq \in 0..End, Accepts(c.seq),
         NEW s \in 1..End, c.seq < s, log[s].hist = meta.hist
  PROVE  s \in Retained /\ Larger(c.seq, meta.epoch) < s
<1>1. /\ End \in Nat /\ dropped \in 0..End /\ meta.epoch \in 0..End
      /\ meta.hist \in Nat /\ CursorWindowIntact
  BY LaterIs, WindowIntact DEF SourceInv, IInv, TypeOK, EpochMarks, Meta
<1>2. ~(s \in (c.seq + 1)..dropped)
  BY <1>1 DEF CursorWindowIntact
<1>3. s \in Retained
  BY <1>1, <1>2 DEF Retained
<1>4. ~(s \in 1..meta.epoch)
  BY <1>1 DEF SourceInv, EpochMarks
<1> QED  BY <1>1, <1>3, <1>4 DEF Larger

\* Before the first page nothing is planned.
LEMMA NothingPlanned ==
  ASSUME SourceInv, ReplayTypeOK, CloneInv, NEW from \in Nat
  PROVE  EmptySim.plan = {} /\ PlanSound({}, from, from) /\ SimIs(EmptySim)
<1>1. EmptySim.plan = {} /\ EmptySim.loaded = {} /\ EmptySim.mutated = {}
      /\ EmptySim.failed = FALSE
  BY DEF EmptySim
<1>2. \A x : About({}, x) = {} /\ RowBy({}, x) = clone.rows[x]
  BY DEF About, RowBy
<1>3. Window(from, from) = {}
  <2>1. ASSUME NEW s \in Window(from, from) PROVE FALSE
    <3>1. s \in Nat /\ from < s /\ s <= from
      BY WindowIs
    <3> QED  BY <3>1
  <2> QED  BY <2>1
<1>4. UniqueIn(RowsBy({}))
  <2>1. UniqueIn(clone.rows)
    BY CloneNow DEF CloneHolds
  <2> QED  BY <1>2, <2>1 DEF UniqueIn, RowsBy
<1>5. PlanSound({}, from, from)
  BY <1>3, <1>4 DEF PlanSound
<1>6. SimIs(EmptySim)
  <2>1. Changed({}) = {}
    BY DEF Changed
  <2> QED  BY <1>1, <2>1 DEF SimIs
<1> QED  BY <1>1, <1>5, <1>6

\* A run that is let in from a cursor of what the clone has been through.
LEMMA BeginBegun ==
  ASSUME SourceInv, ReplayTypeOK, CloneInv, SharedBase = FALSE,
         NEW c \in Cursor, NEW b \in Budgets, Begin(c, b),
         c.seq \in 0..End, c.seq <= clone.seen,
         clone.source # None => clone.saved # None,
         clone.saved # None /\ AnyCursor = FALSE => c = clone.saved,
         NEW q \in Run, q = run'
  PROVE  RunHolds(q)
<1> DEFINE start == Larger(c.seq, meta.epoch)
<1>1. q = [phase |-> "scan", cursor |-> c, start |-> start,
           budget |-> b, at |-> start, last |-> start,
           scanned |-> 0, sim |-> EmptySim, staged |-> None] /\ Valid(c)
  BY DEF Begin
<1>2. /\ clone.dirty = FALSE /\ clone.source \in {None, meta.hist}
      /\ clone.source = None => clone.events = FALSE
      /\ clone.source # None => clone.base = LiveRows(clone.rows)
      /\ c.hist = meta.hist /\ Accepts(c.seq)
  BY <1>1, LetIn
<1>3. /\ meta.epoch \in 0..End /\ End \in Nat /\ clone.seen \in Nat /\ c.seq \in Nat
      /\ start \in 0..End /\ c.seq <= start /\ meta.epoch <= start
  <2>1. meta.epoch \in 0..End /\ End \in Nat /\ clone.seen \in Nat
    BY LaterIs DEF SourceInv, IInv, EpochMarks, ReplayTypeOK, Clone
  <2> QED  BY <2>1 DEF Larger
<1>4. /\ q.phase = "scan" /\ q.cursor = c /\ q.start = start /\ q.at = start
      /\ q.last = start /\ q.sim = EmptySim /\ q.staged = None
  BY <1>1
<1>5. \A s \in 1..End : clone.seen < s /\ log[s].hist = meta.hist
                         => s \in Retained /\ start < s
  <2> HIDE DEF start
  <2> SUFFICES ASSUME NEW s \in 1..End, clone.seen < s, log[s].hist = meta.hist
               PROVE  s \in Retained /\ start < s
    OBVIOUS
  <2>1. c.seq < s
    BY <1>3
  <2> QED  BY <1>2, <2>1, NothingMissed DEF start
<1> HIDE DEF start
<1>6. EmptySim.plan = {} /\ PlanSound({}, start, start) /\ SimIs(EmptySim)
  BY <1>3, NothingPlanned
<1>10. clone.saved # None /\ AnyCursor = FALSE => clone.saved.seq <= start
  BY <1>3
<1>11. RunBegun(q)
  BY <1>2, <1>3, <1>4, <1>5, <1>6, <1>10 DEF RunBegun
<1> QED  BY <1>4, <1>6, <1>11 DEF RunHolds

LEMMA BeginSound ==
  ASSUME SourceInv, ReplayTypeOK, CloneInv, SharedBase = FALSE, NEW b \in Budgets,
         Resume(b) \/ (AnyCursor /\ \E c \in Issued : Begin(c, b)),
         NEW q \in Run, q = run'
  PROVE  RunHolds(q)
<1>0. /\ CloneHolds(clone) /\ clone.seen \in Nat /\ End \in Nat /\ AnyCursor \in BOOLEAN
      /\ clone.saved \in Cursor \cup {None} /\ TypeOK /\ clone.events \in BOOLEAN
  BY CloneNow, LaterIs DEF ReplayTypeOK, Clone, SourceInv, IInv, ReplayAssumption
<1>1. clone.saved # None => /\ clone.source # None
                            /\ clone.saved \in Cursor /\ clone.saved.seq \in Nat
  BY <1>0 DEF CloneHolds, Cursor
<1>2. ASSUME clone.source # None, Following(clone), clone.saved # None
      PROVE  clone.saved.seq \in 0..End /\ clone.saved.seq <= clone.seen
  <2>1. clone.saved.seq <= clone.seen /\ clone.seen \in 0..End
    BY <1>2 DEF Following
  <2> QED  BY <1>0, <1>1, <1>2, <2>1
<1>3. CASE Resume(b) /\ clone.saved # None
  <2>1. Begin(clone.saved, b)
    BY <1>3 DEF Resume
  <2>2. Following(clone)
    BY <1>1, <1>3, <2>1, LetIn DEF Begin
  <2>3. clone.saved.seq \in 0..End /\ clone.saved.seq <= clone.seen
    BY <1>1, <1>2, <1>3, <2>2
  <2> QED  BY <1>1, <1>3, <2>1, <2>3, BeginBegun
<1>4. CASE Resume(b) /\ clone.saved = None
  <2>1. Begin(At(0), b) /\ meta.trimmed = 0
    BY <1>4 DEF Resume, Issuable
  <2>2. At(0) \in Cursor /\ At(0).seq = 0
    BY <1>0, CursorTyped DEF At
  <2>3. Valid(At(0))
    BY <2>1 DEF Begin
  <2>4. clone.source \in {None, meta.hist} /\ (clone.source # None => Following(clone))
    BY <2>2, <2>3, LetIn
  <2>5. clone.source = None
    <3> SUFFICES ASSUME clone.source # None PROVE FALSE
      OBVIOUS
    <3>1. clone.source < meta.hist \/ meta.trimmed > 0
      BY <1>4, <2>4 DEF Following
    <3>2. meta.hist \in Nat
      BY <1>0 DEF TypeOK, Meta
    <3> QED  BY <2>1, <2>4, <3>1, <3>2
  <2>6. PICK c \in Cursor : c = At(0)
    BY <2>2
  <2>7. c.seq \in 0..End /\ c.seq <= clone.seen /\ Begin(c, b)
    BY <1>0, <2>1, <2>2, <2>6
  <2> QED  BY <1>4, <2>5, <2>7, BeginBegun
<1>5. CASE AnyCursor /\ \E c \in Issued : Begin(c, b)
  <2>1. PICK s \in 0..End : Begin(At(s), b)
    BY <1>5 DEF Issued
  <2>2. At(s) \in Cursor /\ At(s).seq = s /\ s \in Nat
    BY <1>0, CursorTyped DEF At
  <2>3. Valid(At(s))
    BY <2>1 DEF Begin
  <2>9. PICK c \in Cursor : c = At(s)
    BY <2>2
  <2>10. Valid(c) /\ c.seq = s /\ Begin(c, b)
    BY <2>1, <2>2, <2>3, <2>9
  <2>4. /\ clone.dirty = FALSE /\ (clone.source # None => Following(clone))
        /\ c.seq > 0 /\ clone.events = FALSE => clone.saved # None /\ clone.saved.seq >= c.seq
    BY <2>10, LetIn
  <2>5. AnyCursor = TRUE
    BY <1>0, <1>5
  <2>6. clone.events = FALSE
    BY <1>0, <2>4, <2>5 DEF CloneHolds
  <2>7. clone.source # None => clone.saved # None
    BY <2>4, <2>5 DEF Following
  <2>8. s <= clone.seen
    <3>1. CASE s = 0
      BY <1>0, <3>1
    <3>2. CASE s > 0
      <4>1. clone.saved # None /\ clone.saved.seq >= s
        BY <2>4, <2>6, <2>10, <3>2
      <4>2. clone.saved.seq <= clone.seen /\ clone.saved.seq \in Nat
        BY <1>1, <1>2, <2>4, <4>1
      <4> QED  BY <1>0, <2>2, <4>1, <4>2
    <3> QED  BY <2>2, <3>1, <3>2
  <2> QED  BY <2>2, <2>5, <2>7, <2>8, <2>10, BeginBegun
<1> QED  BY <1>3, <1>4, <1>5

-----------------------------------------------------------------------------
(* Packages, as they are made and as the source goes on.                   *)

LEMMA PackageStays ==
  ASSUME SourceInv, Progress, NEW package \in Package, PackageSound(package)
  PROVE  PackageSound(package)'
<1>1. /\ UniqueIn(package.rows)
      /\ package.hist <= meta.hist /\ package.through \in 0..End
      /\ SameRecords(package.rows, State(0, package.through))
      /\ Epoch(package.hist) <= package.through
      /\ package.cursor # None =>
           /\ package.cursor.hist = package.hist
           /\ package.cursor.seq <= package.through
           /\ package.hist = meta.hist =>
                \A s \in Retained : package.cursor.seq < s => package.through < s
      /\ package.cursor = None => package.hist < meta.hist \/ meta.trimmed > 0
  BY DEF PackageSound
<1>2. /\ End \in Nat /\ End' \in Nat /\ End <= End'
      /\ meta.hist \in Nat /\ meta'.hist \in Nat /\ meta.hist <= meta'.hist
      /\ \A s \in Retained' : s \in 1..End' /\ (s <= End => s \in Retained)
  BY PastStays
<1>3. package.hist \in 0..meta.hist
  BY <1>1, <1>2 DEF Package
<1>4. /\ Epoch(package.hist)' = Epoch(package.hist)
      /\ State(0, package.through)' = State(0, package.through)
  BY <1>1, <1>3, EpochStays, StateStays
<1>5. SameRecords(package.rows, State(0, package.through))'
  <2>1. SameRecords(package.rows, State(0, package.through)')
    BY <1>1, <1>4
  <2> QED  BY <2>1 DEF SameRecords
<1>6. UniqueIn(package.rows)'
  BY <1>1 DEF UniqueIn
<1>7. ASSUME package.cursor # None, package.hist = meta'.hist,
             NEW s \in Retained', package.cursor.seq < s
      PROVE  package.through < s
  <2>1. package.hist = meta.hist
    BY <1>2, <1>3, <1>7
  <2>2. CASE s <= End
    BY <1>1, <1>2, <1>7, <2>1, <2>2
  <2>3. CASE ~(s <= End)
    BY <1>1, <1>2, <2>3
  <2> QED  BY <2>2, <2>3
<1>8. package.cursor = None => package.hist < meta'.hist \/ meta'.trimmed > 0
  <2>1. /\ meta'.hist = meta.hist => meta.trimmed <= meta'.trimmed
        /\ meta.trimmed \in Nat /\ meta'.trimmed \in Nat
    BY DEF Progress
  <2> QED  BY <1>1, <1>2, <1>3, <2>1
<1>9. package.hist <= meta'.hist /\ package.through \in 0..End'
      /\ Epoch(package.hist)' <= package.through
  BY <1>1, <1>2, <1>3, <1>4
<1> QED  BY <1>1, <1>5, <1>6, <1>7, <1>8, <1>9 DEF PackageSound

\* The rows of a store are the state of its log.
LEMMA RowsAreState ==
  ASSUME SourceInv, Scope = None
  PROVE  SameRecords(rows, State(0, End))
<1>1. End \in Nat /\ LogExplainsRows /\ imported = {}
  BY LaterIs DEF SourceInv, IInv
<1>2. \A s : InScope(s)
  BY DEF InScope
<1>3. PICK p \in Nat : p = 0
  OBVIOUS
<1>4. ASSUME NEW x \in Ids PROVE State(p, End)[x] = rows[x]
  <2>1. CASE ~Live(x) /\ \A s \in 1..End : ~Touches(s, x)
    <3>0. \A s \in (p + 1)..End : ~Tells(s, x)
      BY <1>1, <1>3, <2>1 DEF Tells
    <3>1. State(p, End)[x] = None
      BY <1>1, <3>0, StateNone
    <3> QED  BY <2>1, <3>1 DEF Live
  <2>2. CASE \E s \in 1..End : IsLast(s, x) /\ rows[x] = After(log[s])
    <3>1. PICK s \in 1..End : IsLast(s, x) /\ rows[x] = After(log[s])
      BY <2>2
    <3>2. Tells(s, x) /\ s \in (p + 1)..End
      BY <1>1, <1>2, <1>3, <3>1 DEF IsLast, Tells
    <3>3. \A t \in (p + 1)..End : Tells(t, x) => t <= s
      <4> SUFFICES ASSUME NEW t \in (p + 1)..End, Tells(t, x) PROVE t <= s
        OBVIOUS
      <4>1. ~(t \in (s + 1)..End)
        BY <3>1 DEF IsLast, Tells
      <4> QED  BY <1>1, <1>3, <4>1
    <3>4. State(p, End)[x] = After(log[s])
      BY <1>1, <3>2, <3>3, StateAfter
    <3> QED  BY <3>1, <3>4
  <2> QED  BY <1>1, <2>1, <2>2 DEF LogExplainsRows
<1> QED  BY <1>3, <1>4 DEF SameRecords

\* A package is a state of the source, with a cursor that no later event of
\* the same history is behind.
LEMMA PackageMade ==
  ASSUME SourceInv, ReplayTypeOK, Scope = None, NEW package \in Package,
         package = [rows |-> rows, hist |-> meta.hist, through |-> End,
                    cursor |-> PackageCursor]
  PROVE  PackageSound(package)
<1>1. /\ End \in Nat /\ Retained \subseteq 1..End /\ dropped \in 0..End
      /\ meta.hist \in Nat /\ meta.trimmed \in Nat /\ meta.lastHead \in Nat
      /\ meta.lastHead > 0 => meta.trimmed > 0
  BY LaterIs DEF SourceInv, IInv, TypeOK, Meta, EpochMarks
<1>2. /\ MaxPresent \in 0..End /\ \A s \in Retained : MaxPresent = End /\ s <= End
  BY <1>1 DEF MaxPresent, Retained
<1>3. /\ HeadSeq \in Nat /\ MaxPresent <= HeadSeq
      /\ HeadSeq > MaxPresent => meta.trimmed > 0
  BY <1>1, <1>2 DEF HeadSeq, Larger
<1>4. /\ package.rows = rows /\ package.hist = meta.hist /\ package.through = End
      /\ package.cursor = PackageCursor
  OBVIOUS
<1>5. UniqueIn(rows)
  BY DEF SourceInv, IInv, UniqueContent, UniqueIn, Live
<1>6. SameRecords(rows, State(0, End))
  BY RowsAreState
<1>7. Epoch(meta.hist) \in 0..End
  BY <1>1, EpochIs
<1>8. ASSUME PackageCursor # None
      PROVE  /\ PackageCursor.hist = meta.hist /\ PackageCursor.seq <= End
             /\ \A s \in Retained : ~(PackageCursor.seq < s)
  <2>1. PackageCursor.seq = HeadSeq /\ PackageCursor.hist = meta.hist
        /\ HeadSeq <= MaxPresent
    BY <1>1, <1>2, <1>3, <1>8 DEF PackageCursor, At
  <2> QED  BY <1>1, <1>2, <1>3, <2>1
<1>9. PackageCursor = None => meta.trimmed > 0
  <2>1. At(HeadSeq) # None
    BY <1>3, CursorTyped DEF SourceInv, IInv
  <2> QED  BY <1>3, <2>1 DEF PackageCursor
<1> QED  BY <1>1, <1>4, <1>5, <1>6, <1>7, <1>8, <1>9 DEF PackageSound

LEMMA PackagesStep ==
  ASSUME SourceInv, ReplayTypeOK, ReplayTypeOK', Undisturbed, PackagesInv,
         [ReplayNext]_vars
  PROVE  PackagesInv'
<1>1. /\ packages \subseteq Package /\ packages' \subseteq Package
      /\ \A package \in packages : PackageSound(package)
      /\ exporting # None => exporting.rows = rows /\ exporting.through = End
      /\ MaxPackages = 0 => packages = {} /\ exporting = None
      /\ MaxPackages = 0 \/ Scope = None
  BY DEF ReplayTypeOK, PackagesInv, Undisturbed
<1>2. Progress
  BY SourceSteps, Progresses
<1>3. \A package \in packages : PackageSound(package)'
  BY <1>1, <1>2, PackageStays
<1>4. CASE UNCHANGED <<packages, exporting>> /\ (SourceStep \/ UNCHANGED storeVars)
  <2>1. exporting # None => UNCHANGED storeVars
    BY <1>4 DEF SourceStep, Undisturbed
  <2>2. exporting' # None => exporting'.rows = rows' /\ exporting'.through = End'
    BY <1>1, <1>4, <2>1 DEF storeVars, End
  <2> QED  BY <1>1, <1>3, <1>4, <2>2 DEF PackagesInv
<1>5. CASE SnapshotRows
  <2>1. /\ exporting' = [rows |-> rows, through |-> End] /\ packages' = packages
        /\ rows' = rows /\ End' = End /\ Cardinality(packages) < MaxPackages
    BY <1>5 DEF SnapshotRows, storeVars, End
  <2>2. MaxPackages # 0
    <3>1. Cardinality({}) = 0
      BY FS_EmptySet
    <3> QED  BY <1>1, <2>1, <3>1
  <2> QED  BY <1>3, <2>1, <2>2 DEF PackagesInv
<1>6. CASE SnapshotCursor
  <2>1. PICK package : package = [rows |-> exporting.rows, hist |-> meta.hist,
                                  through |-> exporting.through, cursor |-> PackageCursor]
    OBVIOUS
  <2>2. /\ packages' = packages \cup {package} /\ exporting' = None /\ exporting # None
        /\ UNCHANGED storeVars
    BY <1>6, <2>1 DEF SnapshotCursor
  <2>3. package = [rows |-> rows, hist |-> meta.hist, through |-> End,
                   cursor |-> PackageCursor]
    BY <1>1, <2>1, <2>2
  <2>4. package \in Package /\ Scope = None /\ MaxPackages # 0
    BY <1>1, <2>2
  <2>5. PackageSound(package)
    BY <2>3, <2>4, PackageMade
  <2>6. PackageSound(package)'
    BY <1>2, <2>4, <2>5, PackageStays
  <2> QED  BY <1>3, <2>2, <2>4, <2>6 DEF PackagesInv
<1>7. \/ UNCHANGED <<packages, exporting>> /\ (SourceStep \/ UNCHANGED storeVars)
      \/ SnapshotRows \/ SnapshotCursor
  <2>1. CASE SourceStep
    BY <2>1 DEF SourceStep
  <2>2. CASE ReplayStep
    BY <2>2 DEF ReplayStep, Resume, Begin, ScanPage, ApplyPage
  <2>3. CASE Crash \/ UNCHANGED vars
    BY <2>3 DEF Crash, vars
  <2>4. CASE CloneStep
    BY <2>4 DEF CloneStep, Hydrate, CloneWrite
  <2> QED  BY <2>1, <2>2, <2>3, <2>4 DEF ReplayNext
<1> QED  BY <1>4, <1>5, <1>6, <1>7

-----------------------------------------------------------------------------
(* What else happens to a clone.                                           *)

LEMMA WriteSound ==
  ASSUME CloneInv, ReplayTypeOK, NEW x \in Ids, NEW r \in NewRow \cup {None},
         CloneWrite(x, r), NEW d \in Clone, d = clone'
  PROVE  CloneHolds(d)
<1>1. /\ clone \in Clone /\ CloneHolds(clone)
      /\ r # None => HolderIn(clone.rows, r) \subseteq {x}
  BY CloneNow DEF ReplayTypeOK, CloneWrite
<1>2. /\ d.rows = [clone.rows EXCEPT ![x] = r] /\ d.events = TRUE /\ d.dirty = TRUE
      /\ d.bound = clone.bound /\ d.source = clone.source /\ d.base = clone.base
      /\ d.saved = clone.saved /\ d.seen = clone.seen
  BY <1>1 DEF CloneWrite, Clone
<1>3. \A y \in Ids : d.rows[y] = IF y = x THEN r ELSE clone.rows[y]
  <2>1. clone.rows \in [Ids -> Row \cup {None}]
    BY <1>1 DEF Clone, Rows
  <2> QED  BY <1>2, <2>1
<1>4. UniqueIn(d.rows)
  <2>1. UniqueIn(clone.rows)
    BY <1>1 DEF CloneHolds
  <2> QED  BY <1>1, <1>3, <2>1 DEF UniqueIn, HolderIn
<1> QED  BY <1>1, <1>2, <1>4 DEF CloneHolds

\* What hydration makes of a clone.
Hydrated(d, package) ==
  /\ \A x \in Ids : d.rows[x] = IF x \in Put(package) THEN package.rows[x]
                                ELSE clone.rows[x]
  /\ \A x \in Ids : d.tombs[x] \in {clone.tombs[x], None}
  /\ \A x \in Ids : d.wms[x] \in {clone.wms[x], None}
  /\ d.dirty = clone.dirty /\ d.events \in {clone.events, TRUE}
  /\ ~Blank => /\ d.bound = clone.bound /\ d.source = clone.source
               /\ d.base = clone.base /\ d.saved = clone.saved
               /\ d.seen = clone.seen
  /\ Blank => /\ d.bound = TRUE /\ d.source = package.hist
              /\ d.base = LiveRows(d.rows)
              /\ d.saved = IF package.cursor = None THEN clone.saved
                           ELSE package.cursor
              /\ d.seen = package.through

LEMMA HydrateHas ==
  ASSUME clone \in Clone, NEW package \in Package, Hydrate(package),
         NEW d \in Clone, d = clone'
  PROVE  Hydrated(d, package)
<1> DEFINE rs == [x \in Ids |-> IF x \in Put(package) THEN package.rows[x]
                                ELSE clone.rows[x]]
           ts == [x \in Ids |-> IF package.rows[x] # None THEN None ELSE clone.tombs[x]]
           ws == [x \in Ids |-> IF package.rows[x] # None THEN None ELSE clone.wms[x]]
<1>1. PICK logged \in {clone.events, TRUE} :
        d = [(IF Blank THEN Based(package) ELSE Loaded(package)) EXCEPT !.events = logged]
  BY HydrateIs
<1>2. Loaded(package) \in Clone /\ Based(package) \in Clone
  BY HydrateTyped
<1>3. /\ \A x \in Ids : rs[x] = IF x \in Put(package) THEN package.rows[x]
                                ELSE clone.rows[x]
      /\ \A x \in Ids : ts[x] \in {clone.tombs[x], None}
      /\ \A x \in Ids : ws[x] \in {clone.wms[x], None}
  OBVIOUS
<1>4. Loaded(package) = [clone EXCEPT !.rows = rs, !.tombs = ts, !.wms = ws]
  BY DEF Loaded
<1> HIDE DEF rs, ts, ws
<1>5. /\ Loaded(package).rows = rs /\ Loaded(package).tombs = ts
      /\ Loaded(package).wms = ws /\ Loaded(package).dirty = clone.dirty
      /\ Loaded(package).bound = clone.bound /\ Loaded(package).source = clone.source
      /\ Loaded(package).base = clone.base /\ Loaded(package).saved = clone.saved
      /\ Loaded(package).seen = clone.seen
  BY <1>4 DEF Clone
<1> HIDE DEF Loaded
<1>6. /\ Based(package).rows = rs /\ Based(package).tombs = ts
      /\ Based(package).wms = ws /\ Based(package).dirty = clone.dirty
      /\ Based(package).bound = TRUE /\ Based(package).source = package.hist
      /\ Based(package).base = LiveRows(rs)
      /\ Based(package).saved = IF package.cursor = None THEN clone.saved
                                ELSE package.cursor
      /\ Based(package).seen = package.through
  BY <1>2, <1>5 DEF Clone, Based
<1> HIDE DEF Based
<1>7. CASE Blank
  <2>1. d = [Based(package) EXCEPT !.events = logged]
    BY <1>1, <1>7
  <2>2. /\ d.rows = rs /\ d.tombs = ts /\ d.wms = ws /\ d.dirty = clone.dirty
        /\ d.events = logged /\ d.bound = TRUE /\ d.source = package.hist
        /\ d.base = LiveRows(rs) /\ d.seen = package.through
        /\ d.saved = IF package.cursor = None THEN clone.saved ELSE package.cursor
    BY <1>2, <1>6, <2>1 DEF Clone
  <2>3. d.base = LiveRows(d.rows)
    BY <2>2
  <2> QED  BY <1>1, <1>3, <1>7, <2>2, <2>3 DEF Hydrated
<1>8. CASE ~Blank
  <2>1. d = [Loaded(package) EXCEPT !.events = logged]
    BY <1>1, <1>8
  <2>2. /\ d.rows = rs /\ d.tombs = ts /\ d.wms = ws /\ d.dirty = clone.dirty
        /\ d.events = logged /\ d.bound = clone.bound /\ d.source = clone.source
        /\ d.base = clone.base /\ d.saved = clone.saved /\ d.seen = clone.seen
    BY <1>2, <1>5, <2>1 DEF Clone
  <2> QED  BY <1>1, <1>3, <1>8, <2>2 DEF Hydrated
<1> QED  BY <1>7, <1>8

LEMMA HydratedUnique ==
  ASSUME UniqueIn(clone.rows), NEW package, UniqueIn(package.rows), NEW rs,
         \A x \in Ids : rs[x] = IF x \in Put(package) THEN package.rows[x]
                                ELSE clone.rows[x]
  PROVE  UniqueIn(rs)
<1>1. \A x \in Put(package), y \in Ids :
        clone.rows[y] # None => ~ /\ clone.rows[y].ns = package.rows[x].ns
                                  /\ clone.rows[y].hash = package.rows[x].hash
  BY DEF Put, HolderIn
<1> SUFFICES ASSUME NEW x \in Ids, NEW y \in Ids, rs[x] # None, rs[y] # None,
                    rs[x].ns = rs[y].ns, rs[x].hash = rs[y].hash
             PROVE  x = y
  BY DEF UniqueIn
<1>2. CASE x \in Put(package) /\ y \in Put(package)
  BY <1>2 DEF UniqueIn
<1>3. CASE x \in Put(package) /\ y \notin Put(package)
  BY <1>1, <1>3
<1>4. CASE x \notin Put(package) /\ y \in Put(package)
  BY <1>1, <1>4
<1>5. CASE x \notin Put(package) /\ y \notin Put(package)
  BY <1>5 DEF UniqueIn
<1> QED  BY <1>2, <1>3, <1>4, <1>5

\* A clone that follows nothing and holds nothing follows the package.
LEMMA BasedSound ==
  ASSUME SourceInv, ReplayTypeOK, CloneInv, AnyCursor = FALSE,
         NEW package \in Package, PackageSound(package), Hydrate(package),
         Blank, clone.source = None, NEW d \in Clone, d = clone'
  PROVE  CloneHolds(d)
<1>1. /\ clone \in Clone /\ CloneHolds(clone) /\ clone.dirty \in BOOLEAN
      /\ meta.hist \in Nat /\ End \in Nat
  BY CloneNow, LaterIs DEF ReplayTypeOK, Clone, SourceInv, IInv, TypeOK, Meta
<1>2. /\ \A x \in Ids : d.rows[x] = IF x \in Put(package) THEN package.rows[x]
                                    ELSE clone.rows[x]
      /\ \A x \in Ids : d.tombs[x] \in {clone.tombs[x], None}
      /\ \A x \in Ids : d.wms[x] \in {clone.wms[x], None}
      /\ d.dirty = clone.dirty
      /\ d.bound = TRUE /\ d.source = package.hist /\ d.base = LiveRows(d.rows)
      /\ d.saved = IF package.cursor = None THEN clone.saved ELSE package.cursor
      /\ d.seen = package.through
  <2>1. Hydrated(d, package)
    BY <1>1, HydrateHas
  <2> QED  BY <2>1 DEF Hydrated
<1>3. /\ clone.dirty = FALSE /\ clone.saved = None
      /\ \A x \in Ids : clone.tombs[x] = None /\ clone.wms[x] = None
  <2>1. clone.events # TRUE
    BY DEF Blank
  <2> QED  BY <1>1, <2>1 DEF CloneHolds
<1>4. /\ UniqueIn(package.rows)
      /\ package.hist \in Nat /\ package.hist <= meta.hist /\ package.through \in 0..End
      /\ SameRecords(package.rows, State(0, package.through))
      /\ Epoch(package.hist) <= package.through
      /\ package.cursor # None =>
           /\ package.cursor.hist = package.hist
           /\ package.cursor.seq <= package.through
           /\ package.hist = meta.hist =>
                \A s \in Retained : package.cursor.seq < s => package.through < s
      /\ package.cursor = None => package.hist < meta.hist \/ meta.trimmed > 0
  BY DEF PackageSound, Package
<1>5. \A x \in Ids : d.rows[x] = package.rows[x]
  <2>1. \A x \in Ids : clone.rows[x] = None
    BY DEF Blank, LiveRows
  <2>2. \A r : HolderIn(clone.rows, r) = {}
    BY <2>1 DEF HolderIn
  <2>3. \A x \in Ids : x \notin Put(package) => package.rows[x] = None
    BY <2>1, <2>2 DEF Put
  <2> QED  BY <1>2, <2>1, <2>3
<1>6. UniqueIn(d.rows)
  BY <1>4, <1>5 DEF UniqueIn
<1>7. Shows(d, 0)
  <2>1. SameRecords(d.rows, State(0, package.through))
    BY <1>4, <1>5 DEF SameRecords
  <2> QED  BY <1>2, <1>4, <2>1 DEF Shows
<1>8. ASSUME d.saved # None, NEW s \in 1..End, Rereads(d, s) PROVE FALSE
  <2>1. package.cursor # None /\ d.saved = package.cursor
    BY <1>2, <1>3, <1>8
  <2>2. s \in Retained /\ package.hist = meta.hist /\ s <= package.through
        /\ package.cursor.seq < s
    BY <1>2, <1>8, <2>1 DEF Rereads
  <2>3. package.through < s
    BY <1>4, <2>1, <2>2
  <2> QED  BY <1>4, <2>2, <2>3
<1>9. Following(d)
  <2>1. d.source \in 0..meta.hist /\ d.seen \in 0..End
    BY <1>1, <1>2, <1>4
  <2>2. d.saved # None => d.saved.hist = d.source /\ d.saved.seq <= d.seen
    BY <1>2, <1>3, <1>4
  <2>3. d.saved = None => d.source < meta.hist \/ meta.trimmed > 0
    BY <1>2, <1>3, <1>4
  <2>4. \A x \in Ids : d.tombs[x] = None /\ d.wms[x] = None
    BY <1>2, <1>3
  <2> QED  BY <1>7, <1>8, <2>1, <2>2, <2>3, <2>4 DEF Following
<1>10. d.base # None /\ d.base \subseteq LiveRows(d.rows)
  <2>1. d.rows \in Rows
    BY DEF Clone
  <2> QED  BY <1>2, <2>1, LiveRowsTyped DEF ReplayAssumption
<1>11. d.source # None
  BY <1>2, <1>4 DEF ReplayAssumption
<1> QED  BY <1>2, <1>3, <1>6, <1>9, <1>10, <1>11 DEF CloneHolds

\* Any other takes what it lacks, and follows on only if that is nothing.
LEMMA LoadedSound ==
  ASSUME SourceInv, ReplayTypeOK, CloneInv, AnyCursor = FALSE,
         NEW package \in Package, PackageSound(package), Hydrate(package),
         ~Blank, NEW d \in Clone, d = clone'
  PROVE  CloneHolds(d)
<1>1. /\ clone \in Clone /\ CloneHolds(clone)
      /\ UniqueIn(clone.rows) /\ UniqueIn(package.rows)
  BY CloneNow DEF ReplayTypeOK, CloneHolds, PackageSound
<1>2. /\ \A x \in Ids : d.rows[x] = IF x \in Put(package) THEN package.rows[x]
                                    ELSE clone.rows[x]
      /\ \A x \in Ids : d.tombs[x] \in {clone.tombs[x], None}
      /\ \A x \in Ids : d.wms[x] \in {clone.wms[x], None}
      /\ d.dirty = clone.dirty /\ d.events \in {clone.events, TRUE}
      /\ d.bound = clone.bound /\ d.source = clone.source
      /\ d.base = clone.base /\ d.saved = clone.saved
      /\ d.seen = clone.seen
  <2>1. Hydrated(d, package)
    BY <1>1, HydrateHas
  <2> QED  BY <2>1 DEF Hydrated
<1>3. UniqueIn(d.rows)
  BY <1>1, <1>2, HydratedUnique
<1>4. LiveRows(clone.rows) \subseteq LiveRows(d.rows)
  <2>1. \A x \in Ids : clone.rows[x] # None => d.rows[x] = clone.rows[x]
    BY <1>2 DEF Put
  <2> QED  BY <2>1 DEF LiveRows
<1>5. ASSUME d.source # None, d.dirty = FALSE
      PROVE  /\ d.base # None /\ d.base \subseteq LiveRows(d.rows)
             /\ d.base = LiveRows(d.rows) => Following(d)
  <2>1. /\ clone.base # None /\ clone.base \subseteq LiveRows(clone.rows)
        /\ clone.base = LiveRows(clone.rows) => Following(clone)
    BY <1>1, <1>2, <1>5 DEF CloneHolds
  <2>2. ASSUME d.base = LiveRows(d.rows) PROVE Following(d)
    <3>1. clone.base = LiveRows(clone.rows) /\ LiveRows(d.rows) = LiveRows(clone.rows)
      <4>1. clone.base = LiveRows(d.rows)
        BY <1>2, <2>2
      <4> QED  BY <1>4, <2>1, <4>1
    <3>2. Put(package) = {}
      <4> SUFFICES ASSUME NEW x \in Put(package) PROVE FALSE
        OBVIOUS
      <4>1. x \in Ids /\ package.rows[x] # None /\ HolderIn(clone.rows, package.rows[x]) = {}
        BY DEF Put
      <4>2. package.rows[x] \in LiveRows(d.rows)
        BY <1>2, <4>1 DEF LiveRows
      <4>3. PICK y \in Ids : clone.rows[y] = package.rows[x]
        <5>1. package.rows[x] \in LiveRows(clone.rows)
          BY <3>1, <4>2
        <5> QED  BY <5>1 DEF LiveRows
      <4> QED  BY <4>1, <4>3 DEF HolderIn
    <3>3. d.rows = clone.rows
      <4>1. \A x \in Ids : d.rows[x] = clone.rows[x]
        BY <1>2, <3>2
      <4>2. d.rows \in [Ids -> Row \cup {None}] /\ clone.rows \in [Ids -> Row \cup {None}]
        BY <1>1 DEF Clone, Rows
      <4> QED  BY <4>1, <4>2
    <3>4. Following(clone)
      BY <2>1, <3>1
    <3>5. \A p : Shows(d, p) <=> Shows(clone, p)
      BY <1>2, <3>3 DEF Shows
    <3>6. \A s : Rereads(d, s) <=> Rereads(clone, s)
      BY <1>2 DEF Rereads
    <3>7. clone.saved # None => \A s \in 1..End : ~Rereads(clone, s)
      BY <3>4 DEF Following
    <3>8. \A x \in Ids : /\ d.tombs[x] # None => d.tombs[x].seq <= d.seen
                         /\ d.wms[x] # None => d.wms[x].seq <= d.seen
      BY <1>2, <3>4 DEF Following
    <3>9. /\ d.source \in 0..meta.hist /\ d.seen \in 0..End
          /\ \E p \in {0, Epoch(d.source)} : Shows(d, p)
          /\ d.saved # None => d.saved.hist = d.source /\ d.saved.seq <= d.seen
          /\ d.saved = None => d.source < meta.hist \/ meta.trimmed > 0
      BY <1>2, <3>4, <3>5 DEF Following
    <3> QED  BY <1>2, <3>6, <3>7, <3>8, <3>9 DEF Following
  <2> QED  BY <1>2, <1>4, <2>1, <2>2
<1>6. \A x \in Ids : /\ clone.tombs[x] = None => d.tombs[x] = None
                     /\ clone.wms[x] = None => d.wms[x] = None
  BY <1>2
<1> QED  BY <1>1, <1>2, <1>3, <1>5, <1>6 DEF CloneHolds

-----------------------------------------------------------------------------
(* A step keeps what is known of source, clone, packages and run.          *)

LEMMA ReplaySteps ==
  ASSUME Undisturbed, PackagesInv, [ReplayNext]_vars
  PROVE  \/ /\ SourceStep /\ UNCHANGED <<clone, run>>
            /\ run = None \/ LocalWrite
         \/ UNCHANGED <<storeVars, clone, run>>
         \/ /\ UNCHANGED <<storeVars, clone>>
            /\ \E b \in Budgets : Resume(b) \/ (AnyCursor /\ \E c \in Issued : Begin(c, b))
         \/ UNCHANGED <<storeVars, clone>> /\ ScanPage
         \/ UNCHANGED storeVars /\ ApplyPage
         \/ UNCHANGED <<storeVars, clone>> /\ run' = None
         \/ /\ UNCHANGED <<storeVars, run>> /\ run = None
            /\ \/ \E package \in packages : Hydrate(package)
               \/ \E x \in Ids, r \in NewRow \cup {None} : CloneWrite(x, r)
<1>1. CASE SourceStep
  BY <1>1 DEF SourceStep, Undisturbed
<1>2. CASE ReplayStep
  <2>1. ASSUME NEW b \in Budgets, NEW c, Begin(c, b) PROVE UNCHANGED <<storeVars, clone>>
    BY <2>1 DEF Begin
  <2>2. ASSUME NEW b \in Budgets, Resume(b) PROVE UNCHANGED <<storeVars, clone>>
    BY <2>1, <2>2 DEF Resume
  <2>3. ScanPage => UNCHANGED <<storeVars, clone>>
    BY DEF ScanPage
  <2>4. ApplyPage => UNCHANGED storeVars
    BY DEF ApplyPage
  <2> QED  BY <1>2, <2>1, <2>2, <2>3, <2>4 DEF ReplayStep
<1>3. CASE Crash \/ UNCHANGED vars
  BY <1>3 DEF Crash, vars
<1>4. CASE CloneStep
  <2>1. SnapshotRows \/ SnapshotCursor => UNCHANGED <<storeVars, clone, run>>
    BY DEF SnapshotRows, SnapshotCursor
  <2>2. ASSUME NEW package \in packages, Hydrate(package)
        PROVE  UNCHANGED <<storeVars, run>> /\ run = None
    BY <2>2 DEF Hydrate
  <2>3. ASSUME NEW x \in Ids, NEW r \in NewRow \cup {None}, CloneWrite(x, r)
        PROVE  UNCHANGED <<storeVars, run>> /\ run = None
    BY <2>3 DEF CloneWrite, Undisturbed
  <2> QED  BY <1>4, <2>1, <2>2, <2>3 DEF CloneStep
<1> QED  BY <1>1, <1>2, <1>3, <1>4 DEF ReplayNext

LEMMA HydrateSound ==
  ASSUME SourceInv, ReplayTypeOK, CloneInv, PackagesInv, Undisturbed, ~Rebases,
         NEW package \in packages, Hydrate(package), NEW d \in Clone, d = clone'
  PROVE  CloneHolds(d)
<1>1. package \in Package /\ PackageSound(package)
  BY DEF ReplayTypeOK, PackagesInv
<1>2. AnyCursor = FALSE
  BY DEF PackagesInv, Undisturbed
<1>3. CASE Blank
  <2>1. clone.source = None
    BY <1>3 DEF Rebases
  <2> QED  BY <1>1, <1>2, <1>3, <2>1, BasedSound
<1>4. CASE ~Blank
  BY <1>1, <1>2, <1>4, LoadedSound
<1> QED  BY <1>3, <1>4

LEMMA CloneInvStep ==
  ASSUME SourceInv, ReplayTypeOK, ReplayTypeOK', Undisturbed, PackagesInv, CloneInv,
         RunInv, [ReplayNext]_vars, [~Rebases]_vars
  PROVE  CloneInv'
<1>1. Progress
  BY SourceSteps, Progresses
<1>2. PICK d \in Clone : d = clone'
  BY DEF ReplayTypeOK
<1>3. CloneHolds(d)
  <2>1. CASE clone' = clone
    BY <1>2, <2>1, CloneNow
  <2>2. CASE ApplyPage /\ clone' # clone
    BY <1>2, <2>2, CommitSound
  <2>3. CASE clone' # clone /\ \E package \in packages : Hydrate(package)
    <3>1. ~Rebases
      BY <2>3 DEF vars
    <3> QED  BY <1>2, <2>3, <3>1, HydrateSound
  <2>4. CASE \E x \in Ids, r \in NewRow \cup {None} : CloneWrite(x, r)
    BY <1>2, <2>4, WriteSound
  <2> QED  BY <2>1, <2>2, <2>3, <2>4, ReplaySteps
<1>4. CloneHolds(d)'
  BY <1>1, <1>3, CloneHoldsStays
<1> QED  BY <1>2, <1>4 DEF CloneInv

LEMMA RunInvStep ==
  ASSUME SourceInv, SourceInv', ReplayTypeOK, Undisturbed, PackagesInv, CloneInv, RunInv,
         [ReplayNext]_vars
  PROVE  RunInv'
<1> SUFFICES ASSUME NEW q \in Run, q = run' PROVE RunHolds(q)'
  BY DEF RunInv
<1>1. q # None
  BY DEF ReplayAssumption
<1>2. ASSUME RunHolds(q), LocalWrite \/ UNCHANGED storeVars, clone' = clone
      PROVE  RunHolds(q)'
  BY <1>2, WriteGoesOn, RunHoldsStays
<1>3. CASE run' = run /\ (LocalWrite \/ UNCHANGED storeVars) /\ clone' = clone
  BY <1>2, <1>3 DEF RunInv
<1>4. CASE UNCHANGED <<storeVars, clone>> /\ \E b \in Budgets :
             Resume(b) \/ (AnyCursor /\ \E c \in Issued : Begin(c, b))
  <2>1. PICK b \in Budgets : Resume(b) \/ (AnyCursor /\ \E c \in Issued : Begin(c, b))
    BY <1>4
  <2>2. RunHolds(q)
    BY <2>1, BeginSound DEF Undisturbed
  <2> QED  BY <1>2, <1>4, <2>2
<1>5. CASE UNCHANGED <<storeVars, clone>> /\ ScanPage
  BY <1>2, <1>5, ScanSound
<1>6. CASE UNCHANGED storeVars /\ ApplyPage
  BY <1>2, <1>6, ApplySound
<1> QED  BY <1>1, <1>3, <1>4, <1>5, <1>6, ReplaySteps

LEMMA ReplayInvStep ==
  ASSUME Undisturbed, ReplayTypeOK, ReplayInv, [ReplayNext]_vars, [~Rebases]_vars
  PROVE  ReplayTypeOK' /\ ReplayInv'
<1>1. SourceInv /\ PackagesInv /\ CloneInv /\ RunInv
  BY DEF ReplayInv
<1>2. SourceInv' /\ ReplayTypeOK'
  BY <1>1, SourceInvAlways, ReplayTypeStep
<1>3. PackagesInv'
  BY <1>1, <1>2, PackagesStep
<1>4. CloneInv'
  BY <1>1, <1>2, CloneInvStep
<1>5. RunInv'
  BY <1>1, <1>2, RunInvStep
<1> QED  BY <1>2, <1>3, <1>4, <1>5 DEF ReplayInv

LEMMA ReplayInvInit ==
  ASSUME Undisturbed, ReplayInit PROVE ReplayTypeOK /\ ReplayInv
<1>1. SourceInv /\ ReplayTypeOK
  BY SourceInvInit, ReplayTypeInit DEF ReplayInit
<1>2. PackagesInv
  BY DEF ReplayInit, PackagesInv
<1>3. RunInv
  BY DEF ReplayInit, RunInv, ReplayAssumption
<1>4. PICK rs \in [Ids -> Preloaded \cup {None}] :
        /\ \A x \in Ids : rs[x] # None => HolderIn(rs, rs[x]) = {x}
        /\ clone.rows = rs /\ clone.bound = SharedBase /\ clone.source = None
        /\ clone.base = None /\ clone.saved = (IF SharedBase
                             THEN [At(0) EXCEPT !.hist = LocalHist] ELSE None)
        /\ clone.tombs = [x \in Ids |-> None] /\ clone.wms = [x \in Ids |-> None]
        /\ clone.events = FALSE /\ clone.dirty = FALSE /\ clone.seen = 0
  BY DEF ReplayInit
<1>5. UniqueIn(rs)
  <2> SUFFICES ASSUME NEW x \in Ids, NEW y \in Ids, rs[x] # None, rs[y] # None,
                      rs[x].ns = rs[y].ns, rs[x].hash = rs[y].hash
               PROVE  x = y
    BY DEF UniqueIn
  <2>1. y \in HolderIn(rs, rs[x])
    BY DEF HolderIn
  <2> QED  BY <1>4, <2>1
<1>6. CloneHolds(clone)
  BY <1>4, <1>5 DEF CloneHolds, Undisturbed
<1> QED  BY <1>1, <1>2, <1>3, <1>6 DEF ReplayInv, CloneInv

-----------------------------------------------------------------------------
(* What a clone nobody has written to shows.                               *)

LEMMA CleanFollows ==
  ASSUME ReplayTypeOK, CloneInv, ~Diverged
  PROVE  /\ clone.source = None => clone.seen = 0 /\ clone.saved = None
         /\ clone.source # None => Following(clone)
<1>1. CloneHolds(clone) /\ clone.dirty \in BOOLEAN
  BY CloneNow DEF ReplayTypeOK, Clone
<1>2. clone.dirty = FALSE /\ (clone.base # None => clone.base = LiveRows(clone.rows))
  BY <1>1 DEF Diverged
<1> QED  BY <1>1, <1>2 DEF CloneHolds

LEMMA ShowsSource ==
  ASSUME SourceInv, ReplayTypeOK, CloneInv PROVE CloneIsSourceState
<1> SUFFICES ASSUME clone.saved # None, ~Diverged, clone.source = clone.saved.hist
             PROVE  \E q \in clone.saved.seq..End, p \in {0, Epoch(clone.source)} :
                      SameRecords(clone.rows, State(p, q))
  BY DEF CloneIsSourceState
<1>1. Following(clone)
  BY CleanFollows
<1>2. /\ clone.saved \in Cursor /\ clone.seen \in 0..End /\ End \in Nat
      /\ clone.saved.seq <= clone.seen
  BY <1>1, LaterIs DEF ReplayTypeOK, Clone, Following, SourceInv, IInv
<1>3. PICK p \in {0, Epoch(clone.source)} : SameRecords(clone.rows, State(p, clone.seen))
  BY <1>1 DEF Following, Shows
<1>4. clone.seen \in clone.saved.seq..End
  BY <1>2 DEF Cursor
<1> QED  BY <1>3, <1>4

\* A deleted record is not in any state of the source after its deletion.
LEMMA StaysDeleted ==
  ASSUME SourceInv, NEW p \in Nat, NEW q \in 0..End, NEW x \in Ids, NEW s \in 1..q,
         log[s].type = "deleted", log[s].id = x
  PROVE  State(p, q)[x] = None
<1>1. End \in Nat /\ s \in 1..End /\ Touches(s, x)
  BY LaterIs DEF SourceInv, IInv, Touches, Reconstructing
<1>2. ASSUME NEW t \in (p + 1)..q, Tells(t, x) PROVE t <= s
  <2>1. t \in 1..End /\ Touches(t, x)
    BY <1>1, <1>2 DEF Tells
  <2>2. ~(t \in (s + 1)..End)
    BY <1>1, <1>2, <2>1 DEF SourceInv, DeletedForGood, Tells
  <2> QED  BY <1>1, <2>1, <2>2
<1>3. CASE s \in (p + 1)..q /\ Tells(s, x)
  <2>1. State(p, q)[x] = After(log[s])
    BY <1>2, <1>3, StateAfter
  <2> QED  BY <2>1 DEF After
<1>4. CASE ~(s \in (p + 1)..q /\ Tells(s, x))
  <2>1. ASSUME NEW t \in (p + 1)..q, Tells(t, x) PROVE FALSE
    <3>1. t <= s /\ t \in 1..End /\ Touches(t, x) /\ InScope(t)
      BY <1>1, <1>2, <2>1 DEF Tells
    <3>2. s \in (p + 1)..q
      BY <1>1, <3>1
    <3>3. NsAt(s) = NsAt(t)
      BY <1>1, <3>1 DEF SourceInv, OneNamespace
    <3> QED  BY <1>1, <1>4, <3>1, <3>2, <3>3 DEF Tells, InScope
  <2> QED  BY <2>1, StateNone
<1> QED  BY <1>3, <1>4

LEMMA DeletedAway ==
  ASSUME SourceInv, ReplayTypeOK, CloneInv PROVE NoResurrection
<1> SUFFICES ASSUME ~Diverged, NEW x \in Ids, NEW s \in 1..clone.seen,
                    log[s].type = "deleted", log[s].id = x
             PROVE  clone.rows[x] = None
  BY DEF NoResurrection
<1>1. CASE clone.source = None
  BY <1>1, CleanFollows
<1>2. CASE clone.source # None
  <2>1. Following(clone)
    BY <1>2, CleanFollows
  <2>2. clone.seen \in 0..End /\ clone.source \in 0..meta.hist
    BY <2>1 DEF Following
  <2>3. PICK p \in {0, Epoch(clone.source)} : SameRecords(clone.rows, State(p, clone.seen))
    BY <2>1 DEF Following, Shows
  <2>4. p \in Nat
    <3>1. clone.source \in Nat /\ End \in Nat
      BY <2>2, LogTyped DEF SourceInv, IInv, TypeOK, Meta
    <3>2. Epoch(clone.source) \in 0..End
      BY <3>1, EpochIs
    <3> QED  BY <3>1, <3>2
  <2>5. State(p, clone.seen)[x] = None
    BY <2>2, <2>4, StaysDeleted
  <2> QED  BY <2>3, <2>5 DEF SameRecords
<1> QED  BY <1>1, <1>2

-----------------------------------------------------------------------------
(* Behaviours.                                                             *)

\* Replay and hydration, page by page, with budgets, crashes and resumed runs
\* and whatever the source does between runs, leave a clone nobody has written
\* to in a state the source went through.
THEOREM CloneShowsSource ==
  ASSUME Undisturbed PROVE OneBaseSpec => []CloneIsSourceState
<1>1. ReplayInit => ReplayTypeOK /\ ReplayInv
  BY ReplayInvInit
<1>2. ReplayTypeOK /\ ReplayInv /\ [ReplayNext /\ ~Rebases]_vars
        => ReplayTypeOK' /\ ReplayInv'
  BY ReplayInvStep
<1>3. ReplayTypeOK /\ ReplayInv => CloneIsSourceState
  BY ShowsSource DEF ReplayInv
<1> QED  BY <1>1, <1>2, <1>3, PTL DEF OneBaseSpec

\* What the clone has seen deleted, no later run and no package brings back.
THEOREM DeletedStaysDeleted ==
  ASSUME Undisturbed PROVE OneBaseSpec => []NoResurrection
<1>1. ReplayInit => ReplayTypeOK /\ ReplayInv
  BY ReplayInvInit
<1>2. ReplayTypeOK /\ ReplayInv /\ [ReplayNext /\ ~Rebases]_vars
        => ReplayTypeOK' /\ ReplayInv'
  BY ReplayInvStep
<1>3. ReplayTypeOK /\ ReplayInv => NoResurrection
  BY DeletedAway DEF ReplayInv
<1> QED  BY <1>1, <1>2, <1>3, PTL DEF OneBaseSpec

\* Both hold of every behaviour where clones are made by replay alone.
THEOREM ReplayAloneIsExact ==
  ASSUME Undisturbed, MaxPackages = 0
  PROVE  ReplaySpec => [](CloneIsSourceState /\ NoResurrection)
<1>1. ReplayInit => ReplayTypeOK /\ ReplayInv
  BY ReplayInvInit
<1>2. ReplayInv => ~Rebases
  BY DEF ReplayInv, PackagesInv, Rebases
<1>3. ReplayTypeOK /\ ReplayInv /\ [ReplayNext]_vars => ReplayTypeOK' /\ ReplayInv'
  BY <1>2, ReplayInvStep
<1>4. ReplayTypeOK /\ ReplayInv => CloneIsSourceState /\ NoResurrection
  BY ShowsSource, DeletedAway DEF ReplayInv
<1> QED  BY <1>1, <1>3, <1>4, PTL DEF ReplaySpec

-----------------------------------------------------------------------------
(* The states the source went through.                                     *)

Tellings(f) ==
  /\ f[0] = [x \in Ids |-> None]
  /\ \A s \in 1..End : f[s] = Told(f[s - 1], s)
  /\ SourceStates = [i \in 1..(End + 1) |-> f[i - 1]]

LEMMA ToldIs ==
  ASSUME End \in Nat PROVE \E f : Tellings(f)
<1> DEFINE Next1(f, s) == IF s = 0 THEN [x \in Ids |-> None] ELSE Told(f[s - 1], s)
           S == {n \in 0..End : \E f : f = [s \in 0..n |-> Next1(f, s)]}
           upto == CHOOSE f : f = [s \in 0..End |-> Next1(f, s)]
<1>1. 0 \in S
  <2> DEFINE f == [s \in 0..0 |-> [x \in Ids |-> None]]
  <2>1. f = [s \in 0..0 |-> Next1(f, s)]
    OBVIOUS
  <2>2. 0 \in 0..End
    OBVIOUS
  <2> HIDE DEF f
  <2> QED  BY <2>1, <2>2
<1>2. ASSUME NEW n \in 1..End, n - 1 \in S PROVE n \in S
  <2>1. PICK f : f = [s \in 0..(n - 1) |-> Next1(f, s)]
    BY <1>2
  <2> DEFINE h == [s \in 0..n |-> IF s = n THEN Next1(f, n) ELSE f[s]]
  <2>2. \A s \in 0..(n - 1) : f[s] = Next1(f, s)
    BY <2>1
  <2>3. \A s \in 0..n : h[s] = IF s = n THEN Next1(f, n) ELSE f[s]
    OBVIOUS
  <2>4. ASSUME NEW s \in 0..n PROVE h[s] = Next1(h, s)
    <3>1. CASE s = 0
      BY <2>2, <2>3, <3>1
    <3>2. CASE s # 0
      <4>1. s - 1 \in 0..n /\ s - 1 # n /\ s - 1 \in 0..(n - 1)
        BY <3>2
      <4>2. h[s - 1] = f[s - 1]
        BY <2>3, <4>1
      <4>3. h[s] = Next1(f, s)
        <5>1. CASE s = n
          BY <2>3, <5>1
        <5>2. CASE s # n
          <6>1. s \in 0..(n - 1)
            BY <5>2
          <6> QED  BY <2>2, <2>3, <5>2, <6>1
        <5> QED  BY <5>1, <5>2
      <4> HIDE DEF h
      <4> QED  BY <3>2, <4>2, <4>3
    <3> QED  BY <3>1, <3>2
  <2>5. h = [s \in 0..n |-> Next1(h, s)]
    <3>1. h = [s \in 0..n |-> h[s]]
      OBVIOUS
    <3> HIDE DEF h
    <3> QED  BY <2>4, <3>1
  <2>6. n \in 0..End
    OBVIOUS
  <2> HIDE DEF h
  <2> QED  BY <2>5, <2>6
<1>3. End \in S
  <2> HIDE DEF S
  <2>1. 0..End \subseteq S
    BY <1>1, <1>2, UpTo
  <2> QED  BY <2>1
<1>4. upto = [s \in 0..End |-> Next1(upto, s)]
  BY <1>3
<1>5. SourceStates = [i \in 1..(End + 1) |-> upto[i - 1]]
  BY DEF SourceStates
<1>6. \A s \in 0..End : upto[s] = Next1(upto, s)
  <2> HIDE DEF upto
  <2> QED  BY <1>4
<1>7. upto[0] = [x \in Ids |-> None]
  <2> HIDE DEF upto
  <2>1. 0 \in 0..End
    OBVIOUS
  <2> QED  BY <1>6, <2>1
<1>8. \A s \in 1..End : upto[s] = Told(upto[s - 1], s)
  <2> HIDE DEF upto
  <2>1. \A s \in 1..End : s \in 0..End /\ s # 0
    OBVIOUS
  <2> QED  BY <1>6, <2>1
<1> HIDE DEF upto
<1> QED  BY <1>5, <1>7, <1>8 DEF Tellings

\* An event tells of a record what the state after it shows.
LEMMA ToldOne ==
  ASSUME SourceInv, NEW p \in Nat, p < 1, NEW s \in 1..End, NEW x \in Ids,
         NEW old, old = Facts(State(p, s - 1))
  PROVE  Told(old, s)[x] = Facts(State(p, s))[x]
<1>1. /\ s \in (p + 1)..s /\ s - 1 \in Nat /\ s \in Nat /\ s - 1 <= s
      /\ \A t \in (p + 1)..s : t <= s
      /\ \A t \in (p + 1)..s : s - 1 < t => t = s
  OBVIOUS
<1>2. old = [y \in Ids |-> IF State(p, s - 1)[y] = None THEN None
                           ELSE Fingerprint(State(p, s - 1)[y])]
  BY DEF Facts
<1>3. Facts(State(p, s))[x] = IF State(p, s)[x] = None THEN None
                              ELSE Fingerprint(State(p, s)[x])
  BY DEF Facts
<1>4. CASE Tells(s, x)
  <2>1. State(p, s)[x] = After(log[s])
    BY <1>1, <1>4, StateAfter
  <2>2. log[s].type # "observed" /\ log[s].type \in Reconstructing /\ InScope(s)
        /\ log[s].id = x
    BY <1>4 DEF Tells, Touches, Reconstructing
  <2>3. log[s].row # None
    BY <2>2, Reconstructs
  <2>4. Told(old, s)[x] = IF log[s].type = "deleted" THEN None
                          ELSE Fingerprint(log[s].row)
    BY <1>2, <2>2 DEF Told
  <2> QED  BY <1>3, <2>1, <2>3, <2>4 DEF After
<1>5. CASE ~Tells(s, x)
  <2>1. State(p, s)[x] = State(p, s - 1)[x]
    BY <1>1, <1>5, StateSame
  <2>2. Told(old, s)[x] = old[x]
    BY <1>2, <1>5 DEF Told, Tells, Touches
  <2> QED  BY <1>2, <1>3, <2>1, <2>2
<1> QED  BY <1>4, <1>5

StatesExact == SourceStates = [i \in 1..(End + 1) |-> Facts(State(0, i - 1))]

LEMMA StatesAreExact == SourceInv => StatesExact
<1> SUFFICES ASSUME SourceInv PROVE StatesExact
  OBVIOUS
<1>1. End \in Nat
  BY LogTyped DEF SourceInv, IInv
<1>2. PICK f : Tellings(f)
  BY <1>1, ToldIs
<1>3. PICK p \in Nat : p = 0
  OBVIOUS
<1> DEFINE S == {s \in 0..End : f[s] = Facts(State(p, s))}
<1>4. 0 \in S
  <2>0. PICK q \in Nat : q = 0
    OBVIOUS
  <2>1. \A s \in (p + 1)..q, x \in Ids : ~Tells(s, x)
    BY <1>3, <2>0
  <2>2. \A x \in Ids : State(p, q)[x] = None
    BY <2>1, StateNone
  <2>3. Facts(State(p, q)) = [x \in Ids |-> None]
    BY <2>2 DEF Facts
  <2> QED  BY <1>1, <1>2, <2>0, <2>3 DEF Tellings
<1>5. ASSUME NEW s \in 1..End, s - 1 \in S PROVE s \in S
  <2>1. PICK old : old = Facts(State(p, s - 1))
    OBVIOUS
  <2>2. f[s] = Told(old, s)
    BY <1>2, <1>5, <2>1 DEF Tellings
  <2>3. \A x \in Ids : Told(old, s)[x] = Facts(State(p, s))[x]
    <3>1. p < 1
      BY <1>3
    <3> QED  BY <2>1, <3>1, ToldOne
  <2>4. Told(old, s) = [x \in Ids |-> Told(old, s)[x]]
    BY <2>1 DEF Told, Facts
  <2>5. Facts(State(p, s)) = [x \in Ids |-> Facts(State(p, s))[x]]
    BY DEF Facts
  <2>6. Told(old, s) = Facts(State(p, s))
    BY <2>3, <2>4, <2>5
  <2> QED  BY <1>1, <2>2, <2>6
<1>6. \A s \in 0..End : f[s] = Facts(State(p, s))
  <2> HIDE DEF S
  <2>1. 0..End \subseteq S
    BY <1>1, <1>4, <1>5, UpTo
  <2> QED  BY <2>1 DEF S
<1>7. \A i \in 1..(End + 1) : f[i - 1] = Facts(State(p, i - 1))
  BY <1>1, <1>6
<1> QED  BY <1>2, <1>3, <1>7 DEF Tellings, StatesExact

LEMMA StatesExactNext == SourceInv' => StatesExact'
BY StatesAreExact, PTL

\* The source never revises a state it went through.
Unrevised ==
  /\ Len(SourceStates) = End + 1 /\ Len(SourceStates') = End' + 1
  /\ SubSeq(SourceStates', 1, Len(SourceStates)) = SourceStates
  /\ End' = End => SourceStates' = SourceStates

LEMMA StatesStay ==
  ASSUME SourceInv, SourceInv', Progress PROVE Unrevised
<1>1. End \in Nat /\ End' \in Nat /\ End <= End'
  BY PastStays
<1>2. PICK p \in Nat : p = 0
  OBVIOUS
<1>3. /\ SourceStates = [i \in 1..(End + 1) |-> Facts(State(p, i - 1))]
      /\ SourceStates' = [i \in 1..(End' + 1) |-> Facts(State(p, i - 1)')]
  <2>1. StatesExact /\ StatesExact'
    BY StatesAreExact, StatesExactNext
  <2>2. SourceStates' = [i \in 1..(End' + 1) |-> Facts(State(p, i - 1))']
    BY <1>2, <2>1 DEF StatesExact
  <2>3. \A i \in 1..(End' + 1) : Facts(State(p, i - 1))' = Facts(State(p, i - 1)')
    BY DEF Facts
  <2> QED  BY <1>2, <2>1, <2>2, <2>3 DEF StatesExact
<1>4. \A q \in 0..End : State(p, q)' = State(p, q)
  BY StateStays
<1>5. \A i \in 1..(End + 1) : SourceStates'[i] = SourceStates[i]
  <2>1. \A i \in 1..(End + 1) : i - 1 \in 0..End /\ i \in 1..(End' + 1)
    BY <1>1
  <2>2. \A i \in 1..(End + 1) : State(p, i - 1)' = State(p, i - 1)
    BY <1>4, <2>1
  <2> QED  BY <1>3, <2>1, <2>2
<1>6. PICK a : a = SourceStates
  OBVIOUS
<1>7. PICK b : b = SourceStates'
  OBVIOUS
<1>8. /\ a = [i \in 1..(End + 1) |-> a[i]] /\ b = [i \in 1..(End' + 1) |-> b[i]]
      /\ \A i \in 1..(End + 1) : b[i] = a[i]
  BY <1>3, <1>5, <1>6, <1>7
<1>9. Len(a) = End + 1 /\ Len(b) = End' + 1
  BY <1>1, <1>8
<1>10. SubSeq(b, 1, Len(a)) = a
  <2>1. SubSeq(b, 1, Len(a)) = [i \in 1..(End + 1) |-> b[i]]
    BY <1>1, <1>8, <1>9
  <2> QED  BY <1>8, <2>1
<1>11. End' = End => b = a
  BY <1>8
<1> QED  BY <1>6, <1>7, <1>9, <1>10, <1>11 DEF Unrevised

\* With one history, a clone that follows shows the state it has come to.
LEMMA ShowsItsPlace ==
  ASSUME SourceInv, meta.hist = 0, NEW c \in Clone, Following(c)
  PROVE  /\ c.seen \in 0..End /\ Len(SourceStates) = End + 1
         /\ Facts(c.rows) = SourceStates[c.seen + 1]
<1>1. End \in Nat /\ c.seen \in 0..End /\ c.source = 0
  BY LogTyped DEF Following, SourceInv, IInv
<1>2. PICK h \in Nat : h = 0
  OBVIOUS
<1>3. Epoch(h) = 0
  <2>1. PICK e : e = Epoch(h)
    OBVIOUS
  <2>2. e \in 0..End /\ \A s \in 1..End : log[s].hist < h <=> s <= e
    BY <2>1, EpochIs
  <2>3. \A s \in 1..End : log[s].hist \in Nat
    BY LogTyped DEF SourceInv, IInv
  <2>4. e >= 1 => 1 \in 1..End /\ log[1].hist < h
    BY <1>1, <2>2
  <2>5. ~(e >= 1)
    BY <1>1, <1>2, <2>3, <2>4, <2>2
  <2> QED  BY <2>1, <2>2, <2>5
<1>4. PICK p \in {0, Epoch(c.source)} : SameRecords(c.rows, State(p, c.seen))
  BY DEF Following, Shows
<1>5. p = 0
  BY <1>1, <1>2, <1>3, <1>4
<1>6. SameRecords(c.rows, State(0, c.seen))
  BY <1>4, <1>5
<1>7. Facts(c.rows) = Facts(State(0, c.seen))
  BY <1>6 DEF SameRecords, Facts
<1>8. SourceStates = [i \in 1..(End + 1) |-> Facts(State(0, i - 1))]
  BY StatesAreExact DEF StatesExact
<1>9. c.seen + 1 \in 1..(End + 1) /\ c.seen + 1 - 1 = c.seen
  BY <1>1
<1>10. Len(SourceStates) = End + 1
  <2>1. PICK a : a = SourceStates
    OBVIOUS
  <2>2. a = [i \in 1..(End + 1) |-> a[i]]
    BY <1>8, <2>1
  <2>3. Len(a) = End + 1
    BY <1>1, <2>2
  <2> QED  BY <2>1, <2>3
<1> QED  BY <1>1, <1>7, <1>8, <1>9, <1>10

LEMMA OneHistory ==
  ASSUME SourceInv, MaxHist = 0, meta.hist = 0, SourceOp \/ UNCHANGED storeVars
  PROVE  meta'.hist = 0
<1>1. CASE UNCHANGED storeVars
  BY <1>1 DEF storeVars
<1>2. CASE LocalWrite
  BY <1>2, LocalWriteAppends
<1>3. CASE Retention
  BY <1>3, RetentionEffect
<1>4. CASE ReplaceHistory
  BY <1>4 DEF ReplaceHistory
<1> QED  BY <1>1, <1>2, <1>3, <1>4 DEF SourceOp

-----------------------------------------------------------------------------
(* The refinement.                                                         *)

Phase == IF Diverged THEN "gone"
         ELSE IF clone.source = None THEN "apart" ELSE "following"

LEMMA FollowInit == ReplayInit => Promise!Init
<1> SUFFICES ASSUME ReplayInit PROVE Promise!Init
  OBVIOUS
<1>1. SourceInv /\ End \in Nat
  BY SourceInvInit, LogTyped DEF ReplayInit, SourceInv, IInv
<1>2. Len(SourceStates) >= 1
  <2>1. SourceStates = [i \in 1..(End + 1) |-> Facts(State(0, i - 1))]
    BY <1>1, StatesAreExact DEF StatesExact
  <2>2. PICK a : a = SourceStates
    OBVIOUS
  <2>3. a = [i \in 1..(End + 1) |-> a[i]]
    BY <2>1, <2>2
  <2>4. Len(a) = End + 1
    BY <1>1, <2>3
  <2> QED  BY <1>1, <2>2, <2>4
<1>3. clone.seen = 0 /\ clone.source = None /\ clone.dirty = FALSE /\ clone.base = None
  BY DEF ReplayInit
<1> QED  BY <1>2, <1>3 DEF Promise!Init, Diverged

\* What a commit makes of the clone: it follows, and has come no less far.
LEMMA CommitJoins ==
  ASSUME SourceInv, ReplayTypeOK, CloneInv, RunInv, ApplyPage, clone' # clone,
         NEW d \in Clone, d = clone'
  PROVE  /\ Phase # "gone" /\ UNCHANGED storeVars
         /\ d.dirty = FALSE /\ d.base = LiveRows(d.rows)
         /\ d.source # None /\ clone.seen <= d.seen /\ Following(d)
<1>1. /\ run # None /\ RunHolds(run) /\ UNCHANGED storeVars
      /\ d = Commit(TablesBy(run.sim.plan), run)
  BY ApplyPageEnds
<1>2. run \in Run /\ RunBegun(run)
  BY <1>1 DEF ReplayTypeOK, RunHolds
<1>3. RunMade(d, run)
  BY <1>1, <1>2, CommitMade
<1>4. CloneHolds(d) /\ CloneHolds(clone)
  BY CommitSound, CloneNow
<1>5. /\ clone.dirty = FALSE
      /\ clone.source = None => clone.base = None
      /\ clone.source # None => clone.base = LiveRows(clone.rows)
  BY <1>2, <1>4 DEF RunBegun, CloneHolds
<1>6. ~Diverged
  BY <1>5 DEF Diverged
<1>7. /\ d.dirty = FALSE /\ d.base = LiveRows(d.rows) /\ d.source = meta.hist
      /\ d.seen = Larger(clone.seen, run.last)
  BY <1>3 DEF RunMade
<1>8. meta.hist \in Nat /\ clone.seen \in Nat /\ run.last \in Nat
  BY <1>2 DEF SourceInv, IInv, TypeOK, Meta, ReplayTypeOK, Clone, Run
<1>9. d.source # None
  BY <1>7, <1>8 DEF ReplayAssumption
<1>10. Following(d)
  BY <1>4, <1>7, <1>9 DEF CloneHolds
<1> QED  BY <1>1, <1>6, <1>7, <1>8, <1>9, <1>10 DEF Phase, Larger

LEMMA FollowCommit ==
  ASSUME SourceInv, SourceInv', ReplayTypeOK, ReplayTypeOK', CloneInv, RunInv,
         meta.hist = 0, ApplyPage, clone' # clone
  PROVE  [Promise!Next]_Promise!followerVars
<1>1. PICK d \in Clone : d = clone'
  BY DEF ReplayTypeOK
<1>2. /\ Phase # "gone" /\ UNCHANGED storeVars
      /\ d.dirty = FALSE /\ d.base = LiveRows(d.rows)
      /\ d.source # None /\ clone.seen <= d.seen /\ Following(d)
  BY <1>1, CommitJoins
<1>3. /\ d.seen \in 0..End /\ Len(SourceStates) = End + 1
      /\ Facts(d.rows) = SourceStates[d.seen + 1]
  BY <1>2, ShowsItsPlace
<1>4. UNCHANGED SourceStates
  <2>1. Progress /\ End' = End
    BY <1>2, Progresses DEF storeVars, End
  <2>2. Unrevised
    BY <2>1, StatesStay
  <2> QED  BY <2>1, <2>2 DEF Unrevised
<1>5. Phase' = "following"
  BY <1>1, <1>2 DEF Phase, Diverged
<1>6. Facts(clone.rows)' = SourceStates[clone'.seen + 1]
  BY <1>1, <1>3 DEF Facts
<1>7. End \in Nat /\ clone.seen \in Nat
  BY LogTyped DEF SourceInv, IInv, ReplayTypeOK, Clone
<1>8. clone'.seen >= clone.seen /\ clone'.seen < Len(SourceStates)
  BY <1>1, <1>2, <1>3, <1>7
<1>9. CASE <<clone'.seen, Phase'>> # <<clone.seen, Phase>>
  BY <1>2, <1>4, <1>5, <1>6, <1>8, <1>9 DEF Promise!Next, Promise!Advance, Phase
<1>10. CASE clone'.seen = clone.seen /\ Phase' = Phase
  <2>1. ~Diverged /\ clone.source # None
    BY <1>5, <1>10 DEF Phase
  <2>2. Following(clone) /\ clone \in Clone
    BY <2>1, CleanFollows DEF ReplayTypeOK
  <2>3. Facts(clone.rows) = SourceStates[clone.seen + 1]
    BY <2>2, ShowsItsPlace
  <2>4. Facts(clone.rows)' = Facts(clone.rows)
    BY <1>6, <1>10, <2>3
  <2> QED  BY <1>4, <1>10, <2>4 DEF Promise!followerVars, Phase
<1> QED  BY <1>9, <1>10

LEMMA FollowSource ==
  ASSUME SourceInv, SourceInv', SourceOp \/ UNCHANGED storeVars, clone' = clone
  PROVE  [Promise!Next]_Promise!followerVars
<1>1. Unrevised /\ End \in Nat /\ End' \in Nat /\ End <= End'
  BY Progresses, StatesStay, PastStays
<1>2. /\ Facts(clone.rows)' = Facts(clone.rows) /\ clone'.seen = clone.seen
      /\ Phase' = Phase
  BY DEF Facts, Phase, Diverged, LiveRows
<1>3. CASE End' = End
  BY <1>1, <1>2, <1>3 DEF Unrevised, Promise!followerVars, Phase
<1>4. CASE End' # End
  <2>1. /\ Len(SourceStates') > Len(SourceStates)
        /\ SubSeq(SourceStates', 1, Len(SourceStates)) = SourceStates
    BY <1>1, <1>4 DEF Unrevised
  <2> QED  BY <1>2, <2>1 DEF Promise!Next, Promise!Extend, Phase
<1> QED  BY <1>3, <1>4

LEMMA FollowLeaves ==
  ASSUME SourceInv, SourceInv', ReplayTypeOK, NEW x \in Ids, NEW r \in NewRow \cup {None},
         CloneWrite(x, r)
  PROVE  [Promise!Next]_Promise!followerVars
<1>1. UNCHANGED storeVars
  BY DEF CloneWrite
<1>2. UNCHANGED SourceStates
  <2>1. Progress /\ End' = End
    BY <1>1, Progresses DEF storeVars, End
  <2>2. Unrevised
    BY <2>1, StatesStay
  <2> QED  BY <2>1, <2>2 DEF Unrevised
<1>3. clone'.dirty = TRUE /\ clone'.seen = clone.seen
  BY DEF CloneWrite, ReplayTypeOK, Clone
<1>4. Phase' = "gone"
  BY <1>3 DEF Phase, Diverged
<1> QED  BY <1>2, <1>3, <1>4 DEF Promise!Next, Promise!Leave, Phase

LEMMA FollowStep ==
  ASSUME Undisturbed, MaxPackages = 0, meta.hist = 0, ReplayTypeOK, ReplayInv,
         ReplayTypeOK', ReplayInv', [ReplayNext]_vars
  PROVE  [Promise!Next]_Promise!followerVars
<1>1. SourceInv /\ PackagesInv /\ CloneInv /\ RunInv /\ SourceInv' /\ packages = {}
  BY DEF ReplayInv, PackagesInv
<1>2. CASE clone' = clone
  BY <1>1, <1>2, SourceSteps, FollowSource
<1>3. CASE ApplyPage /\ clone' # clone
  BY <1>1, <1>3, FollowCommit
<1>4. CASE \E x \in Ids, r \in NewRow \cup {None} : CloneWrite(x, r)
  BY <1>1, <1>4, FollowLeaves
<1> QED  BY <1>1, <1>2, <1>3, <1>4, ReplaySteps

\* Replay implements Follower (docs/snapshot-v2.md): where clones are made by
\* replay alone and history is never replaced, no interleaving of page reads,
\* budgets, crashes, resumed runs and callers' cursors shows a state the source
\* was not in, or an older one than before.
THEOREM ReplayFollows ==
  ASSUME Undisturbed, MaxPackages = 0, MaxHist = 0 PROVE ReplaySpec => IsFollower
<1> DEFINE Inv == ReplayTypeOK /\ ReplayInv /\ meta.hist = 0
<1>1. ReplayInit => Inv
  <2>1. ReplayInit => Init
    BY DEF ReplayInit
  <2>2. Init => meta.hist = 0
    BY DEF Init
  <2> QED  BY <2>1, <2>2, ReplayInvInit
<1>2. Inv /\ [ReplayNext]_vars => Inv'
  <2> SUFFICES ASSUME Inv, [ReplayNext]_vars PROVE Inv'
    OBVIOUS
  <2>1. ~Rebases
    BY DEF ReplayInv, PackagesInv, Rebases
  <2>2. ReplayTypeOK' /\ ReplayInv'
    BY <2>1, ReplayInvStep
  <2>3. meta'.hist = 0
    BY SourceSteps, OneHistory DEF ReplayInv
  <2> QED  BY <2>2, <2>3
<1>3. Inv /\ Inv' /\ [ReplayNext]_vars => [Promise!Next]_Promise!followerVars
  BY FollowStep
<1>4. ReplayInit => Promise!Init
  BY FollowInit
<1> HIDE DEF Inv
<1> QED  BY <1>1, <1>2, <1>3, <1>4, PTL DEF ReplaySpec, IsFollower, Promise!Spec

-----------------------------------------------------------------------------
(* What an event finds in the log before it.                               *)

\* The last of the events before s about a record.
Precedes(t, s, x) ==
  t \in 1..(s - 1) /\ Touches(t, x) /\ \A u \in (t + 1)..(s - 1) : ~Touches(u, x)
Bears(t, s, x) == Precedes(t, s, x) /\ log[t].type # "deleted"

\* A record is created once, and what is updated or deleted is what the event
\* before left; content that another record has is not written.
Grounded(s) ==
  LET e == log[s]
  IN  /\ e.type = "created" => \A t \in 1..(s - 1) : ~Touches(t, e.id)
      /\ e.type = "updated" => \E t \in 1..(s - 1) :
                                 Bears(t, s, e.id) /\ log[t].row = e.prev
      /\ e.type = "deleted" => \E t \in 1..(s - 1) :
                                 Bears(t, s, e.id) /\ log[t].row = e.row
      /\ e.type # "deleted" =>
           \A y \in Ids, t \in 1..(s - 1) :
             Bears(t, s, y) /\ log[t].row.ns = e.row.ns /\ log[t].row.hash = e.row.hash
               => y = e.id

GroundInv == \A s \in 1..End : log[s].type \in Reconstructing => Grounded(s)

\* The same of an event to be appended, in terms of the rows.
Grounds(e) ==
  e.type \in Reconstructing =>
    /\ e.id \in Ids
    /\ e.type = "created" => \A t \in 1..End : ~Touches(t, e.id)
    /\ e.type = "updated" => Live(e.id) /\ e.prev = rows[e.id]
    /\ e.type = "deleted" => Live(e.id) /\ e.row = rows[e.id]
    /\ e.type # "deleted" => Holders(e.row.ns, e.row.hash) \subseteq {e.id}

LEMMA WriteGrounds ==
  ASSUME SourceInv, LocalWrite PROVE \E e : Writes(e) /\ Grounds(e)
<1>1. TypeOK /\ NewRow \subseteq Row
  BY DEF SourceInv, IInv, NewRow
<1>2. PICK id \in Ids, key \in Keys \cup {NoKey} :
        \/ \E r \in NewRow : AddNew(id, r, key) \/ AddDuplicate(id, r, key)
        \/ \E r \in Row, signal \in BOOLEAN : Update(id, r, key, signal)
        \/ Delete(id, key)
  BY DEF LocalWrite
<1>3. ASSUME NEW r \in Row, AddNew(id, r, key)
      PROVE  Grounds(Ev("created", id, r, None, key))
  BY <1>3 DEF AddNew, Fresh, Grounds, Ev, Touches
<1>4. ASSUME NEW r \in Row PROVE Grounds(Ev("observed", id, rows[id], None, key))
  BY DEF Grounds, Ev, Reconstructing
<1>5. ASSUME NEW r \in Row, NEW signal \in BOOLEAN, Update(id, r, key, signal)
      PROVE  Grounds(Ev("updated", id, r, rows[id], key))
  BY <1>5 DEF Update, Grounds, Ev
<1>6. ASSUME Delete(id, key)
      PROVE  Grounds(Ev("deleted", id, rows[id], None, key))
  BY <1>6 DEF Delete, Grounds, Ev
<1>7. ASSUME NEW r \in NewRow, AddNew(id, r, key) \/ AddDuplicate(id, r, key)
      PROVE  \E e : Writes(e) /\ Grounds(e)
  <2>1. r \in Row
    BY <1>1
  <2>2. CASE AddNew(id, r, key)
    BY <1>1, <1>3, <2>1, <2>2, WritesAddNew
  <2>3. CASE AddDuplicate(id, r, key)
    BY <1>1, <1>4, <2>1, <2>3, WritesAddDuplicate
  <2> QED  BY <1>7, <2>2, <2>3
<1>8. ASSUME NEW r \in Row, NEW signal \in BOOLEAN, Update(id, r, key, signal)
      PROVE  \E e : Writes(e) /\ Grounds(e)
  BY <1>1, <1>5, <1>8, WritesUpdate
<1>9. ASSUME Delete(id, key) PROVE \E e : Writes(e) /\ Grounds(e)
  BY <1>1, <1>6, <1>9, WritesDelete
<1> QED  BY <1>2, <1>7, <1>8, <1>9

\* The rows are what the last event about each of them left.
LEMMA RowIsLast ==
  ASSUME SourceInv, NEW x \in Ids
  PROVE  /\ Live(x) => \E t \in 1..End : IsLast(t, x) /\ log[t].type # "deleted"
                                          /\ log[t].row = rows[x]
         /\ \A t \in 1..End : IsLast(t, x) /\ log[t].type # "deleted"
                                => Live(x) /\ log[t].row = rows[x]
<1>1. RowExplained(x) /\ x \notin imported /\ TypeOK /\ End \in Nat
  BY InvByRecord, LogTyped DEF SourceInv, Parts, RecordSound
<1>2. CASE ~Live(x) /\ \A s \in 1..End : ~Touches(s, x)
  BY <1>2 DEF IsLast
<1>3. ASSUME NEW s \in 1..End, IsLast(s, x), rows[x] = After(log[s])
      PROVE  /\ Live(x) => \E t \in 1..End : IsLast(t, x) /\ log[t].type # "deleted"
                                              /\ log[t].row = rows[x]
             /\ \A t \in 1..End : IsLast(t, x) /\ log[t].type # "deleted"
                                    => Live(x) /\ log[t].row = rows[x]
  <2>1. Live(x) => log[s].type # "deleted" /\ log[s].row = rows[x]
    BY <1>3 DEF Live, After
  <2>2. ASSUME NEW t \in 1..End, IsLast(t, x) PROVE t = s
    <3>1. ~(t \in (s + 1)..End) /\ ~(s \in (t + 1)..End)
      BY <1>3, <2>2 DEF IsLast
    <3> QED  BY <1>1, <3>1
  <2>3. log[s].type # "deleted" => Live(x) /\ log[s].row = rows[x]
    <3>1. log[s].type # "observed"
      BY <1>3 DEF IsLast, Touches, Reconstructing
    <3>2. log[s].row # None
      BY <3>1, Reconstructs
    <3> QED  BY <1>3, <3>2 DEF Live, After
  <2> QED  BY <1>3, <2>1, <2>2, <2>3
<1> QED  BY <1>1, <1>2, <1>3 DEF RowExplained

LEMMA GroundInvInit == Init => GroundInv
<1>1. Init => 1..End = {}
  BY DEF Init, End
<1> QED  BY <1>1 DEF GroundInv

LEMMA GroundInvStep ==
  ASSUME SourceInv, GroundInv, SourceOp \/ UNCHANGED storeVars PROVE GroundInv'
<1>1. /\ End \in Nat /\ End' \in Nat /\ End <= End'
      /\ \A s \in 1..End : log'[s] = log[s]
  BY Progresses, PastStays
<1>2. \A t \in 1..End : \A x : Touches(t, x)' <=> Touches(t, x)
  BY <1>1 DEF Touches
<1>3. ASSUME NEW s \in 1..(End + 1), NEW t \in 1..(s - 1), NEW x
      PROVE  /\ Bears(t, s, x)' <=> Bears(t, s, x)
             /\ log'[t] = log[t] /\ (Touches(t, x)' <=> Touches(t, x))
  <2>1. t \in 1..End /\ \A u \in (t + 1)..(s - 1) : u \in 1..End
    BY <1>1
  <2>2. Precedes(t, s, x)' <=> Precedes(t, s, x)
    BY <1>2, <2>1 DEF Precedes
  <2> QED  BY <1>1, <1>2, <2>1, <2>2 DEF Bears
<1>4. ASSUME NEW s \in 1..End, log'[s].type \in Reconstructing PROVE Grounded(s)'
  <2>1. s \in 1..(End + 1) /\ log'[s] = log[s]
    BY <1>1
  <2>2. Grounded(s)
    BY <1>4, <2>1 DEF GroundInv
  <2> QED  BY <1>3, <2>1, <2>2 DEF Grounded
<1>5. ASSUME NEW s \in (End + 1)..End', log'[s].type \in Reconstructing
      PROVE  Grounded(s)'
  <2>1. LocalWrite
    <3>1. CASE UNCHANGED storeVars
      <4>1. End' = End
        BY <3>1 DEF storeVars, End
      <4> QED  BY <1>1, <1>5, <4>1
    <3>2. CASE Retention \/ ReplaceHistory
      <4>1. OnlyObserves
        BY <3>2, RetentionEffect, AppendsNothing DEF ReplaceHistory, SourceInv, IInv
      <4> QED  BY <1>5, <4>1 DEF OnlyObserves, Quiet, Reconstructing
    <3> QED  BY <3>1, <3>2 DEF SourceOp
  <2>2. PICK e : Writes(e) /\ Grounds(e)
    BY <2>1, WriteGrounds
  <2>3. s = End + 1
    <3>1. \A q \in (End + 2)..End' : log'[q].type = "observed"
      BY <2>2 DEF Writes, Quiet
    <3>2. s # End + 1 => s \in (End + 2)..End'
      BY <1>1
    <3> QED  BY <1>5, <3>1, <3>2 DEF Reconstructing
  <2>4. log'[s] = e /\ s \in 1..(End + 1) /\ s - 1 = End
    BY <1>1, <2>2, <2>3 DEF Writes
  <2>5. /\ e.type \in Reconstructing /\ e.id \in Ids
        /\ e.type = "created" => \A t \in 1..End : ~Touches(t, e.id)
        /\ e.type = "updated" => Live(e.id) /\ e.prev = rows[e.id]
        /\ e.type = "deleted" => Live(e.id) /\ e.row = rows[e.id]
        /\ e.type # "deleted" => Holders(e.row.ns, e.row.hash) \subseteq {e.id}
    BY <1>5, <2>2, <2>4 DEF Grounds
  <2>6. ASSUME NEW t \in 1..End, NEW x
        PROVE Bears(t, s, x)' <=> IsLast(t, x) /\ log[t].type # "deleted"
    <3>1. Bears(t, s, x)' <=> Bears(t, s, x)
      BY <1>3, <2>4
    <3> QED  BY <2>4, <3>1 DEF Bears, Precedes, IsLast
  <2>7. e.type = "created" => \A t \in 1..(s - 1) : ~Touches(t, e.id)'
    BY <1>2, <2>4, <2>5
  <2>8. ASSUME Live(e.id)
        PROVE  \E t \in 1..(s - 1) : Bears(t, s, e.id)' /\ log'[t].row = rows[e.id]
    <3>1. PICK t \in 1..End : IsLast(t, e.id) /\ log[t].type # "deleted"
                                /\ log[t].row = rows[e.id]
      BY <2>5, <2>8, RowIsLast
    <3> QED  BY <1>1, <2>4, <2>6, <3>1
  <2>9. ASSUME e.type # "deleted", NEW y \in Ids, NEW t \in 1..(s - 1), Bears(t, s, y)',
               log'[t].row.ns = e.row.ns, log'[t].row.hash = e.row.hash
        PROVE  y = e.id
    <3>1. t \in 1..End /\ log'[t] = log[t]
      BY <1>1, <2>4
    <3>2. Live(y) /\ log[t].row = rows[y]
      BY <2>6, <2>9, <3>1, RowIsLast
    <3>3. y \in Holders(e.row.ns, e.row.hash)
      BY <2>9, <3>1, <3>2 DEF Holders, Live
    <3> QED  BY <2>5, <2>9, <3>3
  <2>10. /\ e.type = "updated" => \E t \in 1..(s - 1) :
                                   Bears(t, s, e.id)' /\ log'[t].row = e.prev
         /\ e.type = "deleted" => \E t \in 1..(s - 1) :
                                   Bears(t, s, e.id)' /\ log'[t].row = e.row
    BY <2>5, <2>8
  <2> QED  BY <2>4, <2>7, <2>9, <2>10 DEF Grounded
<1>6. \A s \in 1..End' : s \in 1..End \/ s \in (End + 1)..End'
  BY <1>1
<1> QED  BY <1>4, <1>5, <1>6 DEF GroundInv

-----------------------------------------------------------------------------
(* What the clone remembers as deleted.                                    *)

\* A tombstone of a clone nobody has written to is of a deletion it has been
\* through.
Buries(c, x) == \E s \in 1..End : s <= c.seen /\ log[s].type = "deleted" /\ log[s].id = x
Buried(c) == c.dirty = FALSE => \A x \in Ids : c.tombs[x] # None => Buries(c, x)
BuriedInv == \A c \in Clone : c = clone => Buried(c)

LEMMA BuriedInit == ReplayInit => BuriedInv
<1> SUFFICES ASSUME ReplayInit, NEW x \in Ids PROVE clone.tombs[x] = None
  BY DEF BuriedInv, Buried
<1> QED  BY DEF ReplayInit

LEMMA CommitBuried ==
  ASSUME SourceInv, ReplayTypeOK, RunInv, BuriedInv, ApplyPage, clone' # clone,
         NEW d \in Clone, d = clone'
  PROVE  Buried(d)
<1> DEFINE r == run  plan == r.sim.plan
<1>1. /\ r # None /\ r.phase = "apply" /\ RunHolds(r)
      /\ d = Commit(TablesBy(r.sim.plan), r)
  BY ApplyPageEnds
<1>2. r \in Run /\ RunBegun(r)
  BY <1>1 DEF ReplayTypeOK, RunHolds
<1>3. RunMade(d, r)
  BY <1>1, <1>2, CommitMade
<1>4. /\ clone.dirty = FALSE /\ Buried(clone) /\ PlanSound(plan, r.start, r.last)
      /\ clone.seen \in Nat /\ r.last \in Nat /\ End \in Nat /\ r.last <= End
  BY <1>2, LaterIs DEF RunBegun, ReplayTypeOK, BuriedInv, Run, Clone, SourceInv, IInv
<1>5. clone.seen <= d.seen /\ r.last <= d.seen /\ d.seen \in Nat
  BY <1>3, <1>4 DEF RunMade, Larger
<1>6. \A t \in plan : t \in 1..End /\ t <= r.last
  <2>1. plan \subseteq Window(r.start, r.last)
    BY <1>4 DEF PlanSound
  <2> QED  BY <2>1, WindowIs
<1> SUFFICES ASSUME NEW x \in Ids, d.tombs[x] # None PROVE Buries(d, x)
  BY DEF Buried
<1>7. d.tombs[x] = TombBy(plan, x)
  BY <1>3 DEF RunMade
<1>8. CASE Ends(plan, x) = {}
  <2>1. clone.tombs[x] # None
    BY <1>7, <1>8 DEF TombBy
  <2>2. Buries(clone, x)
    BY <1>4, <2>1 DEF Buried
  <2> QED  BY <1>4, <1>5, <2>2 DEF Buries
<1>9. CASE Ends(plan, x) # {}
  <2>1. PICK t \in plan : log[t].type = "deleted" /\ log[t].id = x
    BY <1>9 DEF Ends, About
  <2>2. t \in 1..End /\ t <= d.seen
    <3> HIDE DEF plan
    <3> QED  BY <1>4, <1>5, <1>6, <2>1
  <2> QED  BY <2>1, <2>2 DEF Buries
<1> QED  BY <1>8, <1>9

LEMMA HydrateBuried ==
  ASSUME ReplayTypeOK, CloneInv, BuriedInv, ~Rebases, NEW package \in packages,
         Hydrate(package), NEW d \in Clone, d = clone'
  PROVE  Buried(d)
<1>1. /\ clone \in Clone /\ CloneHolds(clone) /\ Buried(clone) /\ package \in Package
      /\ clone.events \in BOOLEAN
  BY CloneNow DEF ReplayTypeOK, BuriedInv, Clone
<1>2. Hydrated(d, package)
  BY <1>1, HydrateHas
<1> SUFFICES ASSUME d.dirty = FALSE, NEW x \in Ids, d.tombs[x] # None PROVE Buries(d, x)
  BY DEF Buried
<1>3. clone.dirty = FALSE /\ clone.tombs[x] # None
  BY <1>2 DEF Hydrated
<1>4. CASE Blank
  <2>1. clone.source = None
    BY <1>4 DEF Rebases
  <2> QED  BY <1>1, <1>3, <2>1 DEF CloneHolds
<1>5. CASE ~Blank
  <2>1. Buries(clone, x) /\ d.seen = clone.seen
    BY <1>1, <1>2, <1>3, <1>5 DEF Buried, Hydrated
  <2> QED  BY <2>1 DEF Buries
<1> QED  BY <1>4, <1>5

LEMMA BuriedStep ==
  ASSUME SourceInv, ReplayTypeOK, ReplayTypeOK', Undisturbed, PackagesInv, CloneInv,
         RunInv, BuriedInv, [ReplayNext]_vars, [~Rebases]_vars
  PROVE  BuriedInv'
<1>1. PICK d \in Clone : d = clone'
  BY DEF ReplayTypeOK
<1>2. Buried(d)
  <2>1. CASE clone' = clone
    BY <1>1, <2>1 DEF BuriedInv
  <2>2. CASE ApplyPage /\ clone' # clone
    BY <1>1, <2>2, CommitBuried
  <2>3. CASE clone' # clone /\ \E package \in packages : Hydrate(package)
    <3>1. ~Rebases
      BY <2>3 DEF vars
    <3> QED  BY <1>1, <2>3, <3>1, HydrateBuried
  <2>4. CASE \E x \in Ids, r \in NewRow \cup {None} : CloneWrite(x, r)
    <3>1. clone \in Clone
      BY DEF ReplayTypeOK
    <3>2. d.dirty = TRUE
      BY <1>1, <2>4, <3>1 DEF CloneWrite, Clone
    <3> QED  BY <3>2 DEF Buried
  <2> QED  BY <2>1, <2>2, <2>3, <2>4, ReplaySteps
<1>3. /\ End \in Nat /\ End' \in Nat /\ End <= End'
      /\ \A s \in 1..End : log'[s] = log[s]
  BY SourceSteps, Progresses, PastStays
<1>4. \A x : Buries(d, x) => Buries(d, x)'
  BY <1>3 DEF Buries
<1>5. Buried(d)'
  BY <1>2, <1>4 DEF Buried
<1> QED  BY <1>1, <1>5 DEF BuriedInv

-----------------------------------------------------------------------------
(* What an event finds in the state of the source before it.               *)

LEMMA FoundBefore ==
  ASSUME SourceInv, NEW p \in Nat, NEW s \in 1..End, NEW q, q = s - 1, NEW x \in Ids,
         State(p, q)[x] # None
  PROVE  \E t \in 1..q : Bears(t, s, x) /\ log[t].row = State(p, q)[x]
<1> DEFINE New == {t \in (p + 1)..q : Tells(t, x)}
<1>1. End \in Nat /\ q \in Nat /\ q < s /\ q < End /\ New \in SUBSET (0..End)
  BY LaterIs DEF SourceInv, IInv
<1>2. New # {}
  <2> SUFFICES ASSUME New = {} PROVE FALSE
    OBVIOUS
  <2>1. \A t \in (p + 1)..q : ~Tells(t, x)
    OBVIOUS
  <2> HIDE DEF New
  <2> QED  BY <1>1, <2>1, StateNone
<1>3. PICK m : m = Latest(New)
  OBVIOUS
<1>4. m \in New /\ \A t \in New : t <= m
  <2> HIDE DEF New
  <2> QED  BY <1>1, <1>2, <1>3, LatestOf
<1>5. m \in (p + 1)..q /\ Tells(m, x) /\ m \in 1..q /\ m \in 1..End
  BY <1>1, <1>4
<1>6. State(p, q)[x] = After(log[m])
  <2>1. \A t \in (p + 1)..q : Tells(t, x) => t <= m
    BY <1>4
  <2> HIDE DEF New
  <2> QED  BY <1>1, <1>5, <2>1, StateAfter
<1>7. log[m].type # "deleted" /\ log[m].row = State(p, q)[x]
  BY <1>6 DEF After
<1>8. ASSUME NEW u \in (m + 1)..(s - 1), Touches(u, x) PROVE FALSE
  <2>1. u \in 1..End /\ u \in (p + 1)..q /\ m < u
    BY <1>1, <1>5
  <2>2. NsAt(u) = NsAt(m)
    BY <1>5, <1>8, <2>1 DEF SourceInv, OneNamespace, Tells
  <2>3. Tells(u, x)
    BY <1>5, <1>8, <2>2 DEF Tells, InScope
  <2>4. u <= m
    BY <1>4, <2>1, <2>3
  <2> QED  BY <1>5, <2>1, <2>4
<1>9. Bears(m, s, x)
  <2>1. m \in 1..(s - 1) /\ Touches(m, x)
    BY <1>5 DEF Tells
  <2> HIDE DEF New
  <2> QED  BY <1>7, <1>8, <2>1 DEF Bears, Precedes
<1> QED  BY <1>5, <1>7, <1>9

LEMMA BearsShow ==
  ASSUME SourceInv, NEW p \in Nat, p < 1, NEW s \in 1..End, NEW q, q = s - 1,
         NEW x \in Ids, NEW t, Bears(t, s, x), InScope(t)
  PROVE  State(p, q)[x] = log[t].row
<1>1. /\ End \in Nat /\ q \in Nat /\ t \in 1..(s - 1) /\ t \in (p + 1)..q
      /\ Tells(t, x) /\ log[t].type # "deleted"
  BY LaterIs DEF SourceInv, IInv, Bears, Precedes, Tells
<1>2. ASSUME NEW u \in (p + 1)..q, Tells(u, x) PROVE u <= t
  <2>1. ~(u \in (t + 1)..(s - 1))
    BY <1>2 DEF Bears, Precedes, Tells
  <2> QED  BY <1>1, <2>1
<1>3. State(p, q)[x] = After(log[t])
  BY <1>1, <1>2, StateAfter
<1> QED  BY <1>1, <1>3 DEF After

\* What the rows of the source say is what the event says it was written on.
Meets(st, s) ==
  LET e == log[s]
  IN  /\ e.type = "created" => st[e.id] = None
      /\ e.type = "updated" => st[e.id] # None /\ st[e.id] = e.prev
      /\ e.type = "deleted" => st[e.id] # None /\ st[e.id] = e.row
      /\ e.type # "deleted" =>
           \A y \in Ids : st[y] # None /\ st[y].ns = e.row.ns /\ st[y].hash = e.row.hash
                            => y = e.id

LEMMA EventMeets ==
  ASSUME SourceInv, GroundInv, NEW p \in Nat, p < 1, NEW s \in 1..End, Shown(s),
         NEW q, q = s - 1
  PROVE  Meets(State(p, q), s)
<1> DEFINE x == log[s].id
<1>1. Grounded(s) /\ x \in Ids /\ Touches(s, x) /\ InScope(s)
  BY DEF GroundInv, Shown, Touches, SourceInv, WellFormed
<1>2. End \in Nat /\ s - 1 <= End /\ \A t \in 1..(s - 1) : t \in 1..End
  BY LaterIs DEF SourceInv, IInv
<1>3. ASSUME NEW t \in 1..(s - 1), Bears(t, s, x)
      PROVE  State(p, q)[x] # None /\ State(p, q)[x] = log[t].row
  <2>1. t \in 1..End /\ Touches(t, x)
    BY <1>2, <1>3 DEF Bears, Precedes
  <2>2. NsAt(t) = NsAt(s)
    BY <1>1, <2>1 DEF SourceInv, OneNamespace
  <2>3. InScope(t)
    BY <1>1, <2>2 DEF InScope
  <2>4. log[t].row # None
    BY <2>1, Reconstructs DEF Touches, Reconstructing
  <2>5. State(p, q)[x] = log[t].row
    BY <1>1, <1>3, <2>3, BearsShow
  <2> QED  BY <2>4, <2>5
<1>4. log[s].type = "created" => State(p, q)[x] = None
  <2> SUFFICES ASSUME log[s].type = "created", State(p, q)[x] # None PROVE FALSE
    OBVIOUS
  <2>1. PICK t \in 1..q : Bears(t, s, x)
    BY <1>1, FoundBefore
  <2> QED  BY <1>1, <2>1 DEF Grounded, Bears, Precedes
<1>5. log[s].type = "updated" => State(p, q)[x] # None /\ State(p, q)[x] = log[s].prev
  BY <1>1, <1>3 DEF Grounded
<1>6. log[s].type = "deleted" => State(p, q)[x] # None /\ State(p, q)[x] = log[s].row
  BY <1>1, <1>3 DEF Grounded
<1>7. ASSUME log[s].type # "deleted", NEW y \in Ids, State(p, q)[y] # None,
             State(p, q)[y].ns = log[s].row.ns, State(p, q)[y].hash = log[s].row.hash
      PROVE  y = x
  <2>1. PICK t \in 1..q : Bears(t, s, y) /\ log[t].row = State(p, q)[y]
    BY <1>7, FoundBefore
  <2> QED  BY <1>1, <1>7, <2>1 DEF Grounded
<1> QED  BY <1>4, <1>5, <1>6, <1>7 DEF Meets

-----------------------------------------------------------------------------
(* Resuming from the checkpoint.                                           *)

\* The clone would be let in where its checkpoint is, on a source whose
\* history was never replaced.
ResumesAt(from) ==
  /\ clone.saved # None /\ clone.source # None /\ Valid(clone.saved)
  /\ from = clone.saved.seq /\ meta.hist < 1

\* A run that has planned so far.
Trial(sim, from, last) ==
  [phase |-> "scan", cursor |-> clone.saved, start |-> from, budget |-> None,
   at |-> last, last |-> last, scanned |-> 0, sim |-> sim, staged |-> None]

IsTrial(r, sim, from, last) ==
  RunBegun(r) /\ r.start = from /\ r.last = last /\ r.sim = sim

LEMMA ResumesHas ==
  ASSUME SourceInv, ReplayTypeOK, CloneInv, SharedBase = FALSE,
         NEW from, ResumesAt(from)
  PROVE  /\ from \in 0..End /\ End \in Nat /\ from <= clone.seen /\ clone.seen \in 0..End
         /\ clone.saved \in Cursor /\ clone.saved.hist = meta.hist
         /\ clone.dirty = FALSE /\ clone.source = meta.hist /\ Following(clone)
         /\ clone.base = LiveRows(clone.rows) /\ Accepts(from)
         /\ meta.hist \in Nat /\ meta.epoch \in Nat /\ meta.epoch <= from
         /\ Epoch(meta.hist) \in Nat /\ Epoch(meta.hist) < 1
         /\ \A s \in 1..End : log[s].hist = meta.hist
<1>1. clone.saved # None /\ clone.source # None /\ Valid(clone.saved) /\ meta.hist < 1
      /\ from = clone.saved.seq
  BY DEF ResumesAt
<1>2. clone.saved \in Cursor /\ clone.seen \in Nat
  BY <1>1 DEF ReplayTypeOK, Clone
<1>3. /\ clone.dirty = FALSE /\ clone.source = meta.hist /\ clone.saved.hist = meta.hist
      /\ Accepts(from) /\ Following(clone) /\ clone.base = LiveRows(clone.rows)
  BY <1>1, <1>2, LetIn
<1>4. from \in Nat /\ from <= clone.seen /\ clone.seen \in 0..End
  BY <1>1, <1>2, <1>3 DEF Following, Cursor
<1>5. /\ End \in Nat /\ meta.hist \in Nat /\ meta.epoch \in 0..End
      /\ \A s \in 1..End : log[s].hist \in Nat /\ log[s].hist <= meta.hist
      /\ \A s \in 1..meta.epoch : log[s].hist < meta.hist
  BY LogTyped DEF SourceInv, IInv, TypeOK, Meta, EpochMarks, MarksMatchLog
<1>6. \A s \in 1..End : log[s].hist = meta.hist
  BY <1>1, <1>5
<1>7. meta.epoch <= from
  <2> SUFFICES ASSUME meta.epoch > from PROVE FALSE
    BY <1>4, <1>5
  <2>1. meta.epoch \in 1..meta.epoch /\ meta.epoch \in 1..End
    BY <1>4, <1>5
  <2> QED  BY <1>5, <1>6, <2>1
<1>8. Epoch(meta.hist) \in Nat /\ Epoch(meta.hist) < 1
  <2>1. /\ Epoch(meta.hist) \in 0..End
        /\ \A s \in 1..End : log[s].hist < meta.hist <=> s <= Epoch(meta.hist)
    BY <1>5, EpochIs
  <2>2. ~(1 \in 1..End /\ 1 <= Epoch(meta.hist))
    BY <1>5, <1>6, <2>1
  <2> QED  BY <1>5, <2>1, <2>2
<1> QED  BY <1>2, <1>3, <1>4, <1>5, <1>6, <1>7, <1>8

LEMMA TrialBegun ==
  ASSUME SourceInv, ReplayTypeOK, CloneInv, SharedBase = FALSE,
         NEW from \in Nat, ResumesAt(from), NEW sim \in Sim, NEW last \in Nat,
         from <= last, last <= End,
         PlanSound(sim.plan, from, last)
  PROVE  \E r \in Run : IsTrial(r, sim, from, last)
<1> DEFINE r == Trial(sim, from, last)
<1>1. /\ from \in 0..End /\ End \in Nat /\ from <= clone.seen /\ clone.seen \in 0..End
      /\ clone.saved \in Cursor /\ clone.saved.hist = meta.hist
      /\ clone.dirty = FALSE /\ clone.source = meta.hist
      /\ clone.base = LiveRows(clone.rows) /\ Accepts(from) /\ meta.epoch <= from
  BY ResumesHas
<1>2. clone.saved # None /\ clone.source # None /\ from = clone.saved.seq
  BY DEF ResumesAt
<1>3. /\ r.cursor = clone.saved /\ r.start = from /\ r.last = last /\ r.sim = sim
  BY DEF Trial
<1>4. r \in Run
  <2>1. from \in Nat /\ last \in Nat
    BY <1>1
  <2> QED  BY <1>1, <2>1 DEF Trial, Run
<1> HIDE DEF r
<1>5. \A s \in 1..End : clone.seen < s /\ log[s].hist = meta.hist
                         => s \in Retained /\ from < s
  <2> SUFFICES ASSUME NEW s \in 1..End, clone.seen < s, log[s].hist = meta.hist
               PROVE  s \in Retained /\ from < s
    OBVIOUS
  <2>1. PICK c \in Cursor : c = clone.saved
    BY <1>1
  <2>2. c.seq = from /\ from < s
    BY <1>1, <1>2, <2>1
  <2> QED  BY <1>1, <2>2, NothingMissed
<1>6. RunBegun(r)
  BY <1>1, <1>2, <1>3, <1>5 DEF RunBegun
<1> QED  BY <1>3, <1>4, <1>6 DEF IsTrial

LEMMA ResumeGround ==
  ASSUME SourceInv, ReplayTypeOK, CloneInv, SharedBase = FALSE,
         NEW from, ResumesAt(from)
  PROVE  Ground(from)
<1>1. from \in Nat /\ from <= End
  <2>1. from \in 0..End /\ End \in Nat
    BY ResumesHas
  <2> QED  BY <2>1
<1>2. PICK sim \in Sim, last \in Nat : sim = EmptySim /\ last = from
  BY <1>1, EmptySimTyped
<1>3. PlanSound(sim.plan, from, last)
  <2>1. PlanSound({}, from, from) /\ EmptySim.plan = {}
    BY <1>1, NothingPlanned
  <2> QED  BY <1>2, <2>1
<1>4. from <= last /\ last <= End
  BY <1>1, <1>2
<1>5. PICK r \in Run : IsTrial(r, sim, from, last)
  BY <1>1, <1>3, <1>4, TrialBegun
<1> QED  BY <1>1, <1>5, RunGround DEF IsTrial

\* What has been planned says of the loaded rows what the source does.
LEMMA TrialShows ==
  ASSUME SourceInv, ReplayTypeOK, CloneInv, SharedBase = FALSE,
         NEW from, ResumesAt(from), NEW sim \in Sim, SimIs(sim), NEW s \in 1..End,
         from < s, clone.seen < s, PlanSound(sim.plan, from, s - 1), NEW q, q = s - 1
  PROVE  \E p \in Nat : p < 1 /\ \A x \in sim.loaded :
                                   Alike(sim.rows[x], State(p, q)[x])
<1>1. /\ from \in 0..End /\ End \in Nat /\ clone.seen \in 0..End
      /\ clone.source = meta.hist /\ Following(clone)
      /\ Epoch(meta.hist) \in Nat /\ Epoch(meta.hist) < 1
  BY ResumesHas
<1>2. from <= q /\ q <= End /\ clone.seen <= q /\ q \in Nat
  BY <1>1
<1>3. PICK last \in Nat : last = q
  BY <1>2
<1>4. PICK r \in Run : RunBegun(r) /\ r.start = from /\ r.last = q /\ r.sim = sim
  <2>1. PlanSound(sim.plan, from, last)
    BY <1>3
  <2>2. from \in Nat /\ from <= last /\ last <= End
    BY <1>1, <1>2, <1>3
  <2>3. PICK r \in Run : IsTrial(r, sim, from, last)
    BY <2>1, <2>2, TrialBegun
  <2> QED  BY <1>3, <2>3 DEF IsTrial
<1>5. q = Larger(clone.seen, r.last)
  BY <1>1, <1>2, <1>4 DEF Larger
<1>6. PICK p \in {0, Epoch(meta.hist)} : Shows(clone, p)
  BY <1>1 DEF Following
<1>7. p \in Nat /\ p < 1 /\ (p = 0 => Epoch(meta.hist) <= clone.seen)
  BY <1>1, <1>6 DEF Shows
<1>8. \A x \in Ids : Alike(clone.rows[x], State(p, clone.seen)[x])
  <2>1. SameRecords(clone.rows, State(p, clone.seen))
    BY <1>6 DEF Shows
  <2> QED  BY <2>1, SameIsAlike
<1>9. ASSUME NEW x \in sim.loaded PROVE Alike(sim.rows[x], State(p, q)[x])
  <2>1. x \in Ids /\ sim.rows[x] = RowBy(sim.plan, x)
    BY DEF Sim, SimIs
  <2>2. Alike(clone.rows[x], State(p, clone.seen)[x])
    BY <1>8, <2>1
  <2>3. Alike(RowBy(r.sim.plan, x), State(p, q)[x])
    BY <1>4, <1>5, <1>6, <1>7, <2>1, <2>2, PlanShows
  <2> QED  BY <1>4, <2>1, <2>3
<1> QED  BY <1>7, <1>9

\* The simulation knows nothing of a record it has not read, and a tombstone
\* only from the clone or a deletion it has planned.
Bare(sim) ==
  \A x \in Ids :
    /\ x \notin sim.loaded => sim.rows[x] = None
    /\ sim.tombs[x] # None => clone.tombs[x] # None \/ Ends(sim.plan, x) # {}

\* What the clone has been through is skipped once more.
LEMMA SeenSkips ==
  ASSUME SourceInv, ReplayTypeOK, CloneInv, SharedBase = FALSE,
         NEW from, ResumesAt(from), NEW sim \in Sim, SimIs(sim), NEW s \in 1..End,
         from < s, s <= clone.seen, PlanSound(sim.plan, from, s - 1),
         s \in Retained, Shown(s), LoadedFor(sim, s)
  PROVE  Skips(sim, s, meta.hist)
<1>1. /\ clone.seen \in Nat /\ clone.source = meta.hist /\ Following(clone)
      /\ log[s].hist = meta.hist
  <2>1. /\ clone.seen \in 0..End /\ clone.source = meta.hist /\ Following(clone)
        /\ \A t \in 1..End : log[t].hist = meta.hist
    BY ResumesHas
  <2>2. End \in Nat
    BY LaterIs DEF SourceInv, IInv
  <2> QED  BY <2>1, <2>2
<1>2. clone.saved # None /\ from = clone.saved.seq
  BY DEF ResumesAt
<1>3. Rereads(clone, s)
  BY <1>1, <1>2 DEF Rereads
<1>4. Skips(Held, s, meta.hist)
  BY <1>1, <1>2, <1>3 DEF Following, Held
<1>5. sim.plan = {}
  <2> SUFFICES ASSUME NEW t \in sim.plan PROVE FALSE
    OBVIOUS
  <2>1. clone.seen < t /\ t \in Window(from, s - 1)
    BY DEF PlanSound
  <2>2. t \in Nat /\ t <= s - 1
    BY <2>1, WindowIs
  <2> QED  BY <1>1, <2>1, <2>2
<1>6. log[s].id \in sim.loaded /\ log[s].id \notin sim.mutated
  BY <1>5, ShownIs DEF LoadedFor, SimIs, Changed
<1> QED  BY <1>4, <1>6, SkipsAsHeld

\* What it has not been through, and does not hold, applies.
LEMMA NewApplies ==
  ASSUME SourceInv, GroundInv, ReplayTypeOK, CloneInv, BuriedInv, SharedBase = FALSE,
         NEW from, ResumesAt(from), NEW sim \in Sim, SimIs(sim), Bare(sim),
         NEW s \in 1..End, from < s, clone.seen < s, PlanSound(sim.plan, from, s - 1),
         s \in Retained, Shown(s), LoadedFor(sim, s)
  PROVE  Applies(sim, s)
<1> DEFINE x == log[s].id
<1>0. clone.seen \in 0..End /\ End \in Nat /\ clone.dirty = FALSE
  BY ResumesHas
<1>1. /\ clone.seen \in Nat /\ End \in Nat
      /\ log[s].type \in Reconstructing /\ log[s].type # "observed"
      /\ x \in Ids /\ x \in sim.loaded /\ Touches(s, x) /\ log[s].row \in Row
  BY <1>0, ShownIs, Reconstructs DEF LoadedFor, Touches
<1>2. ASSUME NEW t \in 1..End, t < s, log[t].type = "deleted", log[t].id = x
      PROVE  FALSE
  <2>1. Touches(t, x) /\ s \in (t + 1)..End
    BY <1>1, <1>2 DEF Touches, Reconstructing
  <2> QED  BY <1>1, <1>2, <2>1 DEF SourceInv, DeletedForGood
<1>3. ~Tombstoned(sim, x)
  <2> SUFFICES ASSUME sim.tombs[x] # None PROVE FALSE
    BY DEF Tombstoned
  <2>1. CASE clone.tombs[x] # None
    <3>1. Buried(clone)
      BY DEF BuriedInv, ReplayTypeOK
    <3>2. Buries(clone, x)
      BY <1>0, <1>1, <2>1, <3>1 DEF Buried
    <3>3. PICK t \in 1..End : t <= clone.seen /\ log[t].type = "deleted" /\ log[t].id = x
      BY <3>2 DEF Buries
    <3>4. t < s
      BY <1>1, <3>3
    <3> QED  BY <1>2, <3>3, <3>4
  <2>2. CASE Ends(sim.plan, x) # {}
    <3>1. PICK t \in sim.plan : log[t].type = "deleted" /\ log[t].id = x
      BY <2>2 DEF Ends, About
    <3>2. t \in Window(from, s - 1)
      BY <3>1 DEF PlanSound
    <3>3. t \in 1..End /\ t <= s - 1
      BY <3>2, WindowIs
    <3> QED  BY <1>2, <3>1, <3>3
  <2> QED  BY <1>1, <2>1, <2>2 DEF Bare
<1>4. PICK q : q = s - 1
  OBVIOUS
<1>5. PICK p \in Nat : p < 1 /\ \A y \in sim.loaded : Alike(sim.rows[y], State(p, q)[y])
  BY <1>4, TrialShows
<1>6. PICK st : st = State(p, q)
  OBVIOUS
<1>7. Meets(st, s)
  BY <1>4, <1>5, <1>6, EventMeets
<1>8. \A y \in sim.loaded : Alike(sim.rows[y], st[y])
  BY <1>5, <1>6
<1>9. ASSUME log[s].type # "deleted" PROVE HolderIn(sim.rows, log[s].row) \subseteq {x}
  <2> SUFFICES ASSUME NEW y \in Ids, sim.rows[y] # None, sim.rows[y].ns = log[s].row.ns,
                      sim.rows[y].hash = log[s].row.hash
               PROVE  y = x
    BY DEF HolderIn
  <2>1. y \in sim.loaded
    BY DEF Bare
  <2>2. st[y] # None /\ Fingerprint(st[y]) = Fingerprint(sim.rows[y])
    BY <1>8, <2>1 DEF Alike
  <2>3. st[y].ns = log[s].row.ns /\ st[y].hash = log[s].row.hash
    BY <2>2 DEF Fingerprint
  <2> QED  BY <1>7, <1>9, <2>2, <2>3 DEF Meets
<1>10. Alike(sim.rows[x], st[x])
  BY <1>1, <1>8
<1>11. CASE log[s].type = "created"
  <2>1. sim.rows[x] = None
    BY <1>7, <1>10, <1>11 DEF Meets, Alike
  <2>2. HolderIn(sim.rows, log[s].row) = {}
    BY <1>9, <1>11, <2>1 DEF HolderIn
  <2> QED  BY <1>3, <1>11, <2>1, <2>2 DEF Applies, Creates
<1>12. CASE log[s].type = "updated"
  <2>1. sim.rows[x] # None /\ Fingerprint(sim.rows[x]) = Fingerprint(log[s].prev)
    BY <1>7, <1>10, <1>12 DEF Meets, Alike
  <2> QED  BY <1>3, <1>9, <1>12, <2>1 DEF Applies, Updates
<1>13. CASE log[s].type = "deleted"
  <2>1. sim.rows[x] # None /\ Fingerprint(sim.rows[x]) = Declared(s)
    BY <1>7, <1>10, <1>13 DEF Meets, Alike, Declared
  <2> QED  BY <1>3, <1>13, <2>1 DEF Applies, Deletes
<1> QED  BY <1>1, <1>11, <1>12, <1>13 DEF Reconstructing

\* No event of the window stops the planning.
LEMMA PlanStepGoesOn ==
  ASSUME SourceInv, GroundInv, ReplayTypeOK, CloneInv, BuriedInv, SharedBase = FALSE,
         NEW from, ResumesAt(from), NEW sim \in Sim, SimIs(sim), Bare(sim),
         NEW s \in 1..End, from < s, PlanSound(sim.plan, from, s - 1),
         s \in Retained, InScope(s), LoadedFor(sim, s),
         NEW next, next = PlanStep(sim, s, meta.hist)
  PROVE  next.failed = FALSE /\ Bare(next)
<1>1. sim.failed = FALSE /\ log[s].hist = meta.hist
  <2>1. \A t \in 1..End : log[t].hist = meta.hist
    BY ResumesHas
  <2> QED  BY <2>1 DEF SimIs
<1>2. CASE log[s].type = "observed" \/ Skips(sim, s, meta.hist)
  <2>1. next = sim
    BY <1>1, <1>2 DEF PlanStep, OfHistory
  <2> QED  BY <1>1, <2>1
<1>3. CASE log[s].type # "observed" /\ ~Skips(sim, s, meta.hist)
  <2>1. Shown(s)
    BY <1>3, ShownIs
  <2>2. clone.seen \in 0..End /\ End \in Nat
    BY ResumesHas
  <2>3. clone.seen < s
    <3>1. ~(s <= clone.seen)
      BY <1>3, <2>1, SeenSkips
    <3> QED  BY <2>2, <3>1
  <2>4. Applies(sim, s)
    BY <2>1, <2>3, NewApplies
  <2>5. next = Simulate(sim, s, meta.hist)
    BY <1>1, <1>3, <2>4 DEF PlanStep, OfHistory
  <2>6. \A t \in sim.plan : t < s
    <3>1. sim.plan \subseteq Window(from, s - 1)
      BY DEF PlanSound
    <3> QED  BY <3>1, WindowIs
  <2>7. next.plan = sim.plan \cup {s} /\ next.loaded = sim.loaded /\ SimIs(next)
    BY <1>3, <2>5, <2>6, SimulateIs
  <2>8. log[s].id \in Ids /\ log[s].id \in sim.loaded
    BY <1>3, Reconstructs DEF LoadedFor
  <2>9. /\ \A x \in Ids : x # log[s].id =>
             next.rows[x] = sim.rows[x] /\ next.tombs[x] = sim.tombs[x]
        /\ log[s].type # "deleted" => next.tombs[log[s].id] = sim.tombs[log[s].id]
    <3>1. sim.rows \in Rows /\ sim.tombs \in Tombs
      BY DEF Sim
    <3>2. /\ next.rows = [sim.rows EXCEPT ![log[s].id] = After(log[s])]
          /\ next.tombs = [sim.tombs EXCEPT ![log[s].id] =
                             IF log[s].type = "deleted"
                             THEN [ns |-> log[s].row.ns, seq |-> s, hist |-> meta.hist]
                             ELSE sim.tombs[log[s].id]]
      BY <2>5 DEF Simulate, Sim
    <3> QED  BY <2>8, <3>1, <3>2 DEF Rows, Tombs
  <2>10. ASSUME NEW x \in Ids, next.tombs[x] # None
         PROVE  clone.tombs[x] # None \/ Ends(next.plan, x) # {}
    <3>1. CASE x = log[s].id /\ log[s].type = "deleted"
      <4>1. s \in Ends(next.plan, x)
        BY <2>7, <3>1 DEF Ends, About
      <4> QED  BY <4>1
    <3>2. CASE ~(x = log[s].id /\ log[s].type = "deleted")
      <4>1. sim.tombs[x] # None
        BY <2>9, <2>10, <3>2
      <4>2. Ends(sim.plan, x) \subseteq Ends(next.plan, x)
        BY <2>7 DEF Ends, About
      <4> QED  BY <4>1, <4>2 DEF Bare
    <3> QED  BY <3>1, <3>2
  <2>11. \A x \in Ids : x \notin next.loaded => next.rows[x] = None
    BY <2>7, <2>8, <2>9 DEF Bare
  <2> QED  BY <2>7, <2>10, <2>11 DEF Bare, SimIs
<1> QED  BY <1>2, <1>3

LEMMA LoadBare ==
  ASSUME SourceInv, ReplayTypeOK, NEW taken, NEW next, next = Load(EmptySim, taken)
  PROVE  Bare(next)
<1> DEFINE named == {e.id : e \in {log[s] : s \in taken}} \cup
             UNION {HolderIn(clone.rows, r) :
                r \in (UNION {{e.row, e.prev} : e \in {log[s] : s \in taken}}) \ {None}}
           new == (named \cap Ids) \ EmptySim.loaded
<1>1. next = [EmptySim EXCEPT
        !.rows  = [x \in Ids |-> IF x \in new THEN clone.rows[x] ELSE EmptySim.rows[x]],
        !.tombs = [x \in Ids |-> IF x \in new THEN clone.tombs[x] ELSE EmptySim.tombs[x]],
        !.wms   = [x \in Ids |-> IF x \in new THEN clone.wms[x] ELSE EmptySim.wms[x]],
        !.loaded = EmptySim.loaded \cup new]
  BY DEF Load
<1> HIDE DEF named, new
<1>2. /\ next.loaded = EmptySim.loaded \cup new
      /\ \A x \in Ids :
           /\ next.rows[x] = IF x \in new THEN clone.rows[x] ELSE EmptySim.rows[x]
           /\ next.tombs[x] = IF x \in new THEN clone.tombs[x] ELSE EmptySim.tombs[x]
  BY <1>1, EmptySimTyped DEF Sim
<1>3. \A x \in Ids : EmptySim.rows[x] = None /\ EmptySim.tombs[x] = None
  BY DEF EmptySim
<1> QED  BY <1>2, <1>3 DEF Bare

LEMMA ResumePlans ==
  ASSUME SourceInv, GroundInv, ReplayTypeOK, CloneInv, BuriedInv, SharedBase = FALSE,
         NEW from \in Nat, ResumesAt(from)
  PROVE  Plan(EmptySim, Later(from), meta.hist).failed = FALSE
<1> DEFINE taken == Later(from)
<1>0. /\ TypeOK /\ meta.hist \in Nat /\ End \in Nat /\ meta.epoch <= from
      /\ clone \in Clone /\ Ground(from) /\ EmptySim \in Sim
  <2>1. meta.epoch <= from
    BY ResumesHas
  <2> QED  BY <2>1, LaterIs, ResumeGround, EmptySimTyped
           DEF SourceInv, IInv, TypeOK, Meta, ReplayTypeOK
<1>1. /\ taken \in SUBSET (1..End)
      /\ \A s \in taken : from < s /\ s \in Retained /\ InScope(s)
      /\ \A s \in 1..End : from < s /\ s \notin taken => ~(s \in Retained /\ Shown(s))
  <2>1. taken \subseteq Retained /\ Retained \subseteq 1..End
    BY <1>0, LaterIs
  <2>2. \A s \in taken : from < s /\ InScope(s)
    BY DEF Later
  <2>3. \A s \in 1..End : from < s /\ s \notin taken => ~(s \in Retained /\ Shown(s))
    BY DEF Later, Shown
  <2> QED  BY <2>1, <2>2, <2>3
<1>2. PICK f : Planned(f, EmptySim, taken, meta.hist)
  BY <1>0, PlanIs
<1> HIDE DEF taken
<1>3. /\ f[0] = Load(EmptySim, taken)
      /\ Plan(EmptySim, taken, meta.hist) = f[End]
      /\ \A s \in 1..End :
           f[s] = IF s \in taken THEN PlanStep(f[s - 1], s, meta.hist) ELSE f[s - 1]
  BY <1>2 DEF Planned
<1> DEFINE To(s) == IF s <= from THEN from ELSE s
           Fine(sim, s) == /\ sim \in Sim /\ sim.loaded = f[0].loaded
                           /\ sim.failed = FALSE /\ Bare(sim) /\ Good(sim, from, To(s))
           S == {s \in 0..End : Fine(f[s], s)}
<1>4. /\ f[0] \in Sim /\ Bare(f[0]) /\ f[0].failed = FALSE /\ Good(f[0], from, from)
      /\ \A s \in taken : LoadedFor(f[0], s)
  <2>1. f[0] \in Sim
    BY <1>0, <1>3, LoadTyped
  <2>2. Bare(f[0])
    BY <1>3, LoadBare
  <2>3. EmptySim.plan = {} /\ PlanSound({}, from, from) /\ SimIs(EmptySim)
    BY NothingPlanned
  <2>4. /\ f[0].plan = EmptySim.plan /\ f[0].failed = FALSE /\ SimIs(f[0])
        /\ \A s \in taken : LoadedFor(f[0], s)
    BY <1>0, <1>1, <1>3, <2>3, LoadIs
  <2> QED  BY <2>1, <2>2, <2>3, <2>4 DEF Good
<1>5. 0 \in S
  BY <1>0, <1>4
<1>6. ASSUME NEW s \in 1..End, s - 1 \in S PROVE s \in S
  <2>1. Fine(f[s - 1], s - 1)
    BY <1>6
  <2>2. CASE s \in taken
    <3>1. from < s /\ s \in Retained /\ InScope(s)
      BY <1>1, <2>2
    <3>2. To(s) = s /\ To(s - 1) = s - 1
      BY <1>0, <3>1
    <3>3. LoadedFor(f[s - 1], s)
      BY <1>4, <2>1, <2>2 DEF LoadedFor
    <3>4. PlanSound(f[s - 1].plan, from, s - 1) /\ SimIs(f[s - 1])
      BY <2>1, <3>2 DEF Good
    <3>5. f[s] = PlanStep(f[s - 1], s, meta.hist)
      BY <1>3, <2>2
    <3>6. f[s].failed = FALSE /\ Bare(f[s])
      BY <2>1, <3>1, <3>3, <3>4, <3>5, PlanStepGoesOn
    <3>7. f[s].loaded = f[s - 1].loaded /\ Good(f[s], from, s)
      BY <1>0, <2>1, <3>1, <3>2, <3>3, <3>5, PlanStepSound
    <3>8. f[s] \in Sim
      BY <1>0, <2>1, <3>5, PlanStepTyped
    <3>9. Good(f[s], from, To(s))
      BY <3>2, <3>7
    <3> QED  BY <2>1, <3>6, <3>7, <3>8, <3>9
  <2>3. CASE s \notin taken
    <3>1. f[s] = f[s - 1]
      BY <1>3, <2>3
    <3>2. Good(f[s], from, To(s))
      <4>1. CASE s <= from
        <5>1. To(s) = To(s - 1)
          BY <1>0, <4>1
        <5> QED  BY <2>1, <3>1, <5>1
      <4>2. CASE from < s
        <5>1. To(s) = s /\ To(s - 1) = s - 1
          BY <1>0, <4>2
        <5>2. ~(s \in Retained /\ Shown(s))
          BY <1>1, <2>3, <4>2
        <5>3. Window(from, s) = Window(from, s - 1)
          BY <4>2, <5>2, WindowGrows
        <5>4. Good(f[s], from, s - 1)
          BY <2>1, <3>1, <5>1
        <5>5. Good(f[s], from, s)
          BY <5>3, <5>4 DEF Good, PlanSound
        <5> QED  BY <5>1, <5>5
      <4> QED  BY <1>0, <4>1, <4>2
    <3> QED  BY <2>1, <3>1, <3>2
  <2> QED  BY <2>2, <2>3
<1>7. End \in S
  <2> HIDE DEF S
  <2>1. 0..End \subseteq S
    BY <1>0, <1>5, <1>6, UpTo
  <2> QED  BY <1>0, <2>1
<1> QED  BY <1>3, <1>7 DEF taken

LEMMA NeverStuckNow ==
  ASSUME SourceInv, GroundInv, ReplayTypeOK, CloneInv, BuriedInv, SharedBase = FALSE,
         meta.hist < 1
  PROVE  ResumeNeverStuck
<1> SUFFICES ASSUME clone.saved # None, clone.source # None, Valid(clone.saved)
             PROVE  ~Plan(EmptySim, Later(clone.saved.seq), meta.hist).failed
  BY DEF ResumeNeverStuck
<1>1. clone.saved.seq \in Nat
  <2>1. clone.saved \in Cursor
    BY DEF ReplayTypeOK, Clone
  <2> QED  BY <2>1 DEF Cursor
<1>2. PICK from \in Nat : from = clone.saved.seq
  BY <1>1
<1>3. ResumesAt(from)
  BY <1>2 DEF ResumesAt
<1>4. Plan(EmptySim, Later(from), meta.hist).failed = FALSE
  BY <1>3, ResumePlans
<1> QED  BY <1>2, <1>4

\* All that a resumed run relies on.
ResumeInv == ReplayInv /\ GroundInv /\ BuriedInv /\ meta.hist = 0

LEMMA ResumeInvInit ==
  ASSUME Undisturbed, ReplayInit PROVE ReplayTypeOK /\ ResumeInv
<1>1. Init
  BY DEF ReplayInit
<1>2. meta.hist = 0
  BY <1>1 DEF Init
<1> QED  BY <1>1, <1>2, ReplayInvInit, GroundInvInit, BuriedInit DEF ResumeInv

LEMMA ResumeInvStep ==
  ASSUME Undisturbed, MaxHist = 0, ReplayTypeOK, ResumeInv, [ReplayNext]_vars,
         [~Rebases]_vars
  PROVE  ReplayTypeOK' /\ ResumeInv'
<1>1. /\ ReplayInv /\ GroundInv /\ BuriedInv /\ meta.hist = 0
      /\ SourceInv /\ PackagesInv /\ CloneInv /\ RunInv
  BY DEF ResumeInv, ReplayInv
<1>2. ReplayTypeOK' /\ ReplayInv'
  BY <1>1, ReplayInvStep
<1>3. SourceOp \/ UNCHANGED storeVars
  BY SourceSteps
<1>4. GroundInv'
  BY <1>1, <1>3, GroundInvStep
<1>5. BuriedInv'
  BY <1>1, <1>2, BuriedStep
<1>6. meta'.hist = 0
  BY <1>1, <1>3, OneHistory
<1> QED  BY <1>2, <1>4, <1>5, <1>6 DEF ResumeInv

LEMMA ResumeInvSuffices ==
  ASSUME Undisturbed, ReplayTypeOK, ResumeInv PROVE ResumeNeverStuck
<1>1. /\ SourceInv /\ GroundInv /\ CloneInv /\ BuriedInv /\ SharedBase = FALSE
      /\ meta.hist = 0
  BY DEF ResumeInv, ReplayInv, Undisturbed
<1>2. meta.hist < 1
  BY <1>1
<1> QED  BY <1>1, <1>2, NeverStuckNow

\* A clone that would be let in from its checkpoint is never refused by an
\* event after it, whatever was written and trimmed in its one history since:
\* what it has been through it skips, and every later event finds the row it
\* was written on.
THEOREM ResumesUnhindered ==
  ASSUME Undisturbed, MaxHist = 0
  PROVE  OneBaseSpec => []ResumeNeverStuck
<1>1. ReplayInit => ReplayTypeOK /\ ResumeInv
  BY ResumeInvInit
<1>2. ReplayTypeOK /\ ResumeInv /\ [ReplayNext /\ ~Rebases]_vars
        => ReplayTypeOK' /\ ResumeInv'
  BY ResumeInvStep
<1>3. ReplayTypeOK /\ ResumeInv => ResumeNeverStuck
  BY ResumeInvSuffices
<1> QED  BY <1>1, <1>2, <1>3, PTL DEF OneBaseSpec
=============================================================================
