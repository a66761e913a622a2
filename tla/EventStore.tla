------------------------------ MODULE EventStore ------------------------------
(***************************************************************************)
(* One HotMem store: the memory rows, the append-only event log, the       *)
(* tombstones and replay watermarks kept beside them, and the operation    *)
(* ledger that makes retries safe (hotmem/db.py, hotmem/events.py and the  *)
(* write operations of hotmem/runtime.py and hotmem/lifecycle.py).         *)
(*                                                                         *)
(* Every action is one committed SQLite transaction, or an operation whose *)
(* later commits may be cut off by an error, in which case both outcomes   *)
(* are disjuncts.  A crash inside a transaction leaves the state as it     *)
(* was, so it is a stuttering step.                                        *)
(*                                                                         *)
(* log keeps every event ever committed: seq is AUTOINCREMENT and never    *)
(* reused, so the event with seq s is log[s].  Retention removes a prefix: *)
(* the rows still in the events table are those with seq > dropped.        *)
(***************************************************************************)
EXTENDS Integers, Sequences, FiniteSets

CONSTANTS
  Ids,          \* memory ids (uuid4: an id is never drawn twice)
  Namespaces,   \* namespaces
  DefaultNs,    \* the namespace "", probed when nothing is known of an id
  Hashes,       \* content hashes
  Vals,         \* values of the other fingerprinted columns
  Rels,         \* values of the columns record_fingerprint leaves out
  NoRel,        \* ... and the one a new row starts with
  Keys, NoKey,  \* idempotency keys (one stands for a caller and its key)
  None,         \* an absent row, tombstone, watermark or ledger entry
  MaxSeq,       \* bound: events appended
  MaxHist,      \* bound: history epochs
  KeepLast,     \* events hygiene retains (10_000 in the code)
  Packaged      \* the rows an imported package may carry

VARIABLES
  rows,     \* table memories: [Ids -> Row or None]
  log,      \* table events, with the events retention has removed
  dropped,  \* the events 1..dropped have been removed
  tombs,    \* table memory_tombstones: [Ids -> Tombstone or None]
  wms,      \* table memory_replay_watermarks: [Ids -> Watermark or None]
  ledger,   \* table operation_ledger: [namespace, key -> Entry or None]
  meta,     \* retention and history marks of table store_meta
  imported  \* history variable: the ids an import touched after their last
            \* local create, update or delete

storeVars == <<rows, log, dropped, tombs, wms, ledger, meta, imported>>

-----------------------------------------------------------------------------
(* Records.                                                                *)

Row == [ns : Namespaces, hash : Hashes, val : Vals, rel : Rels]

Reconstructing == {"created", "updated", "deleted"}

Event == [type : Reconstructing \cup {"observed"},
          id   : Ids \cup {None},
          row  : Row \cup {None},    \* after-state; before-state of a delete
          prev : Row \cup {None},    \* before-state of an update
          hist : Nat,                \* origin.history_id
          key  : Keys \cup {NoKey}]  \* history: the key that caused it

Tombstone == [ns : Namespaces, seq : Nat, hist : Nat]
Watermark == [fp : [ns : Namespaces, hash : Hashes, val : Vals],
              seq : Nat, hist : Nat]

Request == [op : {"add", "update", "delete"},
            id : Ids \cup {None}, row : Row \cup {None}]
Entry == [req : Request, id : Ids]

Meta == [trimmed : Nat, lastHead : Nat, compacted : Nat,
         epoch : Nat, hist : Nat]

\* None is a value of its own.
ASSUME StoreAssumption ==
  /\ DefaultNs \in Namespaces
  /\ NoRel \in Rels
  /\ NoKey \notin Keys
  /\ KeepLast \in Nat /\ MaxSeq \in Nat /\ MaxHist \in Nat
  /\ Packaged \subseteq Row
  /\ None \notin Row /\ None \notin Ids
  /\ None \notin Tombstone /\ None \notin Watermark /\ None \notin Entry

\* record_fingerprint: the relationship columns are not part of it.
Fingerprint(r) == [ns |-> r.ns, hash |-> r.hash, val |-> r.val]

-----------------------------------------------------------------------------
(* Reading the store.                                                      *)

End == Len(log)
Retained == {s \in 1..End : dropped < s}
Live(id) == rows[id] # None

\* MAX(seq) over the events table, 0 when retention emptied it.
MaxPresent == IF dropped < End THEN End ELSE 0

Larger(a, b) == IF a < b THEN b ELSE a

\* event_log_bounds()["head_seq"]
HeadSeq == Larger(MaxPresent, Larger(meta.trimmed, meta.lastHead))

\* The row holding content hash h in namespace ns, if any.
Holders(ns, h) ==
  {x \in Ids : rows[x] # None /\ rows[x].ns = ns /\ rows[x].hash = h}

\* uuid4().hex: an id nothing in the store has named before.
Fresh(id) ==
  /\ rows[id] = None
  /\ id \notin imported
  /\ \A s \in 1..End : log[s].id # id

-----------------------------------------------------------------------------
(* The operation ledger: keyed by (caller, namespace, key).                *)

Remembered(ns, key) == IF key = NoKey THEN None ELSE ledger[<<ns, key>>]

\* get_operation_ledger, then get_operation_ledger_for_memory.
NsOf(id) == IF rows[id] # None THEN rows[id].ns
            ELSE IF tombs[id] # None THEN tombs[id].ns ELSE DefaultNs

\* Mutants: one of the two lookups is forgotten.
FindOperation_ByNamespace(id, key) == Remembered(NsOf(id), key)
FindOperation_ByMemory(id, key) ==
  LET byMemory == {n \in Namespaces : /\ Remembered(n, key) # None
                                      /\ Remembered(n, key).id = id}
  IN  IF byMemory = {} THEN None
      ELSE Remembered(CHOOSE n \in byMemory : TRUE, key)

FindOperation(id, key) ==
  LET byMemory == {n \in Namespaces : /\ Remembered(n, key) # None
                                      /\ Remembered(n, key).id = id}
  IN  IF Remembered(NsOf(id), key) # None
      THEN Remembered(NsOf(id), key)
      ELSE IF byMemory = {} THEN None
           ELSE Remembered(CHOOSE n \in byMemory : TRUE, key)

Remember(ns, key, req, id) ==
  ledger' = IF key = NoKey THEN ledger
            ELSE [ledger EXCEPT ![<<ns, key>>] = [req |-> req, id |-> id]]

\* What a keyed update or delete of id answers in the current state.
Answer(id, key, req) ==
  LET hit == FindOperation(id, key)
  IN  IF hit # None
      THEN IF hit.req = req THEN "recorded" ELSE "conflict"
      ELSE IF rows[id] = None THEN "not found" ELSE "execute"

AddRequest(r) == [op |-> "add", id |-> None, row |-> r]
UpdateRequest(id, r) == [op |-> "update", id |-> id, row |-> r]
DeleteRequest(id) == [op |-> "delete", id |-> id, row |-> None]

-----------------------------------------------------------------------------
(* Appending events.                                                       *)

Ev(type, id, row, prev, key) ==
  [type |-> type, id |-> id, row |-> row, prev |-> prev,
   hist |-> meta.hist, key |-> key]
Observed(id, row) == Ev("observed", id, row, None, NoKey)

\* Mutant: the write commits, its event does not.
AppendEvents_Lost(es) == End + Len(es) <= MaxSeq /\ UNCHANGED log

AppendEvents(es) ==
  /\ End + Len(es) <= MaxSeq      \* bound
  /\ log' = log \o es

\* What the store keeps of the event about to be appended.
\* Mutants: the seq of the event before it.
TombstoneOf_Late(r) == [ns |-> r.ns, seq |-> End, hist |-> meta.hist]
WatermarkOf_Late(r) ==
  [fp |-> Fingerprint(r), seq |-> End, hist |-> meta.hist]

TombstoneOf(r) == [ns |-> r.ns, seq |-> End + 1, hist |-> meta.hist]
WatermarkOf(r) ==
  [fp |-> Fingerprint(r), seq |-> End + 1, hist |-> meta.hist]

\* Mutant: nothing is deleted.
Forget_Nothing(table, ids) == table

\* delete_tombstones, delete_replay_watermarks.
Forget(table, ids) == [x \in Ids |-> IF x \in ids THEN None ELSE table[x]]

-----------------------------------------------------------------------------
(* Writes.                                                                 *)

\* HotMemRuntime.add, new content: row, memory.created and ledger entry in
\* one transaction.
AddNew(id, r, key) ==
  /\ Remembered(r.ns, key) = None
  /\ Holders(r.ns, r.hash) = {}
  /\ Fresh(id)
  /\ rows' = [rows EXCEPT ![id] = r]
  /\ AppendEvents(<<Ev("created", id, r, None, key)>>)
  /\ Remember(r.ns, key, AddRequest(r), id)
  /\ UNCHANGED <<dropped, tombs, wms, meta, imported>>

\* HotMemRuntime.add, content already held: an explicit memory.deduplicated.
AddDuplicate(id, r, key) ==
  /\ Remembered(r.ns, key) = None
  /\ id \in Holders(r.ns, r.hash)
  /\ AppendEvents(<<Ev("observed", id, rows[id], None, key)>>)
  /\ Remember(r.ns, key, AddRequest(r), id)
  /\ UNCHANGED <<rows, dropped, tombs, wms, meta, imported>>

\* update_memory_record; lifecycle.transition and mark_candidate add a
\* signal event in the same transaction.  The namespace cannot change.
Update(id, r, key, signal) ==
  /\ key = NoKey \/ FindOperation(id, key) = None
  /\ Live(id) /\ r.ns = rows[id].ns
  /\ Holders(r.ns, r.hash) \subseteq {id}
  /\ LET ev == Ev("updated", id, r, rows[id], key)
     IN  AppendEvents(IF signal THEN <<ev, Observed(id, r)>> ELSE <<ev>>)
  /\ rows' = [rows EXCEPT ![id] = r]
  /\ wms' = [wms EXCEPT ![id] = WatermarkOf(r)]
  /\ Remember(r.ns, key, UpdateRequest(id, r), id)
  /\ imported' = imported \ {id}
  /\ UNCHANGED <<dropped, tombs, meta>>

\* delete_memory_record: the row and its watermark go, the tombstone stays.
Delete(id, key) ==
  /\ key = NoKey \/ FindOperation(id, key) = None
  /\ Live(id)
  /\ AppendEvents(<<Ev("deleted", id, rows[id], None, key)>>)
  /\ rows' = [rows EXCEPT ![id] = None]
  /\ wms' = Forget(wms, {id})
  /\ tombs' = [tombs EXCEPT ![id] = TombstoneOf(rows[id])]
  /\ Remember(rows[id].ns, key, DeleteRequest(id), id)
  /\ imported' = imported \ {id}
  /\ UNCHANGED <<dropped, meta>>

-----------------------------------------------------------------------------
(* Retention, compaction and history replacement.                          *)

\* Mutant: the retention mark is not moved.
DropThrough_Unmarked(k) ==
  /\ dropped' = k
  /\ meta' = [meta EXCEPT !.lastHead = Larger(meta.lastHead, End)]

\* Both trims remove the events 1..k and record how far history is gone.
DropThrough(k) ==
  /\ dropped' = k
  /\ meta' = [meta EXCEPT !.trimmed = Larger(meta.trimmed, k),
                          !.lastHead = Larger(meta.lastHead, End)]

TrimBefore(n) ==
  /\ n - 1 \in Retained
  /\ DropThrough(n - 1)
  /\ UNCHANGED <<rows, log, tombs, wms, ledger, imported>>

TrimByCount(keep) ==
  /\ End - keep \in Retained
  /\ DropThrough(End - keep)
  /\ UNCHANGED <<rows, log, tombs, wms, ledger, imported>>

\* HotMemRuntime.hygiene of a caller with write authority: an audit event, a
\* warning about a record if there is cause (a commit each), then a trim
\* whose failure is suppressed.
Hygiene(warned) ==
  LET es  == IF warned = None THEN <<Observed(None, None)>>
             ELSE <<Observed(None, None), Observed(warned, None)>>
      cut == End + Len(es) - KeepLast
  IN  /\ AppendEvents(es)
      /\ \/ /\ cut > dropped
            /\ dropped' = cut
            /\ meta' = [meta EXCEPT
                          !.trimmed = Larger(meta.trimmed, cut),
                          !.lastHead = Larger(meta.lastHead, End + Len(es))]
         \/ UNCHANGED <<dropped, meta>>
      /\ UNCHANGED <<rows, tombs, wms, ledger, imported>>

\* How far compact_tombstones may go: strict requests that exceed a bound
\* are refused, lenient ones are clamped.
CompactionHorizon(through, acked, strict) ==
  LET ack == IF acked = None THEN through ELSE acked
      cap == IF ack < meta.trimmed THEN ack ELSE meta.trimmed
  IN  IF through <= cap THEN {through} ELSE IF strict THEN {} ELSE {cap}

CompactTombstones(through, acked, ns, strict) ==
  LET listed == {x \in Ids : tombs[x] # None /\ ns \in {None, tombs[x].ns}}
  IN  /\ \E x \in listed : tombs[x].seq <= through
      /\ \E h \in CompactionHorizon(through, acked, strict) :
           LET doomed == {x \in listed : tombs[x].seq <= h}
           IN  /\ \A x \in doomed :
                    /\ ~Live(x)
                    /\ \A s \in Retained : s <= tombs[x].seq => log[s].id # x
               /\ tombs' = Forget(tombs, doomed)
               /\ meta' = [meta EXCEPT !.compacted = Larger(meta.compacted, h)]
  /\ UNCHANGED <<rows, log, dropped, wms, ledger, imported>>

\* Mutant: the history id is not rotated.
NextHistory_Same == meta.hist

NextHistory == meta.hist + 1

\* MemoryDB.replace_history: a new epoch; the events stay as audit history.
ReplaceHistory ==
  /\ meta.hist < MaxHist           \* bound
  /\ meta' = [trimmed |-> 0, lastHead |-> 0, compacted |-> 0,
              epoch |-> MaxPresent, hist |-> NextHistory]
  /\ tombs' = [x \in Ids |-> None]
  /\ wms' = [x \in Ids |-> None]
  /\ UNCHANGED <<rows, log, dropped, ledger, imported>>

\* hydrate_v2 of a package naming one record, then emit_import_event: a
\* second commit.  A record whose id or content is present is skipped; the
\* annotations of a content duplicate merge into the row that holds it.
Restore(id, r) ==
  /\ \/ /\ rows[id] = None /\ Holders(r.ns, r.hash) = {}
        /\ rows' = [rows EXCEPT ![id] = r]
        /\ imported' = imported \cup {id}
     \/ /\ rows[id] # None /\ Holders(r.ns, r.hash) = {}
        /\ rows' = rows
        /\ imported' = imported \cup {id}
     \/ \E x \in Holders(r.ns, r.hash), v \in Vals :
          /\ rows' = [rows EXCEPT ![x].val = v]
          /\ imported' = imported \cup {id, x}
  /\ tombs' = Forget(tombs, {id})
  /\ wms' = Forget(wms, {id})
  /\ meta' = [meta EXCEPT !.epoch = 0]
  /\ AppendEvents(<<Observed(None, None)>>) \/ UNCHANGED log
  /\ UNCHANGED <<dropped, ledger>>

-----------------------------------------------------------------------------
Init ==
  /\ rows = [x \in Ids |-> None]
  /\ log = << >>
  /\ dropped = 0
  /\ tombs = [x \in Ids |-> None]
  /\ wms = [x \in Ids |-> None]
  /\ ledger = [p \in Namespaces \X Keys |-> None]
  /\ meta = [trimmed |-> 0, lastHead |-> 0, compacted |-> 0,
             epoch |-> 0, hist |-> 0]
  /\ imported = {}

NewRow == {r \in Row : r.rel = NoRel}

LocalWrite ==
  \E id \in Ids, key \in Keys \cup {NoKey} :
    \/ \E r \in NewRow : AddNew(id, r, key) \/ AddDuplicate(id, r, key)
    \/ \E r \in Row, signal \in BOOLEAN : Update(id, r, key, signal)
    \/ Delete(id, key)

Retention ==
  \/ \E n \in 1..(MaxSeq + 1) : TrimBefore(n) \/ TrimByCount(n - 1)
  \/ \E through \in 0..MaxSeq, acked \in 0..MaxSeq \cup {None},
        ns \in Namespaces \cup {None}, strict \in BOOLEAN :
       CompactTombstones(through, acked, ns, strict)
  \/ \E warned \in Ids \cup {None} : Hygiene(warned)

Import == \E id \in Ids, r \in Packaged : Restore(id, r)

Next == LocalWrite \/ Retention \/ ReplaceHistory \/ Import

Spec == Init /\ [][Next]_storeVars

-----------------------------------------------------------------------------
(* Invariants.                                                             *)

TypeOK ==
  /\ rows \in [Ids -> Row \cup {None}]
  /\ log \in Seq(Event)
  /\ dropped \in 0..End
  /\ tombs \in [Ids -> Tombstone \cup {None}]
  /\ wms \in [Ids -> Watermark \cup {None}]
  /\ ledger \in [Namespaces \X Keys -> Entry \cup {None}]
  /\ meta \in Meta
  /\ imported \subseteq Ids

\* The events that change the row of id, and the one that did so last.
Touches(s, id) == log[s].id = id /\ log[s].type \in Reconstructing
IsLast(s, id) == Touches(s, id) /\ \A t \in (s + 1)..End : ~Touches(t, id)
After(e) == IF e.type = "deleted" THEN None ELSE e.row

\* No record is both live and tombstoned, and a tombstone is of this history.
TombstonesAreDead ==
  \A id \in Ids : tombs[id] # None => ~Live(id) /\ tombs[id].hist = meta.hist

\* The marks agree with the log: no event is of a later history than the
\* store's, an event of this history that retention removed is at or below
\* the trim mark, and a tombstone names the last event about its record,
\* which is its deletion.
MarksMatchLog ==
  /\ \A s \in 1..End : log[s].hist <= meta.hist
  /\ \A s \in 1..dropped : log[s].hist = meta.hist => s <= meta.trimmed
  /\ \A id \in Ids : tombs[id] # None =>
       /\ tombs[id].seq \in 1..End /\ IsLast(tombs[id].seq, id)
       /\ log[tombs[id].seq].type = "deleted"

\* Two live rows of a namespace never hold the same content (#100).
UniqueContent ==
  \A x, y \in Ids :
    Live(x) /\ Live(y) /\ rows[x].ns = rows[y].ns /\ rows[x].hash = rows[y].hash
      => x = y

\* A replay watermark is of a live row, names the last event that touched
\* it, and carries the fingerprint that event left.  Replay skips events on
\* the strength of this alone.
WatermarkCurrent ==
  \A id \in Ids : wms[id] # None =>
    /\ Live(id)
    /\ wms[id].hist = meta.hist
    /\ wms[id].seq \in 1..End
    /\ IsLast(wms[id].seq, id)
    /\ wms[id].fp = Fingerprint(log[wms[id].seq].row)

\* The rows are what the log says: a row no import has touched is the
\* after-state of the last event about it.
LogExplainsRows ==
  \A id \in Ids \ imported :
    \/ ~Live(id) /\ \A s \in 1..End : ~Touches(s, id)
    \/ \E s \in 1..End : IsLast(s, id) /\ rows[id] = After(log[s])

\* Compaction never forgets a deletion whose record could come back: while an
\* event of this history about a dead record can still be replayed, its
\* tombstone is there and is at least as recent as the event.
DeadIdsKeepTombstone ==
  \A id \in Ids \ imported, s \in Retained :
    Touches(s, id) /\ log[s].hist = meta.hist /\ ~Live(id)
      => tombs[id] # None /\ tombs[id].seq >= s

\* validate_replay_cursor's verdict on a cursor of this history at seq c.
Accepts(c) ==
  /\ c >= meta.compacted
  /\ IF HeadSeq = 0 THEN c = 0
     ELSE c >= meta.trimmed /\ c <= MaxPresent /\ (c > 0 => c > dropped)

\* An accepted cursor sees every later event of its history: retention never
\* leaves a gap behind a cursor that still validates.
CursorWindowIntact ==
  \A c \in 0..End : Accepts(c) =>
    \A s \in (c + 1)..dropped : log[s].hist # meta.hist

\* Once a keyed update or delete is recorded, a retry never executes again,
\* whatever has been deleted, compacted or restored since.
RetryNeverExecutes ==
  \A ns \in Namespaces, key \in Keys : ledger[<<ns, key>>] # None =>
    LET e == ledger[<<ns, key>>]
    IN  Answer(e.id, key, e.req) # "execute"

\* Each ledger entry stands for exactly one event.
OneEventPerEntry ==
  \A ns \in Namespaces, key \in Keys :
    LET made == {s \in 1..End : log[s].key = key /\ log[s].row.ns = ns}
    IN  IF ledger[<<ns, key>>] = None THEN made = {}
        ELSE \E s \in 1..End :
               made = {s} /\ log[s].id = ledger[<<ns, key>>].id

\* docs/snapshot-v2.md: a delete or update retried after its tombstone was
\* compacted still returns the recorded outcome.
RetryReturnsOutcome ==
  \A ns \in Namespaces, key \in Keys : ledger[<<ns, key>>] # None =>
    LET e == ledger[<<ns, key>>]
    IN  e.req.op # "add" => Answer(e.id, key, e.req) = "recorded"

\* A cursor the store has refused as stale is refused for the rest of its
\* history: no later trim, compaction or import makes it valid again.
StaleCursorStaysStale ==
  [][meta'.hist = meta.hist =>
       \A c \in 0..End : ~Accepts(c) => ~Accepts(c)']_storeVars
=============================================================================
