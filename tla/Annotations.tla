----------------------------- MODULE Annotations -----------------------------
(***************************************************************************)
(* What an import does with each record of a file (hotmem/swap.py,         *)
(* hotmem/snapshot/reader.py, hotmem/interchange/hydrate.py, import_sqlite *)
(* of hotmem/db.py) and with the annotations a record carries              *)
(* (hotmem/annotations.py): records go in batch by batch, those whose      *)
(* content the store has only bring their annotations.                     *)
(***************************************************************************)
EXTENDS Integers, SequencesExt

CONSTANTS
  Ids,        \* memory ids
  Namespaces, \* namespaces a caller may import into
  NoNs,       \* the empty namespace
  Contents,   \* of rows; the content hash stands for it
  Items,      \* annotation ids: a namespace of annotations and an item id
  Texts,      \* what an annotation says
  MaxItems,   \* MAX_ITEMS, and all other limits of an envelope
  BatchSizes, \* HYDRATE_BATCH
  None,       \* no row, no import, no namespace to import into
  Envelopes,  \* the annotations that callers write
  Files       \* the files that are imported

VARIABLES
  store,  \* the memories table: a row, or None, for every id
  import  \* the import that runs

vars == <<store, import>>

\* An item may cite memories of this store as its evidence.
Item == [text : Texts, cites : SUBSET Ids]
Envelope ==
  UNION {[items -> Item] : items \in {some \in SUBSET Items : IsFiniteSet(some)}}
\* One column that has a default and a domain stands for all of them.
Column == {"good", "absent", "malformed", "outside"}
Row == [ns : Namespaces \cup {NoNs}, content : Contents, column : Column,
        notes : Envelope]
Record == [id : Ids, row : Row]

Present(rows) == {id \in Ids : rows[id] # None}
Key(row) == <<row.ns, row.content>>
Holder(rows, row) == {id \in Present(rows) : Key(rows[id]) = Key(row)}

Modes == {"whole", "plain", "database"}

ASSUME AnnotationsAssumption ==
  /\ MaxItems \in Nat /\ BatchSizes \subseteq Nat \ {0}
  /\ None \notin Row
  /\ Envelopes \subseteq Envelope
  /\ Files \subseteq Seq(Record)
  /\ \A file \in Files : \A i, j \in DOMAIN file :
       file[i].id = file[j].id => i = j

\* The records at some places of a sequence, in their order.
Picked(records, places) ==
  FoldLeftDomain(LAMBDA some, i : IF i \in places THEN Append(some, records[i])
                                  ELSE some,
                 <<>>, records)

-----------------------------------------------------------------------------
(* One record.                                                             *)

\* normalize_record: a value of the wrong type is replaced by the default as
\* an absent one is, one outside its domain stays.
Normalized(row) ==
  IF row.column \in {"absent", "malformed"} THEN [row EXCEPT !.column = "good"]
  ELSE row

\* import_sqlite copies what is there, columns the source lacks excepted.
Copied(row) ==
  IF row.column = "absent" THEN [row EXCEPT !.column = "good"] ELSE row

\* _NormalizedRecord.validation_issues
Issues(row) == row.column = "malformed"

\* validate_record
Sound(row) == ~Issues(row) /\ Normalized(row).column # "outside"

\* envelope_exceeds_limits
Exceeds(notes) == Cardinality(DOMAIN notes) > MaxItems

\* validate_annotations.  Only verified imports resolve what is cited.
Valid(row, known) ==
  /\ ~Exceeds(row.notes)
  /\ \A item \in DOMAIN row.notes : row.notes[item].cites \subseteq known

\* _scan_annotation_context and fetch_existing_ids: the ids of the file, of
\* whatever record, and those of the store.
Known(mode, rows, file) ==
  IF mode = "whole" THEN {file[i].id : i \in DOMAIN file} \cup Present(rows)
  ELSE Ids

\* The items of an envelope, and those of another one that it lacks.
Both(notes, others) ==
  [item \in DOMAIN notes \cup DOMAIN others |->
     IF item \in DOMAIN notes THEN notes[item] ELSE others[item]]

\* Mutant: the incoming item wins.
Merged_LastWrite(notes, incoming) ==
  IF Exceeds(Both(incoming, notes)) THEN notes ELSE Both(incoming, notes)

\* merge_annotations: items the row lacks are added, one it has stays as it
\* is, and a merge that exceeds the limits is refused.
Merged(notes, incoming) ==
  IF Exceeds(Both(notes, incoming)) THEN notes ELSE Both(notes, incoming)

\* One record whose content a row has.
MergeInto(rows, record) ==
  LET holder == Holder(rows, record.row)
  IN  [id \in Ids |->
         IF id \in holder
         THEN [rows[id] EXCEPT !.notes = Merged(@, record.row.notes)]
         ELSE rows[id]]

\* Mutant: each is merged into the row as it was read for the batch.
MergeAll_Stale(rows, merging) ==
  IF merging = <<>> THEN rows ELSE MergeInto(rows, Last(merging))

\* merge_duplicate_annotations
MergeAll(rows, merging) == FoldLeft(MergeInto, rows, merging)

-----------------------------------------------------------------------------
(* A batch.                                                                *)

\* The first record of a batch with its content; the others are duplicates
\* within the batch.
IsFirst(batch, i) ==
  \A j \in DOMAIN batch : j < i => Key(batch[j].row) # Key(batch[i].row)

\* The batch that is full with its n-th content; n rows of a database.
NextBatch(mode, records, n) ==
  LET Counts(i) == mode = "database" \/ IsFirst(records, i)
      Full(k)   == Cardinality({i \in 1 .. k : Counts(i)}) = n
      ends      == {k \in DOMAIN records : Full(k)} \cup {Len(records)}
  IN  SubSeq(records, 1, CHOOSE k \in ends : \A j \in ends : k <= j)

\* Mutant: INSERT OR REPLACE.
Insert_Replaces(rows, batch) ==
  LET new == {i \in DOMAIN batch : /\ IsFirst(batch, i)
                                   /\ Holder(rows, batch[i].row) = {}}
  IN  [id \in Ids |->
         IF \E i \in new : batch[i].id = id
         THEN batch[CHOOSE i \in new : batch[i].id = id].row ELSE rows[id]]

\* insert_many_ignore: contents the store lacks, unless their id is taken.
Insert(rows, batch) ==
  LET new == {i \in DOMAIN batch : /\ IsFirst(batch, i)
                                   /\ Holder(rows, batch[i].row) = {}
                                   /\ rows[batch[i].id] = None}
  IN  [id \in Ids |->
         IF \E i \in new : batch[i].id = id
         THEN batch[CHOOSE i \in new : batch[i].id = id].row ELSE rows[id]]

\* Duplicates of rows of the store, then those of records of the batch.
Duplicates(rows, batch) ==
  LET first   == {i \in DOMAIN batch : IsFirst(batch, i)}
      inStore == {i \in first : Holder(rows, batch[i].row) # {}}
  IN  Picked(batch, inStore) \o Picked(batch, DOMAIN batch \ first)

\* _flush_batch; import_sqlite leaves duplicates alone.
Flush(mode, rows, batch) ==
  LET loaded == Insert(rows, batch)
  IN  IF mode = "database" THEN loaded
      ELSE MergeAll(loaded, Duplicates(rows, batch))

-----------------------------------------------------------------------------
(* Imports: of a verified snapshot or package in one transaction, of plain *)
(* records and of databases batch by batch.                                *)

\* target_namespace is for records without one.
Placed(record, ns) ==
  IF ns # None /\ record.row.ns = NoNs THEN [record EXCEPT !.row.ns = ns]
  ELSE record

\* The records that are imported; unfit ones are counted and skipped.
Accepted(mode, rows, file, ns) ==
  LET placed == [i \in DOMAIN file |-> Placed(file[i], ns)]
      known  == Known(mode, rows, file)
      Fit(record) == Sound(record.row) /\ Valid(record.row, known)
      fit == Picked(placed, {i \in DOMAIN file : Fit(placed[i])})
  IN  IF mode = "database"
      THEN [i \in DOMAIN placed |-> [placed[i] EXCEPT !.row = Copied(@)]]
      ELSE [i \in DOMAIN fit |-> [fit[i] EXCEPT !.row = Normalized(@)]]

\* A database is the one of another store, within the limits.
Start(mode, file, ns, size) ==
  /\ import = None
  /\ mode = "database" => \A i \in DOMAIN file : ~Exceeds(file[i].row.notes)
  /\ LET accepted == Accepted(mode, store, file, ns)
     IN  import' = [mode |-> mode, size |-> size, left |-> accepted,
                    staged |-> store, from |-> store, all |-> accepted]
  /\ UNCHANGED store

FlushBatch ==
  /\ import # None /\ import.left # <<>>
  /\ LET batch == NextBatch(import.mode, import.left, import.size)
         after == Flush(import.mode, import.staged, batch)
     IN  /\ import' = [import EXCEPT
                         !.left = SubSeq(@, Len(batch) + 1, Len(@)),
                         !.staged = after]
         /\ store' = IF import.mode = "whole" THEN store ELSE after

\* The last batch was flushed, and a transaction commits.
Finish ==
  /\ import # None /\ import.left = <<>>
  /\ store' = import.staged /\ import' = None

\* What a flush leaves that is cut off: a plain import commits the rows of a
\* batch and then each annotation it merges.
CutOff(mode, rows, batch) ==
  LET duplicates == Duplicates(rows, batch)
  IN  IF mode # "plain" THEN {rows}
      ELSE {MergeAll(Insert(rows, batch), SubSeq(duplicates, 1, k)) :
              k \in 0 .. Len(duplicates)}

\* The process dies or a record is no JSON: a transaction is rolled back,
\* what is committed stays.
ImportFails ==
  /\ import # None /\ import' = None
  /\ \/ UNCHANGED store
     \/ /\ import.left # <<>>
        /\ store' \in CutOff(import.mode, store,
                    NextBatch(import.mode, import.left, import.size))

\* delete_memory_record, between imports.
Delete(id) ==
  /\ import = None /\ store[id] # None
  /\ store' = [store EXCEPT ![id] = None]
  /\ UNCHANGED import

\* update_memory_record with new metadata.  It checks the whole row as an
\* import would, but not what is cited.
Annotate(id, notes) ==
  /\ import = None /\ store[id] # None
  /\ Sound(store[id]) /\ Valid([notes |-> notes], Ids)
  /\ store' = [store EXCEPT ![id].notes = notes]
  /\ UNCHANGED import

Init == store = [id \in Ids |-> None] /\ import = None

Next ==
  \/ \E mode \in Modes, file \in Files, ns \in Namespaces \cup {None},
        size \in BatchSizes : Start(mode, file, ns, size)
  \/ FlushBatch \/ Finish \/ ImportFails
  \/ \E id \in Ids : Delete(id)
  \/ \E id \in Ids, notes \in Envelopes : Annotate(id, notes)

Spec == Init /\ [][Next]_vars

-----------------------------------------------------------------------------
(* Properties.                                                             *)

\* Never last-write-wins: an import changes no content, and no annotation
\* that a row has.
TargetRetained ==
  [][import # None =>
       \A id \in Present(store) :
         /\ store'[id] # None /\ Key(store'[id]) = Key(store[id])
         /\ \A item \in DOMAIN store[id].notes :
              /\ item \in DOMAIN store'[id].notes
              /\ store'[id].notes[item] = store[id].notes[item]]_vars

\* What one record does to a store, without batches.
One(mode, rows, record) ==
  IF Holder(rows, record.row) # {}
  THEN IF mode = "database" THEN rows ELSE MergeInto(rows, record)
  ELSE IF rows[record.id] # None THEN rows
  ELSE [rows EXCEPT ![record.id] = record.row]

InOrder(mode, rows, records) ==
  FoldLeft(LAMBDA acc, record : One(mode, acc, record), rows, records)

\* Two records of the import have one content once it is placed, and the id
\* of the first one is taken in the store by another content.
Shadowed ==
  \E k, l \in DOMAIN import.all :
    /\ k < l /\ Key(import.all[k].row) = Key(import.all[l].row)
    /\ import.from[import.all[k].id] # None

\* Batches are invisible: where an import ends the store is as if its
\* records had been taken one by one in their order, so no annotation is
\* dropped because its record met its like in the same batch, in another
\* batch or in the store.
BatchesInvisible ==
  import # None /\ import.left = <<>> /\ ~Shadowed =>
    import.staged = InOrder(import.mode, import.from, import.all)

\* A plain import that was cut off and is begun again ends where it would
\* have ended.
RestartsConverge ==
  [][import # None /\ import' = None /\ import.mode # "whole" /\ ~Shadowed =>
       InOrder(import.mode, store', import.all)
         = InOrder(import.mode, import.from, import.all)]_vars

\* What does not hold; see the README.

\* The same without exception.
BatchesAlwaysInvisible ==
  import # None /\ import.left = <<>> =>
    import.staged = InOrder(import.mode, import.from, import.all)

\* An export of the store, imported into an empty one, is all of the store.
RestoreIsComplete ==
  \A id \in Present(store) :
    Sound(store[id]) /\ Valid(store[id], Present(store))
=============================================================================
