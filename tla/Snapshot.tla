------------------------------ MODULE Snapshot ------------------------------
(***************************************************************************)
(* Snapshot v2 directories and plain JSONL exports (hotmem/snapshot,       *)
(* hotmem/swap.py): files that are rewritten in place, exporters that may  *)
(* die between any two writes, and imports of whatever they left.          *)
(***************************************************************************)
EXTENDS Integers, FiniteSets

CONSTANTS
  Rows,      \* records as they are exported; digests tell them apart
  Attached,  \* those that refer to a small file, which is copied
  Invalid,   \* those that an import counts as invalid and skips
  None,      \* no manifest, no export, no import, no lineage
  Torn,      \* a manifest.json that was opened and not written
  Together,  \* the directory is exported to while it is imported from
  MaxExports \* bound: exports

VARIABLES
  store,    \* the rows of the exporting store
  dir,      \* the directory: records, attachments, manifest
  export,   \* the export that runs
  target,   \* the rows of the importing store
  import,   \* the import that runs
  lineage,  \* what the importing store took clone lineage of
  imported, \* history variable: the last import through a manifest
  finished  \* history variable: the exports that were finished

vars == <<store, dir, export, target, import, lineage, imported, finished>>

ASSUME SnapshotAssumption ==
  /\ Attached \subseteq Rows /\ Invalid \subseteq Rows
  /\ Together \in BOOLEAN
  /\ MaxExports \in Nat

Change(rows) ==
  /\ store' = rows
  /\ UNCHANGED <<dir, export, target, import, lineage, imported, finished>>

-----------------------------------------------------------------------------
(* write_snapshot_v2: records and attachments, then the manifest.          *)

\* memories.jsonl is opened, and truncated; the manifest stays.
StartExport ==
  /\ export = None /\ (import # None => Together)
  /\ Cardinality(finished) < MaxExports
  /\ export' = [rows |-> store, left |-> store, copied |-> {}, step |-> "rows"]
  /\ dir' = [dir EXCEPT !.body = {}]
  /\ UNCHANGED <<store, target, import, lineage, imported, finished>>

\* _copy_attachment: a file that is gone, cut short or changed is not copied,
\* and the record keeps its reference.
Copies(row) == IF row \in Attached THEN BOOLEAN ELSE {FALSE}

\* A record and its attachment.
WriteRow(row, copied) ==
  /\ export # None /\ row \in export.left /\ copied \in Copies(row)
  /\ dir' = [dir EXCEPT !.body = @ \cup {row},
                        !.attachments = IF copied THEN @ \cup {row} ELSE @]
  /\ export' = [export EXCEPT !.left = @ \ {row},
                              !.copied = IF copied THEN @ \cup {row} ELSE @]
  /\ UNCHANGED <<store, target, import, lineage, imported, finished>>

OpenManifest ==
  /\ export # None /\ export.step = "rows" /\ export.left = {}
  /\ dir' = [dir EXCEPT !.manifest = Torn]
  /\ export' = [export EXCEPT !.step = "manifest"]
  /\ UNCHANGED <<store, target, import, lineage, imported, finished>>

\* The manifest lists the digest of what was written and every file found
\* among the attachments.
WriteManifest ==
  /\ export # None /\ export.step = "manifest"
  /\ dir' = [dir EXCEPT !.manifest = [rows |-> export.rows,
                                      refs |-> export.copied,
                                      attachments |-> dir.attachments]]
  /\ finished' = finished \cup {export.rows}
  /\ export' = None
  /\ UNCHANGED <<store, target, import, lineage, imported>>

ExporterDies ==
  /\ export # None /\ export' = None
  /\ UNCHANGED <<store, dir, target, import, lineage, imported, finished>>

-----------------------------------------------------------------------------
(* Imports.  A daemon exports and imports in its one write slot.           *)

\* Mutant: sizes are compared, digests are not.
Verified_Sized(d) ==
  /\ d.manifest \notin {None, Torn}
  /\ Cardinality(d.manifest.rows) = Cardinality(d.body)
  /\ d.manifest.refs \subseteq d.manifest.attachments
  /\ d.manifest.attachments \subseteq d.attachments

\* Manifest.from_dict: JSON of every field and of the right types.
Readable(d) == d.manifest \notin {None, Torn}

\* The digest, the number and the snapshot id of the records.
SameRecords(d) == d.manifest.rows = d.body

\* Every file that is listed, and listed for every reference to one.
AttachmentsThere(d) ==
  /\ d.manifest.refs \subseteq d.manifest.attachments
  /\ d.manifest.attachments \subseteq d.attachments

\* verify_manifest
Verified(d) == Readable(d) /\ SameRecords(d) /\ AttachmentsThere(d)

\* Mutant: lineage is recorded whatever the store held.
TakesLineage_Any(rows) == TRUE

\* Clone lineage is for a store that held nothing.  (The code also asks that
\* it has logged no event, which only an import of no row has here.)
TakesLineage(rows) == rows = {}

Valid(rows) == rows \ Invalid

Idle == import = None /\ (export # None => Together)

\* hydrate of a directory with a manifest (hydrate_v2): verified first,
VerifySnapshot ==
  /\ Idle /\ Verified(dir)
  /\ import' = [through |-> "manifest", of |-> dir.manifest.rows, left |-> {}]
  /\ UNCHANGED <<store, dir, export, target, lineage, imported, finished>>

\* then read again and loaded, but for records that are not objects, have
\* bad annotations or fail validation, in one transaction with the lineage:
\* the snapshot with its cursor, and the fingerprint of all rows it now has.
LoadVerified ==
  /\ import # None /\ import.through = "manifest"
  /\ target' = target \cup Valid(dir.body)
  /\ lineage' = IF TakesLineage(target)
                THEN [of |-> import.of, state |-> target'] ELSE lineage
  /\ imported' = dir.body
  /\ import' = None
  /\ UNCHANGED <<store, dir, export, finished>>

\* hydrate of records without a manifest (swap.hydrate): batch by batch,
\* each its own transaction.
StartPlain ==
  /\ Idle /\ dir.manifest = None /\ dir.body # {}
  /\ import' = [through |-> "records", left |-> dir.body]
  /\ UNCHANGED <<store, dir, export, target, lineage, imported, finished>>

FlushBatch(batch) ==
  /\ import # None /\ batch # {} /\ batch \subseteq import.left
  /\ target' = target \cup Valid(batch)
  /\ import' = IF batch = import.left THEN None
               ELSE [import EXCEPT !.left = @ \ batch]
  /\ UNCHANGED <<store, dir, export, lineage, imported, finished>>

ImporterDies ==
  /\ import # None /\ import' = None
  /\ UNCHANGED <<store, dir, export, target, lineage, imported, finished>>

-----------------------------------------------------------------------------
Init ==
  /\ store \in SUBSET Rows
  /\ dir = [body |-> {}, attachments |-> {}, manifest |-> None]
  /\ export = None /\ import = None
  /\ target = {} /\ lineage = None /\ imported = None
  /\ finished = {}

Next ==
  \/ \E rows \in SUBSET Rows : Change(rows)
  \/ StartExport \/ OpenManifest \/ WriteManifest \/ ExporterDies
  \/ \E row \in Rows, copied \in BOOLEAN : WriteRow(row, copied)
  \/ VerifySnapshot \/ LoadVerified \/ StartPlain \/ ImporterDies
  \/ \E batch \in SUBSET Rows : FlushBatch(batch)

Spec == Init /\ [][Next]_vars

-----------------------------------------------------------------------------
(* Properties.                                                             *)

\* An import through a manifest is all of one finished export, however many
\* exporters died over the directory before.
ImportIsWhole == imported # None => imported \in finished

\* A store takes the clone lineage of a finished export, and only when it
\* held nothing before, not even a part of a plain import; the state that
\* the lineage records, against which its divergence is judged, is then what
\* can be loaded of that export, the records that were skipped left out.
LineageIsLoaded ==
  lineage # None => /\ lineage.of \in finished
                    /\ lineage.state = Valid(lineage.of)

\* What does not hold; see the README.

\* A clone holds all of the export whose replay cursor it has taken.
CloneIsWhole == lineage # None => lineage.state = lineage.of

\* A directory whose first export was cut off is not mistaken for one.
NothingCutOff ==
  (import # None /\ import.through = "records") => dir.body \in finished

\* The manifest lists the attachments of its own records.
OwnAttachments ==
  dir.manifest \notin {None, Torn}
    => dir.manifest.attachments = dir.manifest.refs
=============================================================================
