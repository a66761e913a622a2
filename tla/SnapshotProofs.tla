--------------------------- MODULE SnapshotProofs ---------------------------
(***************************************************************************)
(* Imports through a manifest, for any records, attachments and number of  *)
(* exports, where exports and imports of one directory exclude each other. *)
(***************************************************************************)
EXTENDS Snapshot, TLAPS

DirShape == dir = [body |-> dir.body, attachments |-> dir.attachments,
                   manifest |-> dir.manifest]

\* A manifest that can be read is of an export that was finished, whatever
\* has become of the records beside it.
Listed == dir.manifest \notin {None, Torn} => dir.manifest.rows \in finished

Exclusive == import = None \/ export = None

\* What a verified import is about to load: the records that are there now
\* are those of a finished export.
Pending ==
  import # None =>
    \/ /\ import = [through |-> "manifest", of |-> dir.body, left |-> {}]
       /\ dir.body \in finished
    \/ import = [through |-> "records", left |-> import.left]

SnapshotInv ==
  /\ DirShape /\ Listed /\ Exclusive /\ Pending
  /\ ImportIsWhole /\ LineageIsLoaded

-----------------------------------------------------------------------------
\* There is neither a manifest nor an import at first.
LEMMA InitSnapshot == Init => SnapshotInv
BY DEF Init, SnapshotInv, DirShape, Listed, Exclusive, Pending,
       ImportIsWhole, LineageIsLoaded

\* Exporters, which find no import in progress, and what they leave.
LEMMA ExportKeeps ==
  ASSUME SnapshotInv, ~Together,
         \/ StartExport \/ OpenManifest \/ WriteManifest \/ ExporterDies
         \/ \E row \in Rows, copied \in BOOLEAN : WriteRow(row, copied)
  PROVE  SnapshotInv'
<1> USE DEF SnapshotInv, Exclusive, Pending, ImportIsWhole, LineageIsLoaded
<1>1. CASE StartExport
  BY <1>1 DEF StartExport, DirShape, Listed
<1>2. CASE OpenManifest
  BY <1>2 DEF OpenManifest, DirShape, Listed
<1>3. CASE WriteManifest
  BY <1>3 DEF WriteManifest, DirShape, Listed
<1>4. CASE ExporterDies
  BY <1>4 DEF ExporterDies, DirShape, Listed
<1>5. ASSUME NEW row \in Rows, NEW copied \in BOOLEAN, WriteRow(row, copied)
      PROVE  SnapshotInv'
  BY <1>5 DEF WriteRow, DirShape, Listed
<1> QED  BY <1>1, <1>2, <1>3, <1>4, <1>5

\* Importers: one that has verified the directory loads what it verified.
LEMMA ImportKeeps ==
  ASSUME SnapshotInv, ~Together,
         \/ VerifySnapshot \/ LoadVerified \/ StartPlain \/ ImporterDies
         \/ \E batch \in SUBSET Rows : FlushBatch(batch)
  PROVE  SnapshotInv'
<1> USE DEF SnapshotInv, Exclusive, Pending, ImportIsWhole, LineageIsLoaded
<1>1. CASE VerifySnapshot
  BY <1>1 DEF VerifySnapshot, Idle, Verified, Readable, SameRecords,
              DirShape, Listed
<1>2. CASE LoadVerified
  BY <1>2 DEF LoadVerified, TakesLineage, Valid, DirShape, Listed
<1>3. CASE StartPlain
  BY <1>3 DEF StartPlain, Idle, DirShape, Listed
<1>4. CASE ImporterDies
  BY <1>4 DEF ImporterDies, DirShape, Listed
<1>5. ASSUME NEW batch \in SUBSET Rows, FlushBatch(batch)
      PROVE  SnapshotInv'
  BY <1>5 DEF FlushBatch, Valid, DirShape, Listed
<1> QED  BY <1>1, <1>2, <1>3, <1>4, <1>5

\* Every step of the specification.
LEMMA NextKeepsSnapshot ==
  ASSUME ~Together PROVE SnapshotInv /\ [Next]_vars => SnapshotInv'
<1> SUFFICES ASSUME SnapshotInv, [Next]_vars PROVE SnapshotInv'
  OBVIOUS
<1>1. ASSUME NEW rows \in SUBSET Rows, Change(rows) PROVE SnapshotInv'
  BY <1>1 DEF Change, SnapshotInv, DirShape, Listed, Exclusive, Pending,
              ImportIsWhole, LineageIsLoaded
<1>2. CASE UNCHANGED vars
  BY <1>2 DEF vars, SnapshotInv, DirShape, Listed, Exclusive, Pending,
              ImportIsWhole, LineageIsLoaded
<1> QED  BY <1>1, <1>2, ExportKeeps, ImportKeeps DEF Next

\* verify_manifest compares the records with a manifest that is written last
\* and opened before it is written; so what an import loads through a
\* manifest is all of one finished export, however many exporters died over
\* the directory.
THEOREM ImportsAreWhole == ASSUME ~Together PROVE Spec => []ImportIsWhole
<1>1. Spec => []SnapshotInv
  BY InitSnapshot, NextKeepsSnapshot, PTL DEF Spec
<1> QED  BY <1>1, PTL DEF SnapshotInv

\* Clone lineage is taken of a finished export by a store that held nothing,
\* and its base state is what hydrate_v2 loaded, without what it skipped.
THEOREM LineagesAreLoaded == ASSUME ~Together PROVE Spec => []LineageIsLoaded
<1>1. Spec => []SnapshotInv
  BY InitSnapshot, NextKeepsSnapshot, PTL DEF Spec
<1> QED  BY <1>1, PTL DEF SnapshotInv
=============================================================================
