------------------------------- MODULE Exchange -------------------------------
(***************************************************************************)
(* Two stores that exchange packages and deltas through directories        *)
(* (hotmem/interchange/{package,hydrate,delta}.py, hotmem/fsutil.py).      *)
(*                                                                         *)
(* The source publishes packages (whole clones) and deltas (the difference *)
(* between a package and its rows now) with atomic_publish, whose renames  *)
(* are separate steps between which the publisher can die.  The receiver   *)
(* verifies what it finds in a directory and then reads it again to apply  *)
(* it, in one SQLite transaction.  Nothing orders the two: a delta may     *)
(* never be looked at, be applied twice, or be applied after a later one.  *)
(***************************************************************************)
EXTENDS Integers, FiniteSets

CONSTANTS
  Ids,          \* record ids, numbers because operations are sorted by id
  Contents,     \* contents: identifier and text, hence content_hash
  Metas,        \* values of the other fingerprinted fields
  None,         \* an absent row, artifact, job or checkpoint
  Unusable,     \* contents validate_record refuses (hotmem add --ttl 0)
  PackageDirs,  \* directories packages are published to
  DeltaDirs,    \* directories deltas are published to
  Encoding,     \* what is published to each directory: "plain", or "gz", a
                \* payload that is spooled when it is verified
  MaxEdits,     \* bound: changes made at the source
  MaxLocal,     \* bound: changes made at the receiver
  MaxReleases,  \* bound: artifacts published
  SourceDeletes,  \* the source removes records, not only adds and changes
  OverwriteInUse  \* a directory is published to while its plain payload is
                  \* being read

VARIABLES
  source,      \* rows of the source
  target,      \* the receiver: rows, its last checkpoint, what it follows
  disk,        \* the directories, and what atomic_publish moved aside
  publishing,  \* the publish in progress
  reading,     \* the artifact the receiver has verified
  applying,    \* the transaction that applies a delta: the operations of the
               \* payload, those still to come, the rows so far
  released,    \* history variable: every artifact that reached its place
  edits, local \* the changes made so far

vars ==
  <<source, target, disk, publishing, reading, applying, released, edits, local>>

-----------------------------------------------------------------------------
\* record_fingerprint covers all of a row but its id: the row stands for it.
Row == [content : Contents, meta : Metas]
Rows == [Ids -> Row \cup {None}]

Dirs == PackageDirs \cup DeltaDirs

Present(rows) == {x \in Ids : rows[x] # None}
State(rows) == {rows[x] : x \in Present(rows)}
HolderOf(rows, content) ==
  {x \in Present(rows) : rows[x].content = content}

\* idx_memories_content_hash_unique, in the one namespace there is here.
Fits(rows, x, r) == HolderOf(rows, r.content) \subseteq {x}

Empty == [x \in Ids |-> None]

\* A package holds all rows; logical_id is a digest of their contents.
Package == [kind : {"package"}, rows : Rows]
LogicalId(p) == {p.rows[x].content : x \in Present(p.rows)}

\* An operation: the fingerprint it expects (None: no such record) and the
\* record it leaves.
Op == [id : Ids, pre : Row \cup {None}, post : Row]

Delta == [kind   : {"delta"},
          ops    : SUBSET Op,
          base   : SUBSET Contents,    \* logical_id of the base package
          result : SUBSET Row,         \* resulting_state_fingerprint
          from   : Rows, to : Rows]    \* history: the base and the source

Artifact == Package \cup Delta

\* A row of sync_checkpoints.  delta_digest is the digest of the payload in
\* the manifest, which stands for the operations.
Checkpoint == [base : SUBSET Contents, digest : SUBSET Op,
               result : SUBSET Row,
               read : SUBSET Op]       \* history: the operations applied

ASSUME ExchangeAssumption ==
  /\ Ids \subseteq Int /\ IsFiniteSet(Ids)
  /\ None \notin Row /\ None \notin Rows
  /\ None \notin Artifact /\ None \notin Checkpoint
  /\ Unusable \subseteq Contents
  /\ PackageDirs \cap DeltaDirs = {}
  /\ Encoding \in [Dirs -> {"plain", "gz"}]
  /\ MaxEdits \in Nat /\ MaxLocal \in Nat /\ MaxReleases \in Nat
  /\ SourceDeletes \in BOOLEAN /\ OverwriteInUse \in BOOLEAN

Init ==
  /\ source = Empty
  /\ target = [rows |-> Empty, last |-> None, follows |-> None]
  /\ disk = [d \in Dirs |-> [final |-> None, kept |-> {}]]
  /\ publishing = None /\ reading = None /\ applying = None
  /\ released = {}
  /\ edits = 0 /\ local = 0

-----------------------------------------------------------------------------
(* The source, and the artifacts it publishes.                             *)

\* Adding, changing and removing a record, its content included.
EditSource(x) ==
  /\ edits < MaxEdits /\ edits' = edits + 1      \* bound
  /\ \E r \in Row \cup {None} :
       /\ r # source[x]
       /\ IF r = None THEN SourceDeletes ELSE Fits(source, x, r)
       /\ source' = [source EXCEPT ![x] = r]
  /\ UNCHANGED <<target, disk, publishing, reading, applying, released, local>>

MayPublish(dir) ==
  /\ publishing = None
  /\ Cardinality(released) < MaxReleases         \* bound
  /\ ~OverwriteInUse /\ reading # None =>
       reading.dir # dir \/ Encoding[dir] = "gz"

\* write_package up to fsync_dir(staging): the rows as they are now.
WritePackage(dir) ==
  /\ MayPublish(dir)
  /\ publishing' = [dir |-> dir, step |-> "staged", backup |-> None,
                    art |-> [kind |-> "package", rows |-> source]]
  /\ UNCHANGED <<source, target, disk, reading, applying, released, edits, local>>

\* verify_package: with a replay cursor in the manifest, which a package
\* has, the state fingerprint is recomputed over the valid records only.
Verifies(p) == \A x \in Present(p.rows) : p.rows[x].content \notin Unusable

\* Mutant: a record whose content is unchanged is taken for unchanged.
Difference_ContentOnly(base, now) ==
  {[id |-> x, pre |-> base[x], post |-> now[x]] :
     x \in {y \in Present(now) : \/ base[y] = None
                                 \/ base[y].content # now[y].content}}

\* The upserts of produce_delta.  What the base has and the source has not
\* is counted and left out.
Difference(base, now) ==
  {[id |-> x, pre |-> base[x], post |-> now[x]] :
     x \in {y \in Present(now) : base[y] # now[y]}}

\* produce_delta up to fsync_dir(staging).
ProduceDelta(baseDir, dir) ==
  /\ MayPublish(dir)
  /\ LET base == disk[baseDir].final
     IN  /\ base # None /\ Verifies(base)
         /\ publishing' =
              [dir |-> dir, step |-> "staged", backup |-> None,
               art |-> [kind   |-> "delta",
                        ops    |-> Difference(base.rows, source),
                        base   |-> LogicalId(base),
                        result |-> State(source),
                        from   |-> base.rows, to |-> source]]
  /\ UNCHANGED <<source, target, disk, reading, applying, released, edits, local>>

\* Mutant: the old artifact is removed before the new one is in place.
MoveAside_Removes ==
  /\ publishing # None /\ publishing.step = "staged"
  /\ publishing' = [publishing EXCEPT !.step = "aside"]
  /\ disk' = [disk EXCEPT ![publishing.dir].final = None]
  /\ UNCHANGED <<source, target, reading, applying, released, edits, local>>

\* atomic_publish: what is in the directory is moved aside ...
MoveAside ==
  /\ publishing # None /\ publishing.step = "staged"
  /\ LET dir == publishing.dir
         old == disk[dir].final
     IN  /\ publishing' = [publishing EXCEPT !.step = "aside", !.backup = old]
         /\ disk' = IF old = None THEN disk
                    ELSE [disk EXCEPT ![dir].final = None,
                                      ![dir].kept = @ \cup {old}]
  /\ UNCHANGED <<source, target, reading, applying, released, edits, local>>

\* ... the staged directory takes its place, and the backup is removed.
MoveIn ==
  /\ publishing # None /\ publishing.step = "aside"
  /\ disk' = [disk EXCEPT ![publishing.dir] =
                [final |-> publishing.art, kept |-> @.kept \ {publishing.backup}]]
  /\ released' = released \cup {publishing.art}
  /\ publishing' = None
  /\ UNCHANGED <<source, target, reading, applying, edits, local>>

\* The second rename fails: the old artifact is put back.
MoveInFails ==
  /\ publishing # None /\ publishing.step = "aside"
  /\ disk' = [disk EXCEPT ![publishing.dir] =
                [final |-> publishing.backup,
                 kept  |-> @.kept \ {publishing.backup}]]
  /\ publishing' = None
  /\ UNCHANGED <<source, target, reading, applying, released, edits, local>>

\* The publisher dies and leaves the directories as they are: the backup
\* stays, under a name nothing looks at.
PublisherDies ==
  /\ publishing # None /\ publishing' = None
  /\ UNCHANGED <<source, target, disk, reading, applying, released, edits, local>>

-----------------------------------------------------------------------------
(* The receiver.                                                           *)

\* A write of the receiver's own; the transaction of a delta excludes it.
EditTarget(x) ==
  /\ local < MaxLocal /\ local' = local + 1      \* bound
  /\ applying = None
  /\ \E r \in Row \cup {None} :
       /\ r # target.rows[x]
       /\ r # None => Fits(target.rows, x, r)
       /\ target' = [target EXCEPT !.rows[x] = r, !.follows = None]
  /\ UNCHANGED <<source, disk, publishing, reading, applying, released, edits>>

\* verify_package and verify_delta accept what is in the directory.
Verify(dir) ==
  /\ reading = None
  /\ LET art == disk[dir].final
     IN  /\ art # None
         /\ art.kind = "package" => Verifies(art)
         /\ ~OverwriteInUse /\ publishing # None =>
              publishing.dir # dir \/ Encoding[dir] = "gz"
         /\ reading' = [dir |-> dir, art |-> art]
  /\ UNCHANGED <<source, target, disk, publishing, applying, released, edits, local>>

\* Mutant: the verified copy is not kept.
Payload_FromDisk == disk[reading.dir].final

\* VerifiedDelta.stream and VerifiedPackage.stream: the spooled copy of a gz
\* payload, the file in the directory, as it is now, of a plain one.
Payload == IF Encoding[reading.dir] = "gz" THEN reading.art
           ELSE disk[reading.dir].final

\* hydrate_package: a record whose id or content the store has is skipped.
LoadPackage ==
  /\ reading # None /\ reading.art.kind = "package" /\ Payload # None
  /\ LET new  == {x \in Present(Payload.rows) :
                    /\ Payload.rows[x].content \notin Unusable
                    /\ target.rows[x] = None
                    /\ HolderOf(target.rows, Payload.rows[x].content) = {}}
         rows == [x \in Ids |-> IF x \in new THEN Payload.rows[x]
                                ELSE target.rows[x]]
     IN  target' = [target EXCEPT
                      !.rows = rows,
                      !.follows = IF rows = Payload.rows THEN rows ELSE None]
  /\ reading' = None
  /\ UNCHANGED <<source, disk, publishing, applying, released, edits, local>>

\* apply_delta streams the payload from its beginning.
OpenDelta ==
  /\ reading # None /\ reading.art.kind = "delta" /\ Payload # None
  /\ applying = None
  /\ applying' = [ops |-> Payload.ops, left |-> Payload.ops,
                  rows |-> target.rows]
  /\ UNCHANGED <<source, target, disk, publishing, reading, released, edits, local>>

\* Mutant: a record that is not the one expected is overwritten.
Admissible_Overwrites(rows, op) ==
  rows[op.id] = op.post \/ Fits(rows, op.id, op.post)

\* An operation against the rows as the ones before it left them: already
\* applied, or the record is the one expected, the new one is valid and no
\* other id holds its content.
Admissible(rows, op) ==
  \/ rows[op.id] = op.post
  \/ /\ rows[op.id] = op.pre
     /\ op.post.content \notin Unusable
     /\ Fits(rows, op.id, op.post)

\* The next line of the payload, which is in the order of ids.
IsNext(op) == /\ op \in applying.left
              /\ \A other \in applying.left : op.id <= other.id

ApplyOperation ==
  /\ applying # None
  /\ \E op \in applying.left :
       /\ IsNext(op) /\ Admissible(applying.rows, op)
       /\ applying' = [applying EXCEPT !.left = @ \ {op},
                                       !.rows[op.id] = op.post]
  /\ UNCHANGED <<source, target, disk, publishing, reading, released, edits, local>>

\* A conflict: the rest is read for the report alone, then everything is
\* rolled back.
Conflict ==
  /\ applying # None
  /\ \E op \in applying.left : IsNext(op) /\ ~Admissible(applying.rows, op)
  /\ applying' = None /\ reading' = None
  /\ UNCHANGED <<source, target, disk, publishing, released, edits, local>>

\* The rows, the checkpoint and the receipt commit together.
CommitDelta ==
  /\ applying # None /\ applying.left = {}
  /\ LET delta == reading.art
     IN  target' = [rows |-> applying.rows,
                    last |-> [base |-> delta.base, digest |-> delta.ops,
                              result |-> delta.result, read |-> applying.ops],
                    follows |-> IF target.follows \in {delta.from, delta.to}
                                THEN delta.to ELSE None]
  /\ applying' = None /\ reading' = None
  /\ UNCHANGED <<source, disk, publishing, released, edits, local>>

\* The receiver dies, or finds no payload: the transaction is rolled back.
ReceiverDies ==
  /\ reading # None /\ reading' = None /\ applying' = None
  /\ UNCHANGED <<source, target, disk, publishing, released, edits, local>>

-----------------------------------------------------------------------------
Next ==
  \/ \E x \in Ids : EditSource(x) \/ EditTarget(x)
  \/ \E dir \in PackageDirs : WritePackage(dir)
  \/ \E base \in PackageDirs, dir \in DeltaDirs : ProduceDelta(base, dir)
  \/ MoveAside \/ MoveIn \/ MoveInFails \/ PublisherDies
  \/ \E dir \in Dirs : Verify(dir)
  \/ LoadPackage \/ OpenDelta \/ ApplyOperation \/ Conflict \/ CommitDelta
  \/ ReceiverDies

Spec == Init /\ [][Next]_vars

-----------------------------------------------------------------------------
(* Properties.                                                             *)

\* The types, and the unique index both stores rely on.
TypeOK ==
  /\ source \in Rows /\ target.rows \in Rows
  /\ \A c \in Contents : Cardinality(HolderOf(target.rows, c)) <= 1
  /\ target.last \in Checkpoint \cup {None}
  /\ target.follows \in Rows \cup {None}
  /\ publishing # None => publishing.dir \in Dirs
  /\ reading # None => reading.dir \in Dirs
  /\ applying # None => reading # None /\ applying.rows \in Rows
  /\ edits \in 0..MaxEdits /\ local \in 0..MaxLocal

\* Rows change by the receiver's own edits, by records of a package it does
\* not hold, or by one released delta as a whole (delta-v1 section 6): a
\* conflict in the middle, a crash, a reordered or repeated delivery never
\* leaves part of a delta behind or overwrites a record it did not expect.
Whole == INSTANCE WholeUpdates
  WITH held <- target.rows,
       deltas <- {d.ops : d \in {a \in released : a.kind = "delta"}},
       packages <- {p.rows : p \in {a \in released : a.kind = "package"}}
WholeDeltas == Whole!Spec

\* A receiver that was loaded from a package and has applied, in order, each
\* delta made from the state it was at holds the source's records as they
\* were when the last one was made (delta-v1 section 11, base + deltas);
\* what the source removed it keeps (section 7).
BasePlusDeltas ==
  target.follows # None =>
    \A x \in Present(target.follows) : target.rows[x] = target.follows[x]

\* The checkpoint names the operations that were applied: what verify_delta
\* read is what apply_delta streams.
CheckpointNamesPayload ==
  target.last # None => target.last.digest = target.last.read

\* A publish that fails or dies never destroys the previous artifact
\* (fsutil.py): it is in its place or kept beside it.
ArtifactSurvives ==
  [][\A dir \in Dirs :
       (disk[dir].final # None \/ disk[dir].kept # {})
         => (disk'[dir].final # None \/ disk'[dir].kept # {})]_vars

\* What the documents say and the code does not do; see the README.

\* Section 3: a receiver that applies a delta holds the resulting state the
\* delta names.  For sources that remove nothing and receivers without
\* edits of their own.
CheckpointIsState ==
  [][target'.last # target.last /\ local = 0 /\ ~SourceDeletes
       => State(target'.rows) = target'.last.result]_vars

\* Section 6, rule 2: a receiver whose records are those of the base applies
\* the delta.
AppliesAtBase ==
  [][Conflict => target.rows # reading.art.from]_vars

=============================================================================
