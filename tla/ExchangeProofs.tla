---------------------------- MODULE ExchangeProofs ----------------------------
(* What two stores that exchange packages and deltas can rely on, for any  *)
(* records, directories and bounds.                                        *)
EXTENDS Exchange, FiniteSetTheorems, TLAPS

USE ExchangeAssumption

-----------------------------------------------------------------------------
(* The inductive invariant.                                                *)

\* No two rows hold the same content.
Unique(rows) ==
  \A x, y \in Present(rows) : rows[x].content = rows[y].content => x = y

\* A table of rows as the unique index keeps it.
Table == {rows \in Rows : Unique(rows)}

\* What the source may publish to a directory.
PackageArt == {p \in Package : p.rows \in Table}
DeltaArt == {d \in Delta : /\ d.from \in Table /\ d.to \in Table
                           /\ d.ops = Difference(d.from, d.to)}
Publishable(dir) == IF dir \in PackageDirs THEN PackageArt ELSE DeltaArt

SourceInv == source \in Table

\* What a directory holds, at its place or aside, was released there.
DiskInv ==
  /\ disk \in [Dirs -> [final : Artifact \cup {None}, kept : SUBSET Artifact]]
  /\ \A dir \in Dirs :
       /\ disk[dir].final # None =>
            disk[dir].final \in released \cap Publishable(dir)
       /\ disk[dir].kept \subseteq released
  /\ released \subseteq PackageArt \cup DeltaArt

\* While a directory is being replaced its place is empty.
PublishInv ==
  publishing # None =>
    /\ publishing \in [dir : Dirs, step : {"staged", "aside"},
                       backup : Artifact \cup {None}, art : Artifact]
    /\ publishing.art \in Publishable(publishing.dir)
    /\ publishing.backup # None =>
         publishing.backup \in released \cap Publishable(publishing.dir)
    /\ publishing.step = "aside" => disk[publishing.dir].final = None

\* The receiver reads what was released to the directory; where nothing is
\* published to a directory that is being read, it is what is there.
ReadInv ==
  reading # None =>
    /\ reading \in [dir : Dirs, art : Artifact]
    /\ reading.art \in released \cap Publishable(reading.dir)
    /\ ~OverwriteInUse /\ Encoding[reading.dir] # "gz" =>
         /\ disk[reading.dir].final = reading.art
         /\ publishing # None => publishing.dir # reading.dir

TargetInv ==
  /\ target \in [rows : Table, last : Checkpoint \cup {None},
                 follows : Table \cup {None}]

\* What a transaction has done so far: the operations that are no longer to
\* come have been applied to records as they expect them.
Done(op) == op \in applying.ops \ applying.left
ApplyInv ==
  applying # None =>
    /\ applying \in [ops : SUBSET Op, left : SUBSET Op, rows : Table]
    /\ reading # None /\ reading.art \in DeltaArt
    /\ \E d \in released \cap DeltaArt : applying.ops = d.ops
    /\ applying.left \subseteq applying.ops
    /\ \A op \in applying.ops :
         Done(op) => /\ target.rows[op.id] \in {op.pre, op.post}
                     /\ applying.rows[op.id] = op.post
    /\ \A x \in Ids : (\A op \in applying.ops : Done(op) => op.id # x)
         => applying.rows[x] = target.rows[x]

CountInv == edits \in 0..MaxEdits /\ local \in 0..MaxLocal

IInv == /\ SourceInv /\ DiskInv /\ PublishInv /\ ReadInv
        /\ TargetInv /\ ApplyInv /\ CountInv

-----------------------------------------------------------------------------
(* Tables of rows.                                                         *)

LEMMA EmptyIsTable == Empty \in Table
BY DEF Empty, Table, Rows, Unique, Present

LEMMA PutKeepsTable ==
  ASSUME NEW rows \in Table, NEW x \in Ids, NEW r \in Row, Fits(rows, x, r)
  PROVE  [rows EXCEPT ![x] = r] \in Table
<1> DEFINE new == [rows EXCEPT ![x] = r]
<1>1. new \in Rows /\ new[x] = r /\ \A y \in Ids \ {x} : new[y] = rows[y]
  BY DEF Table, Rows
<1>2. ASSUME NEW y \in Present(new), NEW z \in Present(new),
             new[y].content = new[z].content
      PROVE  y = z
  <2>1. CASE y # x /\ z # x
    BY <1>1, <1>2, <2>1 DEF Table, Unique, Present
  <2>2. CASE y = x /\ z # x
    BY <1>1, <1>2, <2>2 DEF Fits, HolderOf, Present
  <2>3. CASE y # x /\ z = x
    BY <1>1, <1>2, <2>3 DEF Fits, HolderOf, Present
  <2> QED
    BY <2>1, <2>2, <2>3
<1> QED
  BY <1>1, <1>2 DEF Table, Unique

LEMMA RemoveKeepsTable ==
  ASSUME NEW rows \in Table, NEW x \in Ids
  PROVE  [rows EXCEPT ![x] = None] \in Table
BY DEF Table, Rows, Unique, Present

LEMMA PresentIsRow ==
  ASSUME NEW rows \in Table, NEW x \in Present(rows)
  PROVE  x \in Ids /\ rows[x] \in Row /\ rows[x].content \in Contents
BY DEF Table, Rows, Present, Row

\* What loading a package leaves.
Loaded(rows, p) ==
  LET new == {x \in Present(p) : /\ p[x].content \notin Unusable
                                 /\ rows[x] = None
                                 /\ HolderOf(rows, p[x].content) = {}}
  IN  [x \in Ids |-> IF x \in new THEN p[x] ELSE rows[x]]

LEMMA LoadedIsTable ==
  ASSUME NEW rows \in Table, NEW p \in Table
  PROVE  /\ Loaded(rows, p) \in Table
         /\ \A x \in Ids : \/ Loaded(rows, p)[x] = rows[x]
                           \/ rows[x] = None /\ Loaded(rows, p)[x] = p[x]
<1> DEFINE new == {x \in Present(p) : /\ p[x].content \notin Unusable
                                      /\ rows[x] = None
                                      /\ HolderOf(rows, p[x].content) = {}}
           all == Loaded(rows, p)
<1>1. /\ all \in Rows
      /\ \A x \in Ids : all[x] = IF x \in new THEN p[x] ELSE rows[x]
  BY DEF Loaded, Table, Rows, Present
<1>0. /\ new \subseteq Present(p) /\ new \subseteq Ids /\ Unique(p)
      /\ \A x \in new : rows[x] = None /\ HolderOf(rows, p[x].content) = {}
  BY DEF Table, Present
<1>3. Unique(rows) /\ Present(all) \subseteq Ids
  BY DEF Table, Present
<1> HIDE DEF new, all
<1>2. ASSUME NEW y \in Present(all), NEW z \in Present(all),
             all[y].content = all[z].content
      PROVE  y = z
  <2>1. CASE y \in new /\ z \in new
    BY <1>0, <1>1, <1>2, <1>3, <2>1 DEF Unique
  <2>2. ASSUME NEW u \in Present(all), NEW v \in Present(all),
               u \in new, v \notin new, all[u].content = all[v].content
        PROVE  FALSE
    <3>1. all[u] = p[u] /\ all[v] = rows[v] /\ v \in Ids /\ rows[v] # None
      BY <1>1, <1>3, <2>2 DEF Present
    <3>2. v \in HolderOf(rows, p[u].content)
      BY <2>2, <3>1, <1>0 DEF HolderOf, Present
    <3> QED
      BY <1>0, <2>2, <3>2
  <2>3. y \in new <=> z \in new
    BY <1>2, <2>2
  <2>4. CASE y \notin new /\ z \notin new
    BY <1>1, <1>2, <1>3, <2>4 DEF Unique, Present
  <2> QED
    BY <2>1, <2>3, <2>4
<1> QED
  BY <1>0, <1>1, <1>2 DEF Table, Unique, all

\* The operations of a delta: at most one of a record, and they lead from the
\* rows they were computed from to the rows they were computed for.
LEMMA DifferenceOps ==
  ASSUME NEW from \in Table, NEW to \in Table
  PROVE  /\ Difference(from, to) \subseteq Op
         /\ \A a, b \in Difference(from, to) : a.id = b.id => a = b
         /\ \A op \in Difference(from, to) :
              op.pre = from[op.id] /\ op.post = to[op.id]
         /\ \A x \in Present(to) : from[x] # to[x] =>
              \E op \in Difference(from, to) : op.id = x
<1> DEFINE changed == {x \in Present(to) : from[x] # to[x]}
           op(x) == [id |-> x, pre |-> from[x], post |-> to[x]]
<1>1. Difference(from, to) = {op(x) : x \in changed}
  BY DEF Difference
<1>2. \A x \in changed : op(x) \in Op
  BY DEF Op, Table, Rows, Present
<1>3. \A x : op(x).id = x /\ op(x).pre = from[x] /\ op(x).post = to[x]
  OBVIOUS
<1> HIDE DEF op
<1> QED
  BY <1>1, <1>2, <1>3

LEMMA StateTyped ==
  ASSUME NEW rows \in Table
  PROVE  State(rows) \subseteq Row
BY PresentIsRow DEF State

LEMMA LogicalIdTyped ==
  ASSUME NEW p \in PackageArt
  PROVE  LogicalId(p) \subseteq Contents
BY PresentIsRow DEF LogicalId, PackageArt

LEMMA Kinds ==
  /\ \A p \in PackageArt : p.kind = "package" /\ p.rows \in Table /\ p \in Artifact
  /\ \A d \in DeltaArt : /\ d.kind = "delta" /\ d.from \in Table /\ d.to \in Table
                         /\ d.ops = Difference(d.from, d.to) /\ d \in Artifact
                         /\ d.ops \in SUBSET Op /\ d.base \in SUBSET Contents
                         /\ d.result \in SUBSET Row
BY DEF PackageArt, DeltaArt, Package, Delta, Artifact

\* A delta of a directory of deltas, a package of one of packages.
LEMMA KindOfDir ==
  ASSUME NEW dir \in Dirs, NEW art \in Publishable(dir)
  PROVE  /\ art \in PackageArt \cup DeltaArt
         /\ art # None
         /\ art.kind = "package" => art \in PackageArt /\ dir \in PackageDirs
         /\ art.kind = "delta" => art \in DeltaArt /\ dir \notin PackageDirs
BY Kinds DEF Publishable

-----------------------------------------------------------------------------
(* Every step of the source and its publisher preserves the invariant.     *)

LEMMA InvInit == Init => IInv
<1> SUFFICES ASSUME Init PROVE IInv
  OBVIOUS
<1>1. SourceInv /\ TargetInv /\ CountInv
  BY EmptyIsTable DEF Init, SourceInv, TargetInv, CountInv
<1>2. DiskInv
  BY DEF Init, DiskInv
<1> QED
  BY <1>1, <1>2 DEF Init, IInv, PublishInv, ReadInv, ApplyInv

\* What is left alone stays as it was.
LEMMA SameTarget ==
  ASSUME TargetInv, UNCHANGED target
  PROVE  TargetInv'
BY DEF TargetInv

LEMMA SameApply ==
  ASSUME ApplyInv, UNCHANGED <<target, applying, reading>>,
         released \subseteq released'
  PROVE  ApplyInv'
<1> SUFFICES ASSUME applying # None PROVE ApplyInv'
  BY DEF ApplyInv
<1> QED
  BY DEF ApplyInv, Done

LEMMA SamePublish ==
  ASSUME PublishInv, UNCHANGED <<publishing, disk, released>>
  PROVE  PublishInv'
BY DEF PublishInv

LEMMA SameDisk ==
  ASSUME DiskInv, UNCHANGED <<disk, released>>
  PROVE  DiskInv'
BY DEF DiskInv

LEMMA SameRead ==
  ASSUME ReadInv, UNCHANGED <<reading, disk, publishing, released>>
  PROVE  ReadInv'
BY DEF ReadInv

LEMMA InvEditSource ==
  ASSUME IInv, NEW x \in Ids, EditSource(x)
  PROVE  IInv'
<1>1. PICK r \in Row \cup {None} :
        /\ r # None => Fits(source, x, r)
        /\ source' = [source EXCEPT ![x] = r]
  BY DEF EditSource
<1>2. SourceInv'
  BY <1>1, PutKeepsTable, RemoveKeepsTable DEF IInv, SourceInv
<1>3. CountInv'
  BY DEF IInv, CountInv, EditSource
<1> QED
  BY <1>2, <1>3, SameTarget, SameApply, SamePublish, SameDisk, SameRead
     DEF IInv, EditSource

\* A publish begins with an artifact that may be published there.
LEMMA InvBegin ==
  ASSUME IInv, NEW dir \in Dirs, NEW art \in Publishable(dir), MayPublish(dir),
         publishing' = [dir |-> dir, step |-> "staged", backup |-> None, art |-> art],
         UNCHANGED <<source, target, disk, reading, applying, released, edits, local>>
  PROVE  IInv'
<1>1. art \in Artifact
  BY KindOfDir, Kinds
<1>2. PublishInv'
  BY <1>1 DEF PublishInv
<1>3. ReadInv'
  BY DEF IInv, ReadInv, MayPublish
<1>4. SourceInv' /\ CountInv'
  BY DEF IInv, SourceInv, CountInv
<1> QED
  BY <1>2, <1>3, <1>4, SameTarget, SameApply, SameDisk DEF IInv

LEMMA InvWritePackage ==
  ASSUME IInv, NEW dir \in PackageDirs, WritePackage(dir)
  PROVE  IInv'
<1> DEFINE art == [kind |-> "package", rows |-> source]
<1>1. dir \in Dirs /\ art \in Publishable(dir)
  BY DEF IInv, SourceInv, Publishable, PackageArt, Package, Table, Dirs
<1> QED
  BY <1>1, InvBegin DEF WritePackage

LEMMA InvProduceDelta ==
  ASSUME IInv, NEW baseDir \in PackageDirs, NEW dir \in DeltaDirs,
         ProduceDelta(baseDir, dir)
  PROVE  IInv'
<1> DEFINE base == disk[baseDir].final
           art == [kind   |-> "delta",
                   ops    |-> Difference(base.rows, source),
                   base   |-> LogicalId(base),
                   result |-> State(source),
                   from   |-> base.rows, to |-> source]
<1>1. dir \in Dirs /\ dir \notin PackageDirs /\ baseDir \in Dirs
  BY DEF Dirs
<1>2. base \in PackageArt
  BY <1>1 DEF ProduceDelta, IInv, DiskInv, Publishable
<1>3. base.rows \in Table /\ source \in Table
  BY <1>2, Kinds DEF IInv, SourceInv
<1>4. art \in DeltaArt
  BY <1>2, <1>3, DifferenceOps, LogicalIdTyped, StateTyped
     DEF DeltaArt, Delta, Table
<1>5. art \in Publishable(dir)
  BY <1>1, <1>4 DEF Publishable
<1> QED
  BY <1>1, <1>5, InvBegin DEF ProduceDelta

LEMMA InvMoveAside ==
  ASSUME IInv, MoveAside
  PROVE  IInv'
<1> DEFINE dir == publishing.dir
           old == disk[dir].final
<1>1. /\ publishing # None /\ publishing.step = "staged" /\ dir \in Dirs
      /\ publishing.art \in Publishable(dir)
      /\ publishing \in [dir : Dirs, step : {"staged", "aside"},
                         backup : Artifact \cup {None}, art : Artifact]
  BY DEF MoveAside, IInv, PublishInv
<1>2. old # None => old \in released \cap Publishable(dir) /\ old \in Artifact
  BY <1>1 DEF IInv, DiskInv
<1>3. /\ disk' \in [Dirs -> [final : Artifact \cup {None}, kept : SUBSET Artifact]]
      /\ disk'[dir].final = None
      /\ disk'[dir].kept \subseteq disk[dir].kept \cup {old}
      /\ old = None => disk'[dir].kept = disk[dir].kept
      /\ \A other \in Dirs \ {dir} : disk'[other] = disk[other]
  <2>1. disk \in [Dirs -> [final : Artifact \cup {None}, kept : SUBSET Artifact]]
    BY DEF IInv, DiskInv
  <2>2. CASE old = None
    <3>1. disk' = disk
      BY <2>2 DEF MoveAside
    <3> QED
      BY <2>1, <2>2, <3>1
  <2>3. CASE old # None
    <3>1. disk' = [disk EXCEPT ![dir].final = None, ![dir].kept = @ \cup {old}]
      BY <2>3 DEF MoveAside
    <3>2. disk[dir].kept \cup {old} \in SUBSET Artifact
      BY <1>1, <1>2, <2>1, <2>3
    <3>3. /\ disk'[dir].final = None
          /\ disk'[dir].kept = disk[dir].kept \cup {old}
      BY <1>1, <2>1, <3>1
    <3>4. \A other \in Dirs \ {dir} : disk'[other] = disk[other]
      BY <1>1, <2>1, <3>1
    <3>5. disk' \in [Dirs -> [final : Artifact \cup {None}, kept : SUBSET Artifact]]
      BY <1>1, <2>1, <3>1, <3>2
    <3> QED
      BY <2>3, <3>3, <3>4, <3>5
  <2> QED
    BY <2>2, <2>3
<1>4. DiskInv'
  <2>1. UNCHANGED released
    BY DEF MoveAside
  <2>2. disk'[dir].kept \subseteq released
    BY <1>1, <1>2, <1>3 DEF IInv, DiskInv
  <2> QED
    BY <1>1, <1>3, <2>1, <2>2 DEF IInv, DiskInv
<1>5. PublishInv'
  BY <1>1, <1>2, <1>3 DEF MoveAside, PublishInv
<1>6. ReadInv'
  BY <1>1, <1>3 DEF MoveAside, IInv, ReadInv
<1>7. SourceInv' /\ CountInv'
  BY DEF IInv, SourceInv, CountInv, MoveAside
<1> QED
  BY <1>4, <1>5, <1>6, <1>7, SameTarget, SameApply DEF IInv, MoveAside

LEMMA InvMoveIn ==
  ASSUME IInv, MoveIn
  PROVE  IInv'
<1> DEFINE dir == publishing.dir
<1>1. /\ publishing # None /\ dir \in Dirs
      /\ publishing.art \in Publishable(dir) /\ publishing.art \in Artifact
  BY DEF MoveIn, IInv, PublishInv
<1>2. /\ disk' \in [Dirs -> [final : Artifact \cup {None}, kept : SUBSET Artifact]]
      /\ disk'[dir].final = publishing.art
      /\ disk'[dir].kept \subseteq disk[dir].kept
      /\ \A other \in Dirs \ {dir} : disk'[other] = disk[other]
  <2>1. disk \in [Dirs -> [final : Artifact \cup {None}, kept : SUBSET Artifact]]
    BY DEF IInv, DiskInv
  <2>2. disk[dir].kept \ {publishing.backup} \in SUBSET Artifact
    BY <1>1, <2>1
  <2> QED
    BY <1>1, <2>1, <2>2 DEF MoveIn
<1>3. released' \subseteq PackageArt \cup DeltaArt
  BY <1>1, KindOfDir DEF MoveIn, IInv, DiskInv, Publishable
<1>4. DiskInv'
  BY <1>1, <1>2, <1>3 DEF MoveIn, IInv, DiskInv
<1>5. PublishInv'
  BY DEF MoveIn, PublishInv
<1>6. ReadInv'
  BY <1>1, <1>2 DEF MoveIn, IInv, ReadInv
<1>7. SourceInv' /\ CountInv'
  BY DEF IInv, SourceInv, CountInv, MoveIn
<1> QED
  BY <1>4, <1>5, <1>6, <1>7, SameTarget, SameApply DEF IInv, MoveIn

LEMMA InvMoveInFails ==
  ASSUME IInv, MoveInFails
  PROVE  IInv'
<1> DEFINE dir == publishing.dir
<1>1. /\ publishing # None /\ dir \in Dirs
      /\ publishing.backup \in Artifact \cup {None}
      /\ publishing.backup # None =>
           publishing.backup \in released \cap Publishable(dir)
  BY DEF MoveInFails, IInv, PublishInv
<1>2. /\ disk' \in [Dirs -> [final : Artifact \cup {None}, kept : SUBSET Artifact]]
      /\ disk'[dir].final = publishing.backup
      /\ disk'[dir].kept \subseteq disk[dir].kept
      /\ \A other \in Dirs \ {dir} : disk'[other] = disk[other]
  <2>1. disk \in [Dirs -> [final : Artifact \cup {None}, kept : SUBSET Artifact]]
    BY DEF IInv, DiskInv
  <2>2. disk[dir].kept \ {publishing.backup} \in SUBSET Artifact
    BY <1>1, <2>1
  <2> QED
    BY <1>1, <2>1, <2>2 DEF MoveInFails
<1>4. DiskInv'
  BY <1>1, <1>2 DEF MoveInFails, IInv, DiskInv
<1>5. PublishInv'
  BY DEF MoveInFails, PublishInv
<1>6. ReadInv'
  BY <1>1, <1>2 DEF MoveInFails, IInv, ReadInv
<1>7. SourceInv' /\ CountInv'
  BY DEF IInv, SourceInv, CountInv, MoveInFails
<1> QED
  BY <1>4, <1>5, <1>6, <1>7, SameTarget, SameApply DEF IInv, MoveInFails

LEMMA InvPublisherDies ==
  ASSUME IInv, PublisherDies
  PROVE  IInv'
<1>1. PublishInv' /\ ReadInv' /\ SourceInv' /\ CountInv'
  BY DEF PublisherDies, IInv, PublishInv, ReadInv, SourceInv, CountInv
<1> QED
  BY <1>1, SameTarget, SameApply, SameDisk DEF IInv, PublisherDies

-----------------------------------------------------------------------------
(* ... and every step of the receiver.                                     *)

\* What it streams was released to the directory it verified.
LEMMA PayloadReleased ==
  ASSUME IInv, reading # None, Payload # None
  PROVE  Payload \in released \cap Publishable(reading.dir)
BY DEF IInv, ReadInv, DiskInv, Payload

LEMMA InvEditTarget ==
  ASSUME IInv, NEW x \in Ids, EditTarget(x)
  PROVE  IInv'
<1>1. PICK r \in Row \cup {None} :
        /\ r # None => Fits(target.rows, x, r)
        /\ target' = [target EXCEPT !.rows[x] = r, !.follows = None]
  BY DEF EditTarget
<1>2. target.rows \in Table
  BY DEF IInv, TargetInv
<1>3. [target.rows EXCEPT ![x] = r] \in Table
  BY <1>1, <1>2, PutKeepsTable, RemoveKeepsTable
<1>4. TargetInv'
  BY <1>1, <1>3 DEF IInv, TargetInv
<1>5. SourceInv' /\ CountInv' /\ ApplyInv'
  BY DEF IInv, SourceInv, CountInv, ApplyInv, EditTarget
<1> QED
  BY <1>4, <1>5, SamePublish, SameDisk, SameRead DEF IInv, EditTarget

LEMMA InvVerify ==
  ASSUME IInv, NEW dir \in Dirs, Verify(dir)
  PROVE  IInv'
<1>1. disk[dir].final \in released \cap Publishable(dir)
  BY DEF Verify, IInv, DiskInv
<1>2. disk[dir].final \in Artifact
  BY <1>1, KindOfDir, Kinds
<1>3. ReadInv'
  BY <1>1, <1>2 DEF ReadInv, Verify
<1>4. applying = None
  BY DEF Verify, IInv, ApplyInv
<1>5. SourceInv' /\ CountInv' /\ ApplyInv'
  BY <1>4 DEF IInv, SourceInv, CountInv, ApplyInv, Verify
<1> QED
  BY <1>3, <1>5, SameTarget, SamePublish, SameDisk DEF IInv, Verify

\* A package is loaded while no delta is being applied.
LEMMA LoadEffect ==
  ASSUME IInv, LoadPackage
  PROVE  /\ applying = None
         /\ Payload \in released \cap PackageArt
         /\ target' = [target EXCEPT
                         !.rows = Loaded(target.rows, Payload.rows),
                         !.follows = IF Loaded(target.rows, Payload.rows) = Payload.rows
                                     THEN Loaded(target.rows, Payload.rows) ELSE None]
<1>1. reading # None /\ reading.dir \in Dirs /\ reading.art \in Publishable(reading.dir)
  BY DEF LoadPackage, IInv, ReadInv
<1>2. reading.art \in PackageArt /\ reading.dir \in PackageDirs
  BY <1>1, KindOfDir DEF LoadPackage
<1>3. applying = None
  BY <1>2, Kinds DEF IInv, ApplyInv
<1>4. Payload \in released \cap PackageArt
  BY <1>2, PayloadReleased DEF LoadPackage, Publishable
<1> QED
  BY <1>3, <1>4 DEF LoadPackage, Loaded

LEMMA InvLoadPackage ==
  ASSUME IInv, LoadPackage
  PROVE  IInv'
<1>1. target.rows \in Table /\ Payload.rows \in Table
  BY LoadEffect, Kinds DEF IInv, TargetInv
<1> DEFINE rows == Loaded(target.rows, Payload.rows)
<1>4. rows \in Table
  BY <1>1, LoadedIsTable
<1>5. target' = [target EXCEPT !.rows = rows,
                  !.follows = IF rows = Payload.rows THEN rows ELSE None]
  BY LoadEffect
<1> HIDE DEF rows
<1>2. TargetInv'
  BY <1>4, <1>5 DEF IInv, TargetInv
<1>3. SourceInv' /\ CountInv' /\ ApplyInv' /\ ReadInv'
  BY LoadEffect DEF IInv, SourceInv, CountInv, ApplyInv, ReadInv, LoadPackage
<1> QED
  BY <1>2, <1>3, SamePublish, SameDisk DEF IInv, LoadPackage

LEMMA InvOpenDelta ==
  ASSUME IInv, OpenDelta
  PROVE  IInv'
<1>1. /\ reading # None /\ reading.dir \in Dirs
      /\ reading.art \in Publishable(reading.dir)
  BY DEF OpenDelta, IInv, ReadInv
<1>2. reading.art \in DeltaArt /\ reading.dir \notin PackageDirs
  BY <1>1, KindOfDir DEF OpenDelta
<1>3. Payload \in released \cap DeltaArt
  BY <1>2, PayloadReleased DEF OpenDelta, Publishable
<1>4. Payload.ops \in SUBSET Op /\ target.rows \in Table
  BY <1>3, Kinds DEF IInv, TargetInv
<1>5. ApplyInv'
  BY <1>1, <1>2, <1>3, <1>4 DEF ApplyInv, OpenDelta, Done
<1>6. SourceInv' /\ CountInv'
  BY DEF IInv, SourceInv, CountInv, OpenDelta
<1> QED
  BY <1>5, <1>6, SameTarget, SamePublish, SameDisk, SameRead DEF IInv, OpenDelta

\* The operations of a payload are of different records.
LEMMA OnePerRecord ==
  ASSUME ApplyInv, applying # None
  PROVE  \A a, b \in applying.ops : a.id = b.id => a = b
<1>1. PICK d \in DeltaArt : applying.ops = d.ops
  BY DEF ApplyInv
<1> QED
  BY <1>1, Kinds, DifferenceOps

LEMMA InvApplyOperation ==
  ASSUME IInv, ApplyOperation
  PROVE  IInv'
<1>1. PICK op \in applying.left :
        /\ Admissible(applying.rows, op)
        /\ applying' = [applying EXCEPT !.left = @ \ {op}, !.rows[op.id] = op.post]
  BY DEF ApplyOperation
<1>2. /\ applying # None /\ reading # None
      /\ reading.art \in DeltaArt
      /\ applying.ops \subseteq Op /\ applying.left \subseteq applying.ops
      /\ applying.rows \in Table /\ op \in Op
      /\ applying \in [ops : SUBSET Op, left : SUBSET Op, rows : Table]
  BY <1>1 DEF ApplyOperation, IInv, ApplyInv
<1>3. op.id \in Ids /\ op.post \in Row
  BY <1>2 DEF Op
<1>4. [applying.rows EXCEPT ![op.id] = op.post] \in Table
  <2>1. CASE applying.rows[op.id] = op.post
    <3>1. [applying.rows EXCEPT ![op.id] = op.post] = applying.rows
      BY <1>2, <1>3, <2>1 DEF Table, Rows
    <3> QED
      BY <3>1, <1>2
  <2>2. CASE Fits(applying.rows, op.id, op.post)
    BY <1>2, <1>3, <2>2, PutKeepsTable
  <2> QED
    BY <1>1, <2>1, <2>2 DEF Admissible
<1>5. applying' = [ops |-> applying.ops, left |-> applying.left \ {op},
                   rows |-> [applying.rows EXCEPT ![op.id] = op.post]]
  BY <1>1, <1>2
<1>6. \A other \in applying.ops : other.id = op.id => other = op
  BY <1>1, <1>2, OnePerRecord DEF IInv
<1>7. target.rows[op.id] \in {op.pre, op.post}
  <2>1. ASSUME NEW other \in applying.ops, Done(other) PROVE other.id # op.id
    BY <1>1, <1>6, <2>1 DEF Done
  <2>2. applying.rows[op.id] = target.rows[op.id]
    BY <1>2, <1>3, <2>1 DEF IInv, ApplyInv
  <2> QED
    BY <1>1, <2>2 DEF Admissible
<1>8. applying.rows \in [Ids -> Row \cup {None}]
  BY <1>2 DEF Table, Rows
<1>9. ASSUME NEW other \in applying.ops, Done(other)'
      PROVE  /\ target.rows[other.id] \in {other.pre, other.post}
             /\ applying'.rows[other.id] = other.post
  <2>1. CASE other = op
    BY <1>3, <1>5, <1>7, <1>8, <2>1
  <2>2. CASE other # op
    <3>1. Done(other) /\ other.id # op.id /\ other.id \in Ids
      BY <1>2, <1>5, <1>6, <1>9, <2>2 DEF Done, Op
    <3> QED
      BY <1>2, <1>3, <1>5, <1>8, <3>1 DEF IInv, ApplyInv
  <2> QED
    BY <2>1, <2>2
<1>10. ASSUME NEW x \in Ids, \A other \in applying.ops : Done(other)' => other.id # x
       PROVE  applying'.rows[x] = target.rows[x]
  <2>1. op.id # x
    BY <1>1, <1>2, <1>5, <1>10 DEF Done
  <2>2. \A other \in applying.ops : Done(other) => other.id # x
    BY <1>5, <1>10 DEF Done
  <2> QED
    BY <1>2, <1>3, <1>5, <1>8, <2>1, <2>2 DEF IInv, ApplyInv
<1>11. \E d \in released \cap DeltaArt : applying.ops = d.ops
  BY <1>2 DEF IInv, ApplyInv
<1>12. UNCHANGED <<target, reading, released>>
  BY DEF ApplyOperation
<1>13. ApplyInv'
  BY <1>2, <1>4, <1>5, <1>9, <1>10, <1>11, <1>12 DEF ApplyInv
<1>14. SourceInv' /\ CountInv'
  BY DEF IInv, SourceInv, CountInv, ApplyOperation
<1> QED
  BY <1>13, <1>14, SameTarget, SamePublish, SameDisk, SameRead DEF IInv, ApplyOperation

\* A committed delta has been applied as a whole.
LEMMA CommitEffect ==
  ASSUME IInv, CommitDelta
  PROVE  /\ applying # None /\ reading # None /\ reading.art \in released \cap DeltaArt
         /\ \E d \in released \cap DeltaArt : applying.ops = d.ops
         /\ target'.rows = applying.rows
         /\ \A op \in applying.ops : /\ target.rows[op.id] \in {op.pre, op.post}
                                     /\ applying.rows[op.id] = op.post
         /\ \A x \in Ids : (\A op \in applying.ops : op.id # x)
              => applying.rows[x] = target.rows[x]
<1>1. applying # None /\ reading # None /\ applying.left = {}
  BY DEF CommitDelta, IInv, ApplyInv
<1>2. \A op \in applying.ops : Done(op)
  BY <1>1 DEF Done
<1> QED
  BY <1>1, <1>2 DEF CommitDelta, IInv, ApplyInv, ReadInv

LEMMA InvCommitDelta ==
  ASSUME IInv, CommitDelta
  PROVE  IInv'
<1> DEFINE delta == reading.art
           last == [base |-> delta.base, digest |-> delta.ops,
                    result |-> delta.result, read |-> applying.ops]
<1>1. delta \in DeltaArt /\ applying.rows \in Table /\ applying.ops \subseteq Op
  BY CommitEffect DEF IInv, ApplyInv
<1>2. /\ delta.base \in SUBSET Contents /\ delta.ops \in SUBSET Op
      /\ delta.result \in SUBSET Row /\ delta.to \in Table
  BY <1>1, Kinds
<1>3. last \in Checkpoint
  BY <1>1, <1>2 DEF Checkpoint
<1>4. TargetInv'
  BY <1>1, <1>2, <1>3 DEF CommitDelta, TargetInv
<1>5. SourceInv' /\ CountInv' /\ ApplyInv' /\ ReadInv'
  BY DEF IInv, SourceInv, CountInv, ApplyInv, ReadInv, CommitDelta
<1> QED
  BY <1>4, <1>5, SamePublish, SameDisk DEF IInv, CommitDelta

LEMMA InvRollBack ==
  ASSUME IInv, Conflict \/ ReceiverDies
  PROVE  IInv'
<1>1. SourceInv' /\ CountInv' /\ ApplyInv' /\ ReadInv'
  BY DEF IInv, SourceInv, CountInv, ApplyInv, ReadInv, Conflict, ReceiverDies
<1> QED
  BY <1>1, SameTarget, SamePublish, SameDisk DEF IInv, Conflict, ReceiverDies

LEMMA InvStep == IInv /\ [Next]_vars => IInv'
<1> SUFFICES ASSUME IInv, [Next]_vars PROVE IInv'
  OBVIOUS
<1>1. CASE \E x \in Ids : EditSource(x) \/ EditTarget(x)
  BY <1>1, InvEditSource, InvEditTarget
<1>2. CASE \E dir \in PackageDirs : WritePackage(dir)
  BY <1>2, InvWritePackage
<1>3. CASE \E base \in PackageDirs, dir \in DeltaDirs : ProduceDelta(base, dir)
  BY <1>3, InvProduceDelta
<1>4. CASE MoveAside \/ MoveIn \/ MoveInFails \/ PublisherDies
  BY <1>4, InvMoveAside, InvMoveIn, InvMoveInFails, InvPublisherDies
<1>5. CASE \E dir \in Dirs : Verify(dir)
  BY <1>5, InvVerify
<1>6. CASE LoadPackage \/ OpenDelta \/ ApplyOperation
  BY <1>6, InvLoadPackage, InvOpenDelta, InvApplyOperation
<1>7. CASE Conflict \/ CommitDelta \/ ReceiverDies
  BY <1>7, InvCommitDelta, InvRollBack
<1>8. CASE UNCHANGED vars
  <2>1. SourceInv' /\ CountInv'
    BY <1>8 DEF IInv, SourceInv, CountInv, vars
  <2> QED
    BY <1>8, <2>1, SameTarget, SameApply, SamePublish, SameDisk, SameRead
       DEF IInv, vars
<1> QED
  BY <1>1, <1>2, <1>3, <1>4, <1>5, <1>6, <1>7, <1>8 DEF Next

\* The inductive invariant holds in every reachable state.
THEOREM InvAlways == Spec => []IInv
BY InvInit, InvStep, PTL DEF Spec

-----------------------------------------------------------------------------
(* The receiver's rows change as WholeUpdates says.                        *)

Deltas == {d.ops : d \in {a \in released : a.kind = "delta"}}
Packages == {p.rows : p \in {a \in released : a.kind = "package"}}

LEMMA WholeVariables ==
  /\ Whole!wholeVars = <<target.rows, Deltas, Packages>>
  /\ Whole!Init <=> /\ target.rows = [x \in Ids |-> None]
                    /\ Deltas = {} /\ Packages = {}
BY DEF Whole!wholeVars, Whole!Init, Deltas, Packages

LEMMA WholeInit == Init => Whole!Init
BY WholeVariables DEF Init, Empty, Deltas, Packages

\* A step that leaves the rows and what was released alone stutters.
LEMMA WholeStutter ==
  ASSUME UNCHANGED <<target, released>>
  PROVE  UNCHANGED Whole!wholeVars
BY DEF Whole!wholeVars

LEMMA WholeRelease ==
  ASSUME MoveIn
  PROVE  Whole!Release
BY DEF MoveIn, Whole!Release

LEMMA WholeEdit ==
  ASSUME IInv, NEW x \in Ids, EditTarget(x)
  PROVE  Whole!Edit
<1>1. PICK r : target' = [target EXCEPT !.rows[x] = r, !.follows = None]
  BY DEF EditTarget
<1>2. \A y \in Ids \ {x} : target'.rows[y] = target.rows[y]
  BY <1>1 DEF IInv, TargetInv, Table, Rows
<1>3. UNCHANGED released
  BY DEF EditTarget
<1> QED
  BY <1>2, <1>3 DEF Whole!Edit

LEMMA WholeLoad ==
  ASSUME IInv, LoadPackage
  PROVE  Whole!Load
<1>1. target.rows \in Table /\ Payload.rows \in Table
  BY LoadEffect, Kinds DEF IInv, TargetInv
<1>2. target'.rows = Loaded(target.rows, Payload.rows)
  BY LoadEffect DEF IInv, TargetInv
<1>3. \A x \in Ids : \/ target'.rows[x] = target.rows[x]
                     \/ target.rows[x] = None /\ target'.rows[x] = Payload.rows[x]
  BY <1>1, <1>2, LoadedIsTable
<1>4. Payload.rows \in {p.rows : p \in {a \in released : a.kind = "package"}}
  BY LoadEffect, Kinds
<1>5. UNCHANGED released
  BY DEF LoadPackage
<1> QED
  BY <1>3, <1>4, <1>5 DEF Whole!Load

LEMMA WholeTake ==
  ASSUME IInv, CommitDelta
  PROVE  Whole!Take
<1>1. applying.ops \in {d.ops : d \in {a \in released : a.kind = "delta"}}
  BY CommitEffect, Kinds
<1>2. \A op \in applying.ops : /\ target.rows[op.id] \in {op.pre, op.post}
                               /\ target'.rows[op.id] = op.post
  BY CommitEffect
<1>3. \A x \in Ids \ {op.id : op \in applying.ops} :
        target'.rows[x] = target.rows[x]
  BY CommitEffect
<1>4. UNCHANGED released
  BY DEF CommitDelta
<1> QED
  BY <1>1, <1>2, <1>3, <1>4 DEF Whole!Take

LEMMA WholeStep == IInv /\ [Next]_vars => [Whole!Next]_Whole!wholeVars
<1> SUFFICES ASSUME IInv, [Next]_vars PROVE [Whole!Next]_Whole!wholeVars
  OBVIOUS
<1>1. CASE \E x \in Ids : EditTarget(x)
  BY <1>1, WholeEdit DEF Whole!Next
<1>2. CASE LoadPackage
  BY <1>2, WholeLoad DEF Whole!Next
<1>3. CASE CommitDelta
  BY <1>3, WholeTake DEF Whole!Next
<1>4. CASE MoveIn
  BY <1>4, WholeRelease DEF Whole!Next
<1>5. CASE \E x \in Ids : EditSource(x)
  BY <1>5, WholeStutter DEF EditSource
<1>6. CASE \E dir \in PackageDirs : WritePackage(dir)
  BY <1>6, WholeStutter DEF WritePackage
<1>7. CASE \E base \in PackageDirs, dir \in DeltaDirs : ProduceDelta(base, dir)
  BY <1>7, WholeStutter DEF ProduceDelta
<1>8. CASE MoveAside \/ MoveInFails \/ PublisherDies
  BY <1>8, WholeStutter DEF MoveAside, MoveInFails, PublisherDies
<1>9. CASE \E dir \in Dirs : Verify(dir)
  BY <1>9, WholeStutter DEF Verify
<1>10. CASE OpenDelta \/ ApplyOperation \/ Conflict \/ ReceiverDies
  BY <1>10, WholeStutter DEF OpenDelta, ApplyOperation, Conflict, ReceiverDies
<1>11. CASE UNCHANGED vars
  BY <1>11, WholeStutter DEF vars
<1> QED
  BY <1>1, <1>2, <1>3, <1>4, <1>5, <1>6, <1>7, <1>8, <1>9, <1>10, <1>11 DEF Next

\* Exchange implements WholeUpdates (delta-v1 section 6): a delta arrives
\* whole and over the records it expects, or not at all.
THEOREM UpdatesAreWhole == Spec => WholeDeltas
<1>1. Init => Whole!Init
  BY WholeInit
<1>2. IInv /\ [Next]_vars => [Whole!Next]_Whole!wholeVars
  BY WholeStep
<1> QED
  BY <1>1, <1>2, InvAlways, PTL DEF Spec, WholeDeltas, Whole!Spec

-----------------------------------------------------------------------------
(* Publishing.                                                             *)

\* There is something in the directory or kept beside it.
Survives == \A dir \in Dirs :
  (disk[dir].final # None \/ disk[dir].kept # {})
    => (disk'[dir].final # None \/ disk'[dir].kept # {})

LEMMA SurvivesStep == IInv /\ [Next]_vars => Survives
<1> SUFFICES ASSUME IInv, [Next]_vars PROVE Survives
  OBVIOUS
<1>1. CASE MoveAside
  <2>1. publishing.dir \in Dirs
    BY <1>1 DEF MoveAside, IInv, PublishInv
  <2>2. CASE disk[publishing.dir].final = None
    BY <1>1, <2>2 DEF MoveAside, Survives
  <2>3. CASE disk[publishing.dir].final # None
    BY <1>1, <2>1, <2>3 DEF MoveAside, Survives, IInv, DiskInv
  <2> QED
    BY <2>2, <2>3
<1>2. CASE MoveIn
  <2>1. publishing.dir \in Dirs /\ publishing.art # None
    BY <1>2, KindOfDir DEF MoveIn, IInv, PublishInv
  <2> QED
    BY <1>2, <2>1 DEF MoveIn, Survives, IInv, DiskInv
<1>3. CASE MoveInFails
  <2>1. /\ publishing.dir \in Dirs
        /\ disk[publishing.dir].final = None
        /\ None \notin disk[publishing.dir].kept
    BY <1>3 DEF MoveInFails, IInv, PublishInv, DiskInv
  <2>2. CASE publishing.backup = None
    <3>1. disk[publishing.dir].kept \ {publishing.backup} = disk[publishing.dir].kept
      BY <2>1, <2>2
    <3> QED
      BY <1>3, <2>1, <3>1 DEF MoveInFails, Survives, IInv, DiskInv
  <2>3. CASE publishing.backup # None
    BY <1>3, <2>1, <2>3 DEF MoveInFails, Survives, IInv, DiskInv
  <2> QED
    BY <2>2, <2>3
<1>4. CASE UNCHANGED disk
  BY <1>4 DEF Survives
<1> QED
  BY <1>1, <1>2, <1>3, <1>4
     DEF Next, vars, EditSource, EditTarget, WritePackage, ProduceDelta,
         PublisherDies, Verify, LoadPackage, OpenDelta, ApplyOperation,
         Conflict, CommitDelta, ReceiverDies

\* A publish that fails or dies between its renames never destroys the
\* artifact that was there (fsutil.atomic_publish).
THEOREM ArtifactsSurvive == Spec => ArtifactSurvives
<1>1. IInv /\ [Next]_vars =>
        [\A dir \in Dirs :
           (disk[dir].final # None \/ disk[dir].kept # {})
             => (disk'[dir].final # None \/ disk'[dir].kept # {})]_vars
  BY SurvivesStep DEF Survives
<1> QED
  BY <1>1, InvAlways, PTL DEF Spec, ArtifactSurvives

-----------------------------------------------------------------------------
(* What a delta says is what is applied.                                   *)

\* The payload that is streamed is the one that was verified: deltas are
\* spooled, or nothing is published to a directory that is being read.
StablePayloads == ~OverwriteInUse \/ \A dir \in DeltaDirs : Encoding[dir] = "gz"

StreamInv == applying # None => applying.ops = reading.art.ops

\* The applied delta and what follows from it; the receiver holds at least
\* the records of the state it follows.
FollowInv == StreamInv /\ CheckpointNamesPayload /\ BasePlusDeltas

LEMMA PayloadVerified ==
  ASSUME StablePayloads, IInv, OpenDelta
  PROVE  Payload = reading.art
<1>1. /\ reading # None /\ reading.dir \in Dirs
      /\ reading.art \in Publishable(reading.dir)
  BY DEF OpenDelta, IInv, ReadInv
<1>2. reading.dir \in DeltaDirs
  BY <1>1, KindOfDir DEF OpenDelta, Dirs
<1>3. CASE Encoding[reading.dir] = "gz"
  BY <1>3 DEF Payload
<1>4. CASE Encoding[reading.dir] # "gz" /\ ~OverwriteInUse
  BY <1>1, <1>4 DEF Payload, IInv, ReadInv
<1> QED
  BY <1>2, <1>3, <1>4 DEF StablePayloads

\* A receiver that holds the records of the base, or already those of the
\* result, holds those of the result afterwards.
LEMMA CommitFollows ==
  ASSUME IInv, FollowInv, CommitDelta,
         target.follows \in {reading.art.from, reading.art.to},
         target.follows # None
  PROVE  \A x \in Present(reading.art.to) : target'.rows[x] = reading.art.to[x]
<1> DEFINE delta == reading.art
<1>1. /\ delta \in DeltaArt /\ applying.ops = delta.ops
      /\ target'.rows = applying.rows
  BY CommitEffect DEF FollowInv, StreamInv
<1>2. /\ delta.from \in Table /\ delta.to \in Table
      /\ delta.ops = Difference(delta.from, delta.to)
  BY <1>1, Kinds
<1> SUFFICES ASSUME NEW x \in Present(delta.to)
             PROVE  target'.rows[x] = delta.to[x]
  OBVIOUS
<1>3. x \in Ids
  BY DEF Present
<1>4. CASE \E op \in delta.ops : op.id = x
  <2>1. PICK op \in delta.ops : op.id = x
    BY <1>4
  <2>2. op.post = delta.to[x]
    BY <1>2, <2>1, DifferenceOps
  <2> QED
    BY <1>1, <2>1, <2>2, CommitEffect
<1>5. CASE \A op \in delta.ops : op.id # x
  <2>1. delta.from[x] = delta.to[x]
    BY <1>2, <1>5, DifferenceOps
  <2>2. x \in Present(delta.from)
    BY <2>1 DEF Present
  <2>3. target.rows[x] = delta.to[x]
    BY <2>1, <2>2 DEF FollowInv, BasePlusDeltas
  <2>4. target'.rows[x] = target.rows[x]
    BY <1>1, <1>3, <1>5, CommitEffect
  <2> QED
    BY <2>3, <2>4
<1> QED
  BY <1>4, <1>5

LEMMA FollowCommit ==
  ASSUME IInv, FollowInv, CommitDelta
  PROVE  FollowInv'
<1>1. CheckpointNamesPayload'
  <2>1. applying.ops = reading.art.ops
    BY CommitEffect DEF FollowInv, StreamInv
  <2> QED
    BY <2>1 DEF CommitDelta, CheckpointNamesPayload
<1>2. BasePlusDeltas'
  <2>1. reading.art.from # None /\ reading.art.to # None
    BY CommitEffect, Kinds DEF Table
  <2>2. target'.follows = IF target.follows \in {reading.art.from, reading.art.to}
                          THEN reading.art.to ELSE None
    BY DEF CommitDelta
  <2>3. CASE target.follows \in {reading.art.from, reading.art.to}
    <3>1. \A x \in Present(reading.art.to) : target'.rows[x] = reading.art.to[x]
      BY <2>1, <2>3, CommitFollows
    <3> QED
      BY <2>2, <2>3, <3>1 DEF BasePlusDeltas, Present
  <2>4. CASE target.follows \notin {reading.art.from, reading.art.to}
    BY <2>2, <2>4 DEF BasePlusDeltas
  <2> QED
    BY <2>3, <2>4
<1> QED
  BY <1>1, <1>2 DEF FollowInv, StreamInv, CommitDelta

LEMMA FollowLoad ==
  ASSUME IInv, FollowInv, LoadPackage
  PROVE  FollowInv'
<1> DEFINE rows == Loaded(target.rows, Payload.rows)
<1>1. target' = [target EXCEPT !.rows = rows,
                  !.follows = IF rows = Payload.rows THEN rows ELSE None]
  BY LoadEffect
<1> HIDE DEF rows
<1>2. /\ target'.rows = rows /\ target'.last = target.last
      /\ target'.follows # None => target'.follows = rows
  BY <1>1 DEF IInv, TargetInv
<1>3. applying' = None
  BY LoadEffect DEF LoadPackage
<1> QED
  BY <1>2, <1>3 DEF FollowInv, StreamInv, CheckpointNamesPayload, BasePlusDeltas

LEMMA FollowStep ==
  ASSUME StablePayloads, IInv, FollowInv, [Next]_vars
  PROVE  FollowInv'
<1>1. CASE CommitDelta
  BY <1>1, FollowCommit
<1>2. CASE LoadPackage
  BY <1>2, FollowLoad
<1>3. CASE \E x \in Ids : EditTarget(x)
  BY <1>3 DEF EditTarget, FollowInv, StreamInv, CheckpointNamesPayload,
              BasePlusDeltas, IInv, TargetInv
<1>4. CASE OpenDelta
  BY <1>4, PayloadVerified DEF OpenDelta, FollowInv, StreamInv,
              CheckpointNamesPayload, BasePlusDeltas, Present
<1>5. CASE ApplyOperation
  <2>1. applying'.ops = applying.ops
    BY <1>5 DEF ApplyOperation, IInv, ApplyInv
  <2> QED
    BY <1>5, <2>1 DEF ApplyOperation, FollowInv, StreamInv,
              CheckpointNamesPayload, BasePlusDeltas, Present
<1>6. CASE \E dir \in Dirs : Verify(dir)
  <2>1. applying = None /\ UNCHANGED <<applying, target>>
    BY <1>6 DEF Verify, IInv, ApplyInv
  <2> QED
    BY <2>1 DEF FollowInv, StreamInv, CheckpointNamesPayload, BasePlusDeltas, Present
<1>7. CASE Conflict \/ ReceiverDies
  BY <1>7 DEF Conflict, ReceiverDies, FollowInv, StreamInv,
              CheckpointNamesPayload, BasePlusDeltas, Present
<1>8. CASE UNCHANGED <<target, reading, applying>>
  BY <1>8 DEF FollowInv, StreamInv, CheckpointNamesPayload, BasePlusDeltas, Present
<1> QED
  BY <1>1, <1>2, <1>3, <1>4, <1>5, <1>6, <1>7, <1>8
     DEF Next, vars, EditSource, WritePackage, ProduceDelta, MoveAside, MoveIn,
         MoveInFails, PublisherDies

LEMMA FollowAlways == ASSUME StablePayloads PROVE Spec => []FollowInv
<1>1. Init => FollowInv
  BY DEF Init, FollowInv, StreamInv, CheckpointNamesPayload, BasePlusDeltas
<1>2. IInv /\ FollowInv /\ [Next]_vars => FollowInv'
  BY FollowStep
<1> QED
  BY <1>1, <1>2, InvAlways, PTL DEF Spec

\* A receiver loaded from a package that applies, in order, each delta made
\* from the state it was at holds the records the source had when the last
\* one was made (delta-v1 section 11).
THEOREM BasePlusDeltasAlways ==
  ASSUME StablePayloads PROVE Spec => []BasePlusDeltas
BY FollowAlways, PTL DEF FollowInv

\* The checkpoint names the operations that were applied: what verify_delta
\* accepted is what apply_delta streamed.
THEOREM CheckpointsNamePayload ==
  ASSUME StablePayloads PROVE Spec => []CheckpointNamesPayload
BY FollowAlways, PTL DEF FollowInv

-----------------------------------------------------------------------------
(* Types.                                                                  *)

\* At most one row holds a content.
LEMMA AtMostOneHolder ==
  ASSUME NEW rows \in Table, NEW c
  PROVE  Cardinality(HolderOf(rows, c)) <= 1
<1>1. CASE HolderOf(rows, c) = {}
  BY <1>1, FS_EmptySet
<1>2. CASE HolderOf(rows, c) # {}
  <2>1. PICK x : x \in HolderOf(rows, c)
    BY <1>2
  <2>2. HolderOf(rows, c) = {x}
    BY <2>1 DEF HolderOf, Table, Unique
  <2> QED
    BY <2>2, FS_Singleton
<1> QED
  BY <1>1, <1>2

\* Rows, checkpoints and what is in progress are well formed, and no receiver
\* ever holds a content twice.
THEOREM ExchangeTyped == Spec => []TypeOK
<1>1. IInv => TypeOK
  <2> SUFFICES ASSUME IInv PROVE TypeOK
    OBVIOUS
  <2>1. source \in Rows
    BY DEF IInv, SourceInv, Table
  <2>2. /\ target.rows \in Table /\ target.last \in Checkpoint \cup {None}
        /\ target.follows \in Rows \cup {None}
    BY DEF IInv, TargetInv, Table
  <2>3. \A c \in Contents : Cardinality(HolderOf(target.rows, c)) <= 1
    BY <2>2, AtMostOneHolder
  <2>4. target.rows \in Rows
    BY <2>2 DEF Table
  <2>5. applying # None => reading # None /\ applying.rows \in Rows
    BY DEF IInv, ApplyInv, Table
  <2>6. /\ publishing # None => publishing.dir \in Dirs
        /\ reading # None => reading.dir \in Dirs
        /\ edits \in 0..MaxEdits /\ local \in 0..MaxLocal
    BY DEF IInv, PublishInv, ReadInv, CountInv
  <2> QED
    BY <2>1, <2>2, <2>3, <2>4, <2>5, <2>6 DEF TypeOK
<1> QED
  BY <1>1, InvAlways, PTL
=============================================================================
