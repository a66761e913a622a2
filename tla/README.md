# HotMem: a TLA+ development

HotMem keeps memory records of agents in a SQLite file, with an event log that
other stores follow by cursor replay, packages and deltas that stores exchange,
and a daemon that serves the file to several callers under a policy. This
directory holds TLA+ modules for the parts of it whose correctness depends on
order, failure and concurrency, the TLC configurations that check them on small
instances, and theorems about them that TLAPS checks for every instance.

Paths below are relative to the repository; `events.py` is
`src/hotmem/events.py`, and so on. `PROJECT.json` maps every definition to the
lines it stands for.

    tlc -workers 2 -config MCEventStore_store.cfg MCEventStore
    tlapm RuntimeProofs.tla

## 1. The system

| part | state | operations | modelled by |
|---|---|---|---|
| record mutations and event log (`events.py`, `db.py`, `runtime.py` add and hygiene, `lifecycle.py`) | `memories`, `events` (AUTOINCREMENT seq), `memory_tombstones`, `memory_replay_watermarks`, `operation_ledger`, retention and history marks in `store_meta` | add, update, delete, promotion, trim before a seq or by count, tombstone compaction, history replacement, hygiene, import | `EventStore` |
| cursor replay (`events.py`: `issue_replay_cursor`, `validate_replay_cursor`, `replay_with_cursor`) | the target's tables, its base (lineage fingerprint, cursor, snapshot id), the run in progress | issue and validate a cursor, plan page by page, apply page by page, commit with the checkpoint | `Replay`, `Follower` |
| store ownership and the runtime's lifecycle (`mount.py`: `StoreLock`; `runtime.py`: `open`, `close`, `_write_slot`) | the lock file and its OS lock, `_HELD_LOCKS`, the connection, the write lock | acquire, release, open, close, write, roll back, process death | `Runtime` |
| snapshot v2 and plain exports (`snapshot/`, `swap.py`) | a directory: records, attachments, manifest; the importing store and its clone lineage | export in place, verify, import through the manifest, import by batches | `Snapshot`; the cursor of a package in `Replay` (`SnapshotRows`, `SnapshotCursor`, `Hydrate`), its effect on events and tombstones in `EventStore` (`Restore`) |
| interchange packages and deltas (`interchange/`, `fsutil.py`) | published directories, sync checkpoints, receipts | write a package, produce a delta, publish, verify, load, apply | `Exchange`, `WholeUpdates` |
| handoff (`handoff/`) | a session log, the package's files, `handoff_ledger`, events | read a session, prepare, verify, hydrate once | `Handoff` |
| policy (`policy.py`), in `runtime.py` and `server.py` | policy objects and their file, requests in threads | resolve, read, export, write, revoke callers and approvals, reload | `Access` |
| search and vector index (`search.py`, `vector_index.py`, `rerank.py`) | the index on disk and its rebuild marker | search, rebuild, clear | `Recall` |
| activity stream (`runtime.py`: `activity`, `_collect_permitted_events`) | a client's cursor | page through the events a client may see | `Activity` |
| annotations and imported records (`annotations.py`, `swap.py`, `snapshot/reader.py`, `import_sqlite`) | annotations of rows, the batches of an import | import records of a file, merge the annotations of duplicates, update and delete rows | `Annotations` |
| mount lineage (`mount.py`: `compare_mount_lineage`) | mount, replica and history ids, clone marks | compare a source and a target | `Replay` (`Diverged`, `CleanClone`), in part |
| command line (`cli.py`), server lifespan (`server.py`) | which of them holds the ownership | `hydrate`, `promote`, `delta apply`, `handoff hydrate`, `import`, `serve` | `Runtime`, in part |
| bundles, importers, inspectors, storage adapter, embeddings, UI, clients | files, vectors | formats and pure functions | not modelled (section 6) |

How they interact. A write request is resolved to a credential (`Access`),
takes the runtime's write slot (`Runtime`) and runs one transaction on the store
(`EventStore`). A clone reads the source's log through cursors, one page per read
with no transaction around the reads, and writes to its own store (`Replay`); it
may have begun from a package, whose files are in turn written one by one
(`Snapshot`, `Exchange`). Retention and compaction on the source decide which
cursors still validate, so the log's marks tie `EventStore` and `Replay`
together. A search reads an index that other processes' writes make stale
(`Recall`). Each import of records merges what callers annotated
(`Annotations`), and a handoff is such an import with a ledger (`Handoff`).

What is hard about it, and what would make each part correct:

- *The log and the rows must tell one story.* Every write changes a row, an
  event, a watermark, a tombstone, a ledger entry. A disagreement shows up only
  when some clone replays much later. (`LogExplainsRows`, `WatermarkCurrent`,
  `TombstonesAreDead`)
- *Forgetting must be safe.* Trims, compaction and history replacement remove
  what later cursors and later replays rely on. (`DeadIdsKeepTombstone`,
  `CursorWindowIntact`, `StaleCursorStaysStale`)
- *Retries.* A keyed operation is looked up by where its record is at the retry;
  a handoff or a delta is delivered again after a crash, late, or under another
  name. (`RetryNeverExecutes`, `OneEventPerEntry`, `AppliedOnce`, `WholeDeltas`)
- *Following.* Pages, budgets, crashes, resumes, cursors of callers' own, rows
  of unknown origin, local writes: a clone must never show a state its source
  did not go through and count as clean. (`CloneIsSourceState`,
  `NoResurrection`, `LocalWritesSurface`, `IsFollower`, `ResumeNeverStuck`,
  `CatchesUp`)
- *One writer.* The OS lock, a process-wide set and a connection change at
  different moments; `close()` does not wait for writers. (`OneWriter`,
  `WholeWrites`, `OwnerNamed`, `SlotComesBack`, `StaleLockNeverBlocks`)
- *Files are not transactions.* A directory is rewritten or republished while
  somebody reads it, and its writer may die between any two files.
  (`ImportIsWhole`, `LineageIsLoaded`, `ArtifactSurvives`,
  `CheckpointNamesPayload`, `Received`)
- *Checked, then used.* A policy decision, an index's freshness, a package's
  digest is established once and relied on after other threads have run.
  (`RevocationImmediate`, `CountsCoverExport`, `OwnSessions`,
  `FreshIsComplete`, `NeverStarved`)
- *Nothing lost on the way.* What does not fit is reported, batches and restarts
  are invisible, annotations survive. (`CoverageComplete`, `BriefResolves`,
  `RecordsComeWithLedger`, `BasePlusDeltas`, `BatchesInvisible`,
  `RestartsConverge`, `TargetRetained`)

`PROJECT.json` lists the hazards one by one with their lines.

## 2. The modules

### EventStore

One store. `log` keeps every event ever committed, so the event with seq *s* is
`log[s]`; retention only moves `dropped`, and the events table is the part
after it. Every action is one committed transaction; an operation with later
commits that an error may cut off has both outcomes as disjuncts (`Hygiene`,
`Restore`). A crash inside a transaction changes nothing.

| action | code |
|---|---|
| `AddNew`, `AddDuplicate` | `HotMemRuntime.add`: ledger lookup, content lookup, row, event, ledger entry |
| `Update` | `update_memory_record`; with `signal`, `lifecycle.transition` and `mark_candidate` |
| `Delete` | `delete_memory_record` |
| `TrimBefore`, `TrimByCount` | `MemoryDB.trim_events_before_seq`, `trim_events_by_count` |
| `Hygiene` | `HotMemRuntime.hygiene`: audit event, warning, trim that may fail |
| `CompactTombstones` | `compact_tombstones` with acknowledged seq, namespace, strict or lenient |
| `ReplaceHistory` | `MemoryDB.replace_history` |
| `Restore` | `hydrate_v2` of one record and `emit_import_event` |

Abstracted: contents, embeddings and payload layout; a row is a namespace, a
content hash, a value (`val`, the other fingerprinted columns) and `rel`, the
columns `record_fingerprint` leaves out. The variable `imported` and the field
`key` of an event are history. Direct inserts (the embedded MCP server, swap
files) write rows without events, which docs/snapshot-v2.md names as outside
event replay; of these only `Restore` is an action.

### Replay and Follower

`Replay` extends `EventStore` with a second store, `clone`, the packages taken
so far, the export and the `run` in progress. `Begin` resolves and validates a
cursor; `ScanPage` is one page of the planning pass over a simulated clone
(`PlanStep` is `_validate_and_plan_event_step`, its cases `Skips` and `Applies`;
`Load` the page's target rows); `ApplyPage` is one page of the second pass,
staged until the last one commits rows, lineage and checkpoint together; `Crash`
drops what is staged. `SnapshotRows` and `SnapshotCursor` are the two reads of
an export, `Hydrate` and `CloneWrite` what else happens to a clone.

`Follower` is the abstract promise, after docs/snapshot-v2.md: a store is apart,
then shows states its source went through, never an earlier one than it has
shown, or has left for good. `Replay` implements it under the refinement mapping
at its end (`IsFollower`). Two definitions of "the state after *q* events" meet
there: the rows replay produced and the fold of the source's log (`SourceStates`).

The constant `DuringRun` says what else may happen while a run or an export is
in progress. It is empty in the listed runs: neither retention on the source nor
writes on the target nor writes of the source between the two reads of an
export. The three are instances in which the promise fails (section 3);
`replay_with_cursor` takes no lock and leaves them to its caller, and `hotmem
snapshot --db` holds no ownership. Imports into the source are left to
`EventStore`.

### Runtime

Users of one store file: runtimes with writer threads, commands that hold the
ownership, and `Strays`, commands that open the store without it. The steps of
`StoreLock.acquire` and `release` are actions of their own (`CheckHeld`,
`TryLock`, `Stamp`, `Unlock`, `Unregister`), as are `Connect`, `CloseBegins`,
`CloseDb`, and for a write `Request` (`_require_db` before the wait), `Enter` or
`Busy`, `First`, `Second`, `Fail`. `Crash` is the death of a process. `pending`
is what an open SQLite transaction holds, so a commit makes durable whatever is
pending on its connection, another thread's statements included.

Abstracted: one SQLite statement is atomic, and a writer on another connection
waits while one has a transaction open. Importers (`hydrate_snapshot`) commit
twice, rows and then the import event. `Careless` are commands whose error paths
release the ownership before their connection is closed (cli.py:2470), and
`SplitHandles` takes from the OS lock that it excludes handles of one process,
which the comment at mount.py:174 says of Windows; both are off in the run, and
with either `OneWriter` fails.

### Snapshot

A directory that `write_snapshot_v2` writes in place: `memories.jsonl` is
truncated (`StartExport`), then records with their attachments (`WriteRow`; a
file that is gone or changed is not copied), then `manifest.json` is opened and
written (`OpenManifest`, `WriteManifest`); `ExporterDies` at any point leaves
what there is. `VerifySnapshot` is the dispatch of an import that finds a
manifest, `LoadVerified` its one transaction with the clone lineage it takes
when the store is empty; `StartPlain` and `FlushBatch` import what has no
manifest, each batch with a commit of its own. Both skip the records that do not
validate (`Invalid`), so a lineage has two sides: the export whose cursor it
takes, and the state that was loaded, against which divergence is judged.
`LineageIsLoaded` relates them. `Together` lets an export run during an import.

### Exchange and WholeUpdates

A source and a receiver that see each other only through directories.
`WritePackage` and `ProduceDelta` build an artifact and begin to publish it;
`MoveAside`, `MoveIn`, `MoveInFails` and `PublisherDies` are the renames of
`atomic_publish`. The receiver's `Verify` reads a directory; `LoadPackage` and
`OpenDelta` read it again (`Payload`: spooled for gz, by name for plain). A
delta is one transaction of several steps: `ApplyOperation` takes the operations
in the order of their ids, each against the rows as the ones before it left them
(`Admissible`: already applied, or the record is the one expected), `CommitDelta`
commits rows, checkpoint and receipt together, `Conflict` and `ReceiverDies` roll
back. Both sides also edit their own rows; the receiver's transaction excludes
its own edits.

`WholeUpdates` is section 6 of docs/okf/delta-v1.md as a specification over the
receiver's rows alone: they change by an edit, by records of a package it does
not hold, or by the whole of one released delta that found what it expected.
`Exchange` implements it (`WholeDeltas`), with the released artifacts, a history
variable, for its inputs.

### Handoff

The log grows by lines (`WriteLine`); `Prepare` reads it (`ReadExport`), bounds
it (`ResumeBound`), draws the brief (`Brief`) and publishes the package;
`CopyFile` carries single files to the receiver, of any published package, or
damaged. `VerifyHandoff` is the digests and the ledger lookup, `Apply` the second
read and the transaction of rows, ledger entry and event, `Fail` a crash or an
error at any point before its commit. The receiver's user deletes and adds rows.
A line of the log is never changed and stands for its text. `Brief` takes the
newest `SectionItems` lines of each of the six sections and then what fits the
budget, counted in items: trimming empties one section after the other in the
order of `Importance`, oldest item first (`Outlasts`). The list of memories in
the text, the newest 20 of those carried, is not modelled; the brief's links name
all of them.

### Access

`Resolve` binds a request to a credential of the policy object in force; the
request keeps it through its later steps. A row meets a filter and then the
disclosure that decides how it is shown, and each evaluates the approvals as they
are at that moment: `AskRead` is the filter of a read, `AskExport` and `AskRead`
the two questions of an export's filter, `Disclose` the transform. A read filters
all its rows before it discloses any; an export goes row by row, a first time
under the write slot to count (`StartExport`), a second time to write
(`StartWriting`, `Publish`). For a write there is the wait for the slot,
`Validate` and `Commit`. Meanwhile a manager's `StartRevoke`, `ReadShares`,
`StoreShares` and `AnswerRevoke` mark credentials and approvals of the object in
place, `EditFile`, `LoadFile` and `Install` put a new object in force. `Disclosure`
is what the first approval that matches says of a row, else what the credential
says, else `Defaults` where the access is only shared, and "allow" otherwise, also
where the approval that let the row through has gone since. A revocation goes through
the credentials one by one (`left`) and replaces the approvals of each by a copy
it has made (`shares`). The history variable `revoked` records what answered
revocations took away: credentials and approvals of one policy object. A request
that was resolved before a reload keeps the approvals of the old object, even
those later revoked in the new one, so revocation is immediate within one object.

### Recall

Ids in the index, the marker with the store's fingerprint, a rebuild or clear
step by step (`StartClear`, `DropMarker`, `TakeFingerprint`, `ReadRows`, `Upsert`,
`WriteMarker`), and one search step by step (`Ask`, `CheckFresh`, `CheckTexts`,
`AskIndex` or `IndexFails`, `Fetch` or `Scan`, `Reply`), while other processes
write rows and `Crash` ends the process anywhere. The fingerprint takes the
largest seq from the events table as it is (`MaxEventSeq`); `Trim` is retention,
which empties the table unless `KeepsNewest`. In the code only hygiene trims, and
it keeps 10,000 events, its own audit event among them (runtime.py:1850). The query is fixed: what it
matches, the row filter, what a policy withholds, and two orders of the rows, by
cosine and by score. `Selections` is the answer with or without a reranker,
`Conclude` the second run under a policy. `FollowerSpec` adds writes by replay,
which write no events in the store they change.

### Activity

A client that pages through `GET /v1/events` with the cursor of each answer,
while events are recorded and trimmed. `ScanPage` is one page of
`_collect_permitted_events`, `Answer` cuts the result to the limit and hands out
`next_seq`.

### Annotations

`Start` takes a file of records and a mode: `whole`, one transaction after the
file was verified (`hydrate_package`, `hydrate_v2`); `plain`, batches with commits
of their own (`hydrate`); `database`, `import_sqlite`. `Accepted` is what is left
of the file: records that are not sound, exceed the limits or, in `whole`, cite
what is not there are counted and skipped. `FlushBatch` is one batch: new records
go in, the first of each content; duplicates only bring their annotations
(`Merged`: items the row lacks are added, one it has stays, a merge over the
limits is refused). `Finish` and `ImportFails` end it; `CutOff` is what a batch
that dies leaves. `Delete` and `Annotate` (`update_memory_record`, which refuses
a row that is not sound) happen in between. `column` stands for any column with
a default and a domain; `import_sqlite` validates nothing, and a row it brings in
may later refuse to be updated.

## 3. The runs

| run | instance | what it shows |
|---|---|---|
| `store` | 2 ids, 2 namespaces, 1 content, 1 key, 3 events, 2 histories, retention of 1 event, imports | rows, log, tombstones, watermarks, ledger and marks agree under every order of keyed and other writes, trims, compactions, hygiene, imports and a history replacement; a recorded operation never executes again; a stale cursor stays stale |
| `replay` | 2 ids, 2 contents, 2 namespaces (one in scope), 3 events, pages of 2, budgets 1 and none, caller cursors, clones with rows of unknown origin | `CloneIsSourceState`, `NoResurrection`, `LocalWritesSurface`, `ResumeNeverStuck`, refinement of `Follower` |
| `hydrate` | 2 ids, 2 contents, 2 histories, a package taken at any moment, `OneBaseSpec` | the first two for clones that begin from a package, across a replaced history, where no clone that runs have emptied takes a package as its base again |
| `catchup` | 2 ids, pages of 2, budgets 1 and none, clones from the beginning or from a package | a clone that keeps replaying catches up |
| `owner` | 2 runtimes and 2 threads in one process, a command in another | one writer, whole writes, the owner named, the slot returned, no stale lock in the way |
| `snapshot` | 3 records, one with an attachment and one that does not validate, 3 exports into one directory | an import through a manifest reads all of one finished export, whoever died over the directory before; the base a clone records is what was loaded of one, skipped records left out |
| `exchange` | 2 ids, 2 contents (one no package may carry), 2 values, 2 edits, 1 local edit, 4 releases | updates arrive whole, never over an unexpected record (refinement of `WholeUpdates`); base plus deltas is the source; a checkpoint names what was applied; a publish that dies destroys nothing |
| `handoff` | a session of 2 to 5 lines, 2 packages, files mixed and damaged, 1 local change | a package is applied once and whole; nothing of the session is missing without a record; the brief resolves and lists the newest items of the most important sections |
| `access` | 2 worker threads, a manager, an owner and a guest with one shared approval that leaves secret rows to the default, 2 policy files that pass a session from one to the other | an answered revocation binds what running requests ask later; an export holds no row counted as out of scope and, unless its approvals changed, just what was counted; no row names another caller's session |
| `search` | 3 ids, one out of scope, one withheld, 1 asked for, 2 of the index, a reranker, 4 events, retention that keeps the newest | an index that reads fresh is complete; no answer is short of an eligible row |
| `annotations` | 3 ids, 2 contents, 3 annotations, limit 1, batches of 1 and 2, files of 1 to 3 records | where batches end is invisible, a restarted import converges, no row loses an annotation |
| `activity` | 5 events, 2 to a page, 2 pages to a scan | expects a violation, see below |

Bounds. Two ids are what a collision, a resurrection and a duplicate need; three
events reach create-delete-create, create-update-delete and every split of a log
over pages of 2 and budgets of 1 (a page that ends in the middle, at its end, and
a second page). Two histories give one replacement and a log with events of both.
Retention of one event makes hygiene trim. In `store` one content suffices,
because two ids collide on it in a namespace, and an update moves a row between
two namespaces; what it shows is proved for all contents (section 4). Three
finished exports, with any number between them that die, are an old manifest over
new records and a directory that recovers from it. In
`exchange` four releases are a base, its delta, another base and a delta that
arrives before or after it. In `handoff` five lines exceed the limit of entries
and of memories; two packages are needed for mixed files and for the same package
under a second handoff id, and one item of a section leaves an older one out
before the budget of two applies. In `access` two workers are a request that runs
while another one writes; with one worker, two rows and a second approval, too
many states for both, TLC finds no violation either. In `search` the nearest row is withheld and the one with the best
score out of scope, so the index offers rows that may not be returned. In `annotations`
three records of two contents fill a batch of two in every way.

`MaxSeq`, `MaxHist`, `MaxPackages`, `MaxEdits`, `MaxLocal`, `MaxReleases`,
`MaxLines`, `MaxPrepares`, `MaxRows`, `MaxPolicies`, `MaxExports` and `MaxRowid`
are bounds of the model: a system that reaches them has nothing left to do, so
most of these configurations do not check deadlock. `Runtime`, `Recall` and
`Annotations` never stop, and their runs check it.

Every module has a type invariant or states its types in an assumption. Those of
`EventStore`, `Replay`, `Runtime`, `Exchange` and `Access` are proved as such,
those of `Recall` and `Annotations` as parts of `IndexInv`, `SearchInv` and
`ImportInvariant`.

Fairness. `catchup` assumes that a caller keeps replaying (`WF` on `Resume`: the
code retries nothing itself) and that a run goes on (`WF` on `ScanPage` and
`ApplyPage`: it is a loop that waits for nobody); crashes and new imports may not
go on for ever (an import into a store that is still empty sets its checkpoint
back), and the checkpoint must stay valid, which retention may end. `owner`
assumes that a thread waiting for the slot gets it or times out and one that has
it goes on or fails (`_write_slot` waits at most `write_timeout_s`; a statement
on a closed connection raises), and, for `StaleLockNeverBlocks`, a user that
keeps trying, alone. The other modules claim only safety: in the code nothing
retries an import, a handoff, a delta or a rebuild.

`StaleLockNeverBlocks` also assumes that no live process has lost a descriptor
(`NothingLeaked`): if writing the owner payload fails, `acquire()` raises before
`_fd` is set and the lock stays taken until the process exits (mount.py:264).

### What the code does not keep

`activity` is the run of a finding: the comment at runtime.py:2064-2067 wants no
visible event passed over, but `_collect_permitted_events` cuts what it collected
to the limit (runtime.py:2018) and hands out the seq of the last event it
scanned. A client that goes on from there never gets the events cut off.

Further configurations in which TLC finds a violation, beside the listed runs:

| configuration | property | what it shows |
|---|---|---|
| `MCEventStore_retry.cfg` | `RetryReturnsOutcome` | docs/snapshot-v2.md:506-509 promises the recorded outcome to a delete retried after compaction; with row and tombstone gone the lookup probes namespace "" first (events.py:3383), may find another operation, and the retry is refused as a conflict. It never executes twice. |
| `MCReplay_trim_race.cfg` | `CloneIsSourceState` | a trim on the source between validation and the page reads makes a run skip events and move its checkpoint past them, against docs/snapshot-v2.md:398-401 |
| `MCReplay_old_cursor.cfg` | `NoResurrection` | a caller's cursor from before the clone's base, with a budget, brings back a record whose deletion the base already had, against docs/snapshot-v2.md:404-405 |
| `MCReplay_sibling.cfg` | `CloneIsSourceState` | a source and a target hydrated from one package share `base_snapshot_id`, which events.py:1218 takes as proof that the target holds the cursor's base |
| `MCReplay_rebased.cfg` | `CloneIsSourceState` | a clone that runs have emptied takes an older package as its base and keeps its tombstones of ids the package does not name (snapshot/reader.py:469): the next run with a budget skips their creation as stale and shows a state of no moment, until it has caught up |
| `MCReplay_export_race.cfg` | `CloneIsSourceState` | a write between the two reads of an export is in the package's cursor and not in its rows (interchange/package.py:258, snapshot/writer.py:299): the clone never sees it |
| `MCRuntime_import.cfg` | `OneWriter` | `hotmem import` opens its target without the ownership that mount.py:354-356 asks of offline writers |
| `MCRecall_replica.cfg` | `FreshIsComplete` | replay deletes the newest row and creates another one: count, rowid and seq are as before, the index reads fresh and misses the new row, against vector_index.py:464-467 |
| `MCRecall_emptied.cfg` | `FreshIsComplete` | all events trimmed before and after a row is replaced at a reused rowid: the fingerprint is the old one, and the index reads fresh without the new row (db.py:2322); no caller in the code trims the newest event |
| `MCRecall_rebuilding.cfg` | `NeverStarved` | without a policy there is no second run: an answer whose index was fresh when checked comes out short while a rebuild empties it |
| `MCExchange_gap.cfg` | `CheckpointIsState` | a delta that only adds applies to a receiver without its base; its checkpoint names a state the receiver does not have, against delta-v1 section 3 |
| `MCExchange_moved.cfg` | `AppliesAtBase` | content moves from one id to another; operations are ordered by id, so the new holder may meet the old one, and the delta conflicts at its own base, against delta-v1 section 6 |
| `MCHandoff_namespaces.cfg` | `ReceivedInNamespace` | ids are the package's own: hydrated into a second namespace its records meet themselves in the first, and the ledger says applied |
| `MCAccess_counts.cfg` | `ScopeDescribesArtifact` | an approval revoked between counting and emitting: the artifact is not what its scope and disclosure counts say, against the comment at runtime.py:1525 |
| `MCAccess_window.cfg` | `RevokedShowsNothing` | an approval revoked, and the revocation answered, between the filter and the disclosure of a row: no approval matches any more, and the row goes out as the credential's own action or "allow" has it where the approval redacted it (policy.py:791-802), against docs/daemon-and-management-ui.md:166 ("Revocation is immediate") |
| `MCAccess_managers.cfg` | `RevocationImmediate` | two revocations at once: each replaces the approvals of a credential by the copy it made, and the later one undoes what the earlier one revoked (policy.py:1029-1089 takes no lock) |
| `MCAnnotations_restore.cfg` | `RestoreIsComplete` | deleting a memory that another one's annotation cites: an export of the store, imported into an empty one, silently drops the citing memory, against docs/okf/annotations-v1.md:11-16 ("survive every movement path") |
| `MCAnnotations_shadowed.cfg` | `BatchesAlwaysInvisible` | a record whose id the store has for another content is not inserted, and a later record of its content in the same batch, a duplicate of nothing, loses its annotations; in a batch of its own it would have been inserted |

More are a line's change of a listed configuration. Of `Snapshot_snapshot.cfg`:
with `NothingCutOff` as its invariant, a directory whose first export died has
records and no manifest and is imported as a plain export; with `OwnAttachments`,
a manifest lists attachments that an earlier export left in the directory; with
`CloneIsWhole`, records that were skipped are missing from a clone that takes the
package's cursor all the same, as the comment at snapshot/reader.py:485 says; with
`Together = TRUE`, `ImportIsWhole` fails, because an export over the directory
between verification and load has rows imported that nobody verified. Of
`MCHandoff_handoff.cfg`: with `CopyWhileReading = TRUE`, `Received` fails, because
a file replaced between verification and insertion is inserted unverified.

`hydrate` assumes `OneBaseSpec` because of `MCReplay_rebased.cfg`. Two contents
and four events, which that counterexample needs, are too many states for the
listed run beside two histories; with `OneBaseSpec` TLC finds no violation there
(3,008,869 states), nor with one content, four events and two histories
(3,588,477).

docs/daemon-and-management-ui.md:38 says that a graceful shutdown unlinks the
lock file; `StoreLock.release` keeps it on purpose, for the reason its comment
gives, and the model follows the code.

Met while modelling, and outside what the listed properties say: an update of
relationship columns alone looks applied already to replay, whose fingerprint
leaves them out (events.py:2075); a start cursor against a new, empty history
cannot be checkpointed, and the run fails (events.py:2715); a package without a
cursor leaves the base cursor of the package before in place (db.py:1140); plain
(not gz) delta payloads are opened again by name after they were verified
(interchange/delta.py:329).

## 4. The proofs

### ReplayProofs, part one: EventStore

For any ids, namespaces, contents, keys and bounds, from `StoreAssumption`
alone (`None` and `NoKey` are values of their own; the bounds are naturals).
`IInv` is the conjunction of the type invariant, `MarksMatchLog`,
`TombstonesAreDead`, `UniqueContent`, `WatermarkCurrent`, `LogExplainsRows`,
`DeadIdsKeepTombstone` and `OneEventPerEntry`. They are inductive only together:
`DeadIdsKeepTombstone` survives a trim or a compaction because a tombstone names
the last event of its record (`MarksMatchLog`) and because a live record has no
tombstone; it survives a history replacement because no event is of a later
history than the store's. `CursorWindowIntact` follows from `MarksMatchLog`, and
`StaleCursorStaysStale` is proved from the invariant and the monotonicity of the
marks. The proof has one lemma per conjunct with one step per action.

Theorems: `StoreTyped`, `InvAlways`, `TombstonesAlwaysDead`, `MarksAlwaysMatch`,
`ContentAlwaysUnique`, `WatermarksAlwaysCurrent`, `LogAlwaysExplains`,
`CompactionSafe`, `LedgerMatchesLog`, `CursorWindowAlwaysIntact`,
`StaleForGood`, and `RetriesNeverExecute`, which needs no invariant: a retry
looks for its entry by the record's namespace and, where that finds nothing,
among all entries about the record (`EntryIsFound`).

### RuntimeProofs

`WriteInv` is inductive for every instance: types; every open connection is that
of exactly one user (`Connected`); the connection an actor works on, while it is
open, is the one its user has now, and a thread that writes has the slot
(`Current`); what a connection has pending is the first half of one write in
progress (`Whole`). `WritesAreWhole` follows with no assumption about locks:
strays, careless commands and split handles included, because a write's own
connection carries it and is rolled back or gone when it ends.

`Locked` (one descriptor has the OS lock, the owner's) is inductive where the
OS lock excludes every other descriptor (`SplitHandles = FALSE`) and gives
`OwnerIsNamed`. `Bracketed` (no connection outlives the lock) also needs
`Careless = {}`, and together with `Strays = {}` they give `OneWriterAtATime`.

### RecallProofs

`IndexNeverSilentlyIncomplete`: for every set of ids, query, row filter and
policy, where retention keeps the newest event (`KeepsNewest`). `IndexInv` says that the marker's fingerprint, and the one a rebuild has
taken, vouch for what is indexed (`Vouches`): they are not of the future, and if
no event came after them the ids they stand for are all there are. The order of
the steps makes it inductive: a clear empties the index before it drops the
marker, a rebuild has no marker while it fills the index, and it takes its
fingerprint before it reads the rows; any event makes every earlier fingerprint
stale (`EventsInvalidate`), and keeps doing so while the newest event stays in the
table (`NewestKept`), so nothing need be known about what writers do to rows. It
is false for `FollowerSpec`, where rows change without events.

`EligibleNeverStarved`: `NeverStarved` for both specifications, where a policy is
in force (`Enforced`). It asks nothing of the index, which may be stale, half
built or emptied under the search, and nothing of the writers. `SearchInv` types
the search and says that the rows are finite. Then every answer comes out of a second run
or of a first that was long enough (`Conclude`), the second run looks at all
rows in scope (`Scan`), and a selection from there is short of `TopK` only when it
has them all (`ShortSelection`), with the reranker or without. Without a policy
there is no second run and `NeverStarved` is false (`MCRecall_rebuilding.cfg`).

### AnnotationsProofs

`BatchesAreInvisible`, `TargetIsRetained` and `RestartsDoConverge`: for any ids,
contents, items, limits, batch sizes and files, from `AnnotationsAssumption`
alone. It says that a file has an id once, as exports write it. As the
properties say, the first and the last leave shadowed records out
(`MCAnnotations_shadowed.cfg`).

`ImportInvariant` says that what is left of an import are its last records, that
what it has made of the store is what the records before them make one by one
(`InStep`) and takes nothing from the store it began with (`Retains`), and that
a transaction has changed nothing yet while others have committed all of it
(`Committed`). TLC checked it on the instance of `annotations` first.

The work is that `InStep` survives a batch, in which rows are inserted first,
then duplicates of rows of the store merge, then duplicates within the batch.
Nothing but the record's content decides which row it meets, and no two rows have
one content (`Stores`), so a batch comes apart into rows. For each row, the records that
concern it, in the order in which they reach it, are the same in both
(`DuplicatesAre`, `InsertIs`); `FlushEnds` puts this together. For a batch that
was cut off, `CutOffIs` says how far each row has come, and `Absorbs` that
merging once more what an envelope has taken, or has refused because of its
limits, changes nothing; `Resumes` goes on from there.

Folds are reasoned about by steps. `FoldExists` and `FoldsBy` give the recursive
function behind a fold, `TakesBy` and `MergesBy` make its values a
sequence of stores, and what holds at every step is shown for the set of the
numbers where it holds (`UpTo`), whose complement would have a least element
(`LeastOf`, from `WFMin`). The induction theorems of the library, whose parameter
is an operator, are not needed for this.

### SnapshotProofs

`ImportsAreWhole` and `LineagesAreLoaded`: for any records, valid or not,
attachments and number of exports, assuming `Together = FALSE` (an export and an import of one directory
exclude each other, as in one daemon's write slot; section 3 says what happens
without it). `SnapshotInv` adds three parts: a manifest that
can be read is of a finished export (`Listed`), whatever became of the records
beside it; exports and imports exclude each other (`Exclusive`); and between
verification and load the records are those of a finished export (`Pending`),
which holds because nothing but an export writes to the directory.

### HandoffProofs

For any log, facts, namespaces and limits. `AppliedOnceAlways`: the invariant
`HandoffInv` says that the memories of a package, wherever it is kept, are lines
of the log (`PackagesCarried`), so its id is the same when it is verified and
when it is applied although the log has grown (`PackageIdStays`).
`RecordsAlwaysComeWithLedger` is a case analysis of the steps. Neither assumes
anything about copies. `CoverageAlwaysComplete` rests on a lemma about counting
(`FirstComeFirst`: what is not among the first k comes after all of them).
`AlwaysReceived` assumes `CopyWhileReading = FALSE`, which makes the files of a
running hydration those it verified (`Held`); with `RowsOfLines` (a row that has
a line's id has what the line says) a record that is skipped leaves one of its
content in the store: of several with one content the first line (`FirstLine`)
is inserted or met by a row of its id or content.
`BriefAlwaysResolves` counts twice. What is among the newest k of a section comes
after what is not (`NewestComeLast`), so nothing collected is older than an item
left out. And what outlasts an item that is kept is kept, because `Outlasts` is
transitive (`OutlastsTransitive`) and fewer items outlast it (`BriefOfEntries`).
`ResolvesStays`: lines that come later change nothing of it.

### ExchangeProofs

For any ids, contents, directories, encodings and bounds. `IInv` was checked by
TLC on the instance of `exchange` first. It says that whatever is at its place,
aside, staged or being read was released to that directory and is of its kind
(`DiskInv`, `PublishInv`, `ReadInv`); that no table holds a content twice
(`Table`), which keeps ids and contents apart when operations are applied one
after the other; and how far a delta has been applied (`ApplyInv`: what is no
longer to come met the record it expected).

`UpdatesAreWhole` is the refinement of `WholeUpdates`, one lemma per kind of
step: the several steps of a delta stutter and its commit is `Take`, whose
condition on every operation `ApplyInv` has collected. `ArtifactsSurvive` is a
case analysis of the renames. `BasePlusDeltasAlways` and `CheckpointsNamePayload`
assume `StablePayloads`: deltas are spooled, or nothing is published over a
directory that is being read; otherwise what is streamed need not be what was
verified (section 3). `ExchangeTyped` is the types and the unique index.

### AccessProofs

For any callers, approvals, files, rows and threads. `TypeInv` (`AccessTyped`)
types each request; `OneThread`, `NextStepOf` and the like say what a step of one
thread does to the requests of the others. `SessionsAreOwn`: a request about to
commit was validated against some policy since its resolution (`Validated`), and
policies are only added or marked, never given sessions (`SessionsStay`).

`RevocationBinds` and `CountsCover` assume one manager at a time;
`MCAccess_managers.cfg` shows that two undo each other's work. `Progress` is how
far a revocation has come, credential by credential, `RevokedHold` that what was
taken away stays away, and `Grown` that a step of a manager only takes away.

For the export, `CountInv` has two halves. Rights only shrink (`RightsShrink`), so
a row counted as out of scope has no right left when it is asked for again
(`CountScope`, `EmitScope`), whatever is revoked at whatever moment. And as long as
the approvals are as the count found them (`Same`), filter and disclosure say the
same of a row each time, so what has been dealt with is counted and written as it
would be shown now (`SamePass`, `SameCount`, `SameEmit`). That a change of the
approvals cannot be undone while the export runs is `Older` and `OlderBack`: a
revoked approval never becomes valid again.

### ReplayProofs, part two: Replay

`ReplayTyped`: whatever a run plans and applies is typed. `Plan` and `ApplyAll`
are recursive functions over the positions of the log; `PlanIs` and `ApplyAllIs`
unfold them and `UpTo` is the induction, on a set of positions. `WritesSurface`
assumes that nothing writes to the target while a run is under way.

`CloneShowsSource` and `DeletedStaysDeleted` rest on `ReplayInv`, which holds page
by page:

- `SourceInv` adds to `IInv` that histories come in order and the epoch mark
  separates them, that an id is never drawn twice and that it keeps its namespace.
- `PackagesInv`: the rows of a package are those of the log up to where it was
  taken, and between its cursor and there nothing can be read again.
- `CloneInv`: a clean clone holds the state of its source at `seen` (`Following`),
  and what a later run reads again below that it skips. This is where watermarks
  and tombstones are needed.
- `RunInv`: rows, tombstones and watermarks of the simulated clone are what the
  events planned so far make of the clone (`SimIs`, `RowsBy`); every event read is
  planned, overtaken by a later one of its record, or rightly skipped (`Settled`);
  and what the open transaction holds is what the plan makes up to the last page
  (`TablesBy`).

Pass 1 keeps it event by event (`ScanSound`), pass 2 finds each planned event
applicable in turn (`ApplyOne`), a commit turns the one into the other
(`CommitSound`), and the source only appends (`CloneHoldsStays`, `PackageStays`);
that a cursor the source accepts misses nothing is `CursorWindowAlwaysIntact`.
TLC checked `ReplayInv` on the instances of `hydrate`, `replay` and a third one
with two histories first.

The two theorems assume `Undisturbed`, which the listed runs instantiate: nothing
is trimmed, exported or written to the target between the steps of a run or an
export, no common base, and packages only where cursors are for all namespaces
and callers bring none of their own. `MCReplay_trim_race.cfg`,
`MCReplay_export_race.cfg`, `MCReplay_sibling.cfg` and `MCReplay_old_cursor.cfg`
each violate a property where one of these fails (section 3). With packages they
are theorems of `OneBaseSpec`, which is also the specification `hydrate` checks: a
clone that runs have emptied takes no package as its base again (`Rebases`,
`MCReplay_rebased.cfg`). The records of a package validate, as a store's writers
see to; what an import that skips records leaves is in `Snapshot`.
`ReplayAloneIsExact` needs no assumption on behaviours, and covers callers' own
cursors, any scope and rows of unknown origin.

`ReplayFollows` is the refinement of `Follower`, where history is never replaced
and no package is about: `StatesAreExact` says that the fold of the log is what
`State` describes position by position, `StatesStay` that the source never revises
it, `CommitJoins` that a commit takes the clone to one of these states and no
earlier one.

`ResumesUnhindered` adds two invariants. `GroundInv`: a record is created once,
what an event updates or deletes is what the event before it left, and no event
writes content that another record has then. `BuriedInv`: a tombstone of a clean
clone is of a deletion it has been through. Planning from the checkpoint is then an
induction over its window (`ResumePlans`): up to `seen` each event is skipped
(`SeenSkips`, from `Following`); after it the simulated rows are those of the
source just before the event (`TrialShows`), on which it applies (`NewApplies`).
It needs one history: TLC finds that a clone taken by replay alone from a replaced
history is refused at the next update of a row written before, which it never had
(`replay` with `MaxHist = 1` and four events); such a clone needs a package.

### Only model-checked

Every invariant and every action property of the passing runs is stated by a
theorem. What only TLC checks is liveness (`CatchesUp`, `SlotComesBack`,
`StaleLockNeverBlocks`), which is out of the prover's reach, and, since a
counterexample is no theorem, the violations of section 3.

## 5. Plan

Not begun, in the order of their worth:

1. `Lineage`: all of `compare_mount_lineage` with forks, restores and moved
   mounts, against a reference definition by ancestry.
2. `Lifecycle`: the table of promotion transitions over `Update`.

## 6. Not modelled

- Embedding vectors, content hashing, field selection, the scores of a search
  and the character budget: pure functions over texts and numbers. A row's
  embedding is one of three kinds in `Recall`, scores are constant orders.
- Bundles, importers, inspectors, the storage adapter, provenance and the report
  of a hygiene check: formats and reads.
- What redaction does to a text, truncation, names and depth of annotations,
  canonical JSON: a text is a value, a digest what it identifies.
- `replay()` and `replay_into()`, the unanchored predecessors of cursor replay,
  and `apply_event_range`; legacy payloads without a schema version.
- HTTP and MCP transport, the UI and the clients. The embedded MCP server writes
  through its connection one call at a time, without the slot and without events.
- TTL, archiving, schema migration, `read_owner`'s diagnostics.
- Adapters, the TypeScript client, benchmarks, scripts and examples, which are
  outside the package.
