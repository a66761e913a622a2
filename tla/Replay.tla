-------------------------------- MODULE Replay --------------------------------
(***************************************************************************)
(* A clone that follows a store by replaying its event log                 *)
(* (hotmem/events.py: issue_replay_cursor, validate_replay_cursor,         *)
(* replay_with_cursor; hotmem/db.py: record_clone_lineage;                 *)
(* hotmem/mount.py: compare_mount_lineage; hotmem/snapshot: a package and  *)
(* its hydration).                                                         *)
(*                                                                         *)
(* The source is EventStore.  The clone is a second store, reached by one  *)
(* replay run at a time.  A run reads the source page by page with no      *)
(* transaction around the reads: Begin resolves and validates the cursor,  *)
(* ScanPage is one page of pass 1 (planning, nothing written), ApplyPage   *)
(* one page of pass 2, all of whose writes commit together at the end.     *)
(***************************************************************************)
EXTENDS EventStore

CONSTANTS
  PageSize,    \* events read at a time (500 in the code)
  Budgets,     \* values of max_events, None for no budget
  Scope,       \* the namespace of the cursors, None for all
  SharedBase,  \* source and clone were hydrated from one package before
  Preloaded,   \* rows a store older than the event log may hold, and an id
               \* it shares with the source names the same row
  MaxPackages, \* bound: snapshots taken of the source
  AnyCursor,   \* callers pass cursors of their own, and not only None
  DuringRun    \* what else may happen while a run or an export is under way

VARIABLES
  clone,    \* the target store
  packages, \* the snapshots taken of the source
  exporting, \* the rows of a snapshot whose cursor is not read yet, or None
  run       \* the replay in progress, None between runs

vars == <<storeVars, clone, packages, exporting, run>>

-----------------------------------------------------------------------------
\* anchor is the event_id, which stands for the event with that seq.
Cursor == [hist : Nat, seq : Nat, anchor : Nat]

\* The history of the events the clone writes itself.
LocalHist == MaxHist + 1

Rows == [Ids -> Row \cup {None}]
Tombs == [Ids -> Tombstone \cup {None}]
Wms == [Ids -> Watermark \cup {None}]

\* The tables that replay writes.
Tables == [rows : Rows, tombs : Tombs, wms : Wms]

Clone ==
  [rows   : Rows, tombs : Tombs, wms : Wms,
   bound  : BOOLEAN,                    \* has the mount id of the source
   source : Nat \cup {None},            \* base_source_replica_id
   base   : (SUBSET Row) \cup {None},   \* base_lineage_fingerprint
   saved  : Cursor \cup {None},         \* last_replay_cursor, base_cursor
   events : BOOLEAN,                    \* its own log is not empty
   dirty  : BOOLEAN,                    \* mutating events since cloned_at_seq
   wrote  : BOOLEAN,                    \* history: written to after its base
   seen   : Nat]                        \* history: the events it has been through

Sim ==
  [rows    : Rows, tombs : Tombs, wms : Wms,
   loaded  : SUBSET Ids,                \* ids read from the clone so far
   mutated : SUBSET Ids,                \* ids an earlier event changed
   plan    : SUBSET Nat,                \* events to apply
   failed  : BOOLEAN]

Run ==
  [phase  : {"scan", "apply"},
   cursor : Cursor, start : Nat, budget : Nat \cup {None},
   at     : Nat,                        \* last event of the page before
   last   : Nat,                        \* last event planned
   scanned : Nat,
   sim    : Sim,
   staged : Tables \cup {None}]         \* what the open transaction holds

Package ==
  [rows : Rows, hist : Nat, through : Nat, cursor : Cursor \cup {None}]
Export == [rows : Rows, through : Nat]

ASSUME ReplayAssumption ==
  /\ PageSize \in Nat \ {0}
  /\ Budgets \subseteq (Nat \ {0}) \cup {None}
  /\ Scope \in Namespaces \cup {None}
  /\ SharedBase \in BOOLEAN /\ MaxPackages \in Nat /\ AnyCursor \in BOOLEAN
  /\ Preloaded \subseteq Row
  /\ DuringRun \subseteq {"trim", "write", "export"}
  /\ None \notin Nat \cup Cursor \cup Tables \cup Export \cup Run
  /\ \A base \in SUBSET Row : base # None

LiveRows(rs) == {rs[x] : x \in Ids} \ {None}
HolderIn(rs, r) ==
  {x \in Ids : rs[x] # None /\ rs[x].ns = r.ns /\ rs[x].hash = r.hash}

-----------------------------------------------------------------------------
(* Cursors.                                                                *)

At(seq) == [hist |-> meta.hist, seq |-> seq, anchor |-> seq]

\* issue_replay_cursor: no start cursor once history is trimmed, no anchor
\* that is not in the log.
Issuable(seq) == IF seq = 0 THEN meta.trimmed = 0 ELSE seq \in Retained

\* The cursors of this history a caller may have been given; one of an
\* earlier history is refused.
Issued == {At(s) : s \in 0..End}

\* Mutant: events of the clone's own are not looked at.
Diverged_StateOnly == clone.base # None /\ LiveRows(clone.rows) # clone.base

\* compare_mount_lineage(source, clone): never "fork" or "replacement".
Diverged == clone.dirty \/ (clone.base # None /\ LiveRows(clone.rows) # clone.base)
CleanClone == (clone.source = meta.hist \/ SharedBase) /\ ~Diverged

\* The cursor was issued for this mount, replica, history and base.
FromSource(c) == c.hist = meta.hist

\* validate_replay_cursor.
Valid(c) ==
  /\ FromSource(c)
  /\ Accepts(c.seq) /\ c.anchor = c.seq
  /\ c.seq > 0 /\ ~clone.events =>
       \/ clone.saved # None /\ clone.saved.hist = c.hist
          /\ clone.saved.seq >= c.seq
       \/ SharedBase
  /\ clone.bound \/ clone.events => clone.bound /\ CleanClone

-----------------------------------------------------------------------------
(* Pass 1: one event against the simulated clone.                          *)

NsAt(s) == IF log[s].row = None THEN DefaultNs ELSE log[s].row.ns
InScope(s) == Scope \in {None, NsAt(s)}

\* query_events(after_seq = p): what is there to read after event p.
Later(p) == {s \in Retained : p < s /\ InScope(s)}

\* The first n of them.
First(S, n) == {s \in S : Cardinality({t \in S : t <= s}) <= n}

\* Mutants: the page starts one event late; the namespace is not filtered.
Page_OneLate(p) == First(Later(p + 1), PageSize)
Page_AllNamespaces(p) == First({s \in Retained : p < s}, PageSize)

\* ... and limit = PageSize.
Page(p) == First(Later(p), PageSize)

\* The last event of a page, where there is one.
LastOf(page, otherwise) ==
  IF page = {} THEN otherwise ELSE CHOOSE s \in page : \A t \in page : t <= s

\* _load_target_replay_candidates: the rows the page names by id or content,
\* unless an earlier page has brought them in.
Load(sim, page) ==
  LET evs   == {log[s] : s \in page}
      named == {e.id : e \in evs} \cup
               UNION {HolderIn(clone.rows, r) :
                        r \in (UNION {{e.row, e.prev} : e \in evs}) \ {None}}
      new   == (named \cap Ids) \ sim.loaded
      Bring(old, cur) == [x \in Ids |-> IF x \in new THEN cur[x] ELSE old[x]]
  IN  [sim EXCEPT !.rows  = Bring(sim.rows, clone.rows),
                  !.tombs = Bring(sim.tombs, clone.tombs),
                  !.wms   = Bring(sim.wms, clone.wms),
                  !.loaded = sim.loaded \cup new]

\* Mutant: tombstones of the clone are not looked at.
Tombstoned_Ignored(sim, x) == FALSE

Tombstoned(sim, x) == sim.tombs[x] # None

\* Mutant: the watermark covers every later event, not only earlier ones.
Covered_Always(sim, s, hist) ==
  LET x == log[s].id
  IN  /\ sim.wms[x] # None /\ x \notin sim.mutated
      /\ sim.wms[x].hist = hist
      /\ sim.wms[x].fp = Fingerprint(sim.rows[x])

\* The replay watermark says the clone's row already reflects the event.
Covered(sim, s, hist) ==
  LET x == log[s].id
  IN  /\ sim.wms[x] # None /\ x \notin sim.mutated
      /\ sim.wms[x].seq >= s /\ sim.wms[x].hist = hist
      /\ sim.wms[x].fp = Fingerprint(sim.rows[x])

\* The event is of the history that is replayed; that it is well formed and
\* about the record it names is abstracted, as the source writes no others.
OfHistory(s, hist) == log[s].hist = hist

\* What the event declares is what its record comes to.
Declared(s) == Fingerprint(log[s].row)

\* The event is covered by what the clone already holds.
Skips(sim, s, hist) ==
  LET e == log[s]  live == sim.rows[e.id]  tomb == sim.tombs[e.id]
  IN  IF Tombstoned(sim, e.id)
      THEN /\ s <= tomb.seq /\ tomb.hist = hist /\ e.id \notin sim.mutated
           /\ e.type = "deleted" => live = None
      ELSE /\ live # None /\ e.type # "deleted"
           /\ Fingerprint(live) = Declared(s) \/ Covered(sim, s, hist)

\* The event applies to the state it says it was written on.
Creates(sim, s) ==
  LET e == log[s]
  IN  /\ e.type = "created" /\ sim.rows[e.id] = None
      /\ HolderIn(sim.rows, e.row) = {}

Updates(sim, s) ==
  LET e == log[s]
  IN  /\ e.type = "updated" /\ sim.rows[e.id] # None
      /\ Fingerprint(sim.rows[e.id]) = Fingerprint(e.prev)
      /\ HolderIn(sim.rows, e.row) \subseteq {e.id}

Deletes(sim, s) ==
  LET e == log[s]
  IN  /\ e.type = "deleted" /\ sim.rows[e.id] # None
      /\ Fingerprint(sim.rows[e.id]) = Declared(s)

Applies(sim, s) ==
  /\ ~Tombstoned(sim, log[s].id)
  /\ Creates(sim, s) \/ Updates(sim, s) \/ Deletes(sim, s)

\* The state that the events after it are planned on.
Simulate(sim, s, hist) ==
  LET e == log[s]
  IN  [sim EXCEPT
         !.rows[e.id] = After(e),
         !.tombs[e.id] = IF e.type = "deleted"
                         THEN [ns |-> e.row.ns, seq |-> s, hist |-> hist]
                         ELSE @,
         !.mutated = @ \cup {e.id},
         !.plan = @ \cup {s}]

\* _validate_and_plan_event_step.
PlanStep(sim, s, hist) ==
  IF sim.failed \/ log[s].type = "observed" THEN sim
  ELSE IF ~OfHistory(s, hist) THEN [sim EXCEPT !.failed = TRUE]
  ELSE IF Skips(sim, s, hist) THEN sim
  ELSE IF Applies(sim, s) THEN Simulate(sim, s, hist)
  ELSE [sim EXCEPT !.failed = TRUE]

\* A page of events, one after the other.
Plan(sim, page, hist) ==
  LET upto[s \in 0..End] ==
        IF s = 0 THEN Load(sim, page)
        ELSE IF s \in page THEN PlanStep(upto[s - 1], s, hist) ELSE upto[s - 1]
  IN  upto[End]

EmptySim ==
  [rows |-> [x \in Ids |-> None], tombs |-> [x \in Ids |-> None],
   wms |-> [x \in Ids |-> None], loaded |-> {}, mutated |-> {},
   plan |-> {}, failed |-> FALSE]

-----------------------------------------------------------------------------
(* Pass 2: one event against the clone, inside the transaction.            *)

ApplyStep(c, s, hist) ==
  LET e  == log[s]
      wm == [fp |-> Fingerprint(e.row), seq |-> s, hist |-> hist]
  IN  CASE e.type = "created" ->      \* INSERT OR IGNORE
             LET put == c.rows[e.id] = None /\ HolderIn(c.rows, e.row) = {}
             IN  [c EXCEPT !.rows[e.id] = IF put THEN e.row ELSE @,
                           !.wms[e.id] = IF put \/ c.rows[e.id] # None
                                         THEN wm ELSE @]
        [] e.type = "updated" /\ c.rows[e.id] # None ->
             [c EXCEPT !.rows[e.id] = e.row, !.wms[e.id] = wm]
        [] e.type = "deleted" ->
             [c EXCEPT !.rows[e.id] = None, !.wms[e.id] = None,
                       !.tombs[e.id] = [ns |-> e.row.ns, seq |-> s,
                                        hist |-> e.hist]]
        [] OTHER -> c

ApplyAll(c, page, hist) ==
  LET upto[s \in 0..End] ==
        IF s = 0 THEN c
        ELSE IF s \in page THEN ApplyStep(upto[s - 1], s, hist) ELSE upto[s - 1]
  IN  upto[End]

-----------------------------------------------------------------------------
(* A replay run.                                                           *)

\* Validation, and the refusal of a budget for an unbound store with rows.
Unproven == ~clone.bound /\ ~clone.events /\ clone.saved = None
              /\ LiveRows(clone.rows) # {}

Begin(c, budget) ==
  /\ run = None
  /\ UNCHANGED <<storeVars, clone, packages, exporting>>
  /\ Valid(c)
  /\ ~(Unproven /\ budget # None)
  /\ LET start == Larger(c.seq, meta.epoch)
     IN  run' = [phase |-> "scan", cursor |-> c, start |-> start,
                 budget |-> budget, at |-> start, last |-> start,
                 scanned |-> 0, sim |-> EmptySim, staged |-> None]

\* Mutant: the checkpoint stays where the run began.
Checkpoint_NotAdvanced(r) ==
  [hist |-> r.cursor.hist, seq |-> r.start, anchor |-> r.start]

\* The checkpoint the run would leave: seq and anchor of the last event.
Checkpoint(r) ==
  [hist |-> r.cursor.hist, seq |-> r.last,
   anchor |-> IF r.scanned = 0 THEN r.cursor.anchor ELSE r.last]

\* ReplayCursor.encode refuses a seq without an anchor.
Encodable(c) == (c.seq = 0) = (c.anchor = 0)

\* Mutant: rows of unknown origin are adopted.
Foreign_Adopted(r) == FALSE

\* A row of an unproven store that no event of the window is about.
Foreign(r) ==
  /\ Unproven
  /\ \E y \in LiveRows(clone.rows) :
       \A s \in Retained \cap (r.start + 1)..r.last :
         log[s].type \in Reconstructing /\ InScope(s) =>
           ~(log[s].row.ns = y.ns /\ log[s].row.hash = y.hash)

\* The end of pass 1: refuse, return at once, or go on to pass 2.
ScanEnd(r) ==
  IF r.sim.failed \/ Foreign(r) \/ ~Encodable(Checkpoint(r)) THEN None
  ELSE IF r.scanned = 0 /\ clone.saved = r.cursor THEN None
  ELSE [r EXCEPT !.phase = "apply", !.at = r.start]

ScanPage ==
  /\ run # None /\ run.phase = "scan"
  /\ UNCHANGED <<storeVars, clone, packages, exporting>>
  /\ LET page  == Page(run.at)
         taken == IF run.budget = None THEN page
                  ELSE First(page, run.budget - run.scanned)
     IN  \E r \in {[run EXCEPT
                      !.sim = Plan(run.sim, taken, run.cursor.hist),
                      !.scanned = @ + Cardinality(taken),
                      !.last = LastOf(taken, @),
                      !.at = LastOf(page, @)]} :
           LET done == \/ r.sim.failed \/ Cardinality(page) < PageSize
                       \/ r.budget # None /\ r.scanned >= r.budget
           IN  run' = IF done THEN ScanEnd(r) ELSE r

\* record_clone_lineage and the checkpoint, committed with the rows.
Commit(c, r) ==
  [clone EXCEPT !.rows = c.rows, !.tombs = c.tombs, !.wms = c.wms,
                !.bound = TRUE, !.source = r.cursor.hist,
                !.base = LiveRows(c.rows), !.saved = Checkpoint(r),
                !.dirty = FALSE, !.seen = Larger(@, r.last)]

ApplyPage ==
  /\ run # None /\ run.phase = "apply"
  /\ UNCHANGED <<storeVars, packages, exporting>>
  /\ LET page  == Page(run.at)
         taken == {s \in page : run.budget = None \/ s <= run.last}
         from  == IF run.staged # None THEN run.staged
                  ELSE [rows |-> clone.rows, tombs |-> clone.tombs,
                        wms |-> clone.wms]
         after == ApplyAll(from, taken \cap run.sim.plan, run.cursor.hist)
         done  == \/ Cardinality(page) < PageSize \/ taken # page
                  \/ run.budget # None /\ LastOf(page, run.at) >= run.last
     IN  IF done
         THEN clone' = Commit(after, run) /\ run' = None
         ELSE /\ run' = [run EXCEPT !.staged = after, !.at = LastOf(page, @)]
              /\ UNCHANGED clone

\* The process dies or the caller's call fails: the transaction rolls back.
Crash == run # None /\ run' = None /\ UNCHANGED <<storeVars, clone, packages, exporting>>

-----------------------------------------------------------------------------
(* Snapshots, and what the clone does on its own.                          *)

\* A head cursor, or none once all of the history is trimmed.
PackageCursor == IF HeadSeq > MaxPresent THEN None ELSE At(HeadSeq)

\* write_snapshot_v2 and write_package read the rows ...
SnapshotRows ==
  /\ exporting = None
  /\ Cardinality(packages) < MaxPackages      \* bound
  /\ exporting' = [rows |-> rows, through |-> End]
  /\ UNCHANGED <<storeVars, clone, packages, run>>

\* ... and then, in a read of its own, the identity and the head.  A daemon
\* holds its write slot around both; hotmem snapshot --db holds nothing.
SnapshotCursor ==
  /\ exporting # None /\ exporting' = None
  /\ packages' = packages \cup
       {[rows |-> exporting.rows, hist |-> meta.hist,
         through |-> exporting.through, cursor |-> PackageCursor]}
  /\ UNCHANGED <<storeVars, clone, run>>

\* A store with neither rows nor events.
Blank == LiveRows(clone.rows) = {} /\ ~clone.events

\* hydrate_v2: records the store has by id or content are skipped, those of
\* the package forget their deletion, and a blank store takes the package as
\* its base.  The records are those of a store whose writers validate them,
\* so none is skipped as invalid (Snapshot).  The import event is a commit
\* of its own.
Hydrate(package) ==
  /\ run = None
  /\ UNCHANGED <<storeVars, packages, exporting, run>>
  /\ LET named == {x \in Ids : package.rows[x] # None}
         put   == {x \in named : /\ clone.rows[x] = None
                                 /\ HolderIn(clone.rows, package.rows[x]) = {}}
         loaded == [clone EXCEPT
           !.rows  = [x \in Ids |-> IF x \in put THEN package.rows[x] ELSE @[x]],
           !.tombs = [x \in Ids |-> IF x \in named THEN None ELSE @[x]],
           !.wms   = [x \in Ids |-> IF x \in named THEN None ELSE @[x]]]
         based == [loaded EXCEPT
           !.bound = TRUE, !.source = package.hist,
           !.base  = LiveRows(loaded.rows),
           !.saved = IF package.cursor = None THEN @ ELSE package.cursor,
           !.seen  = package.through]
     IN  \E logged \in {clone.events, TRUE} :
           clone' = [(IF Blank THEN based ELSE loaded) EXCEPT !.events = logged]

\* An add, update or delete of the clone's own.
CloneWrite(x, r) ==
  /\ IF run = None THEN TRUE ELSE "write" \in DuringRun /\ run.staged = None
  /\ clone.rows[x] # r /\ clone.tombs[x] = None
  /\ r # None => HolderIn(clone.rows, r) \subseteq {x}
  /\ clone.rows[x] = None => \A s \in 1..End : log[s].id # x
  /\ clone' = [clone EXCEPT
       !.rows[x] = r,
       !.tombs[x] = IF r = None THEN [ns |-> clone.rows[x].ns, seq |-> 1,
                                      hist |-> LocalHist] ELSE @,
       !.wms[x] = IF r = None \/ clone.rows[x] = None THEN None
                  ELSE [fp |-> Fingerprint(r), seq |-> 1, hist |-> LocalHist],
       !.events = TRUE, !.dirty = TRUE, !.wrote = clone.source # None]
  /\ UNCHANGED <<storeVars, packages, exporting, run>>

-----------------------------------------------------------------------------
ReplayInit ==
  /\ Init
  /\ packages = {} /\ exporting = None /\ run = None
  /\ \E rs \in [Ids -> Preloaded \cup {None}] :
       /\ \A x \in Ids : rs[x] # None => HolderIn(rs, rs[x]) = {x}
       /\ clone = [rows |-> rs, tombs |-> [x \in Ids |-> None],
                   wms |-> [x \in Ids |-> None], bound |-> SharedBase,
                   source |-> None, base |-> None,
                   saved |-> IF SharedBase
                             THEN [At(0) EXCEPT !.hist = LocalHist] ELSE None,
                   events |-> FALSE, dirty |-> FALSE, wrote |-> FALSE,
                   seen |-> 0]

SourceStep ==
  /\ exporting # None => "export" \in DuringRun
  /\ \/ LocalWrite
     \/ (run = None \/ "trim" \in DuringRun) /\ Retention
     \/ run = None /\ ReplaceHistory
  /\ \A x \in Ids : rows'[x] # None /\ rows[x] = None =>    \* uuid4
       /\ clone.tombs[x] = None
       /\ clone.rows[x] \in {None, IF clone.events THEN None ELSE rows'[x]}
  /\ UNCHANGED <<clone, packages, exporting, run>>

\* cursor=None resumes from the checkpoint, or starts from the beginning.
Resume(budget) ==
  IF clone.saved # None THEN Begin(clone.saved, budget)
  ELSE Issuable(0) /\ Begin(At(0), budget)

ReplayStep ==
  \/ \E b \in Budgets :
       Resume(b) \/ (AnyCursor /\ \E c \in Issued : Begin(c, b))
  \/ ScanPage \/ ApplyPage

CloneStep ==
  \/ SnapshotRows \/ SnapshotCursor
  \/ \E package \in packages : Hydrate(package)
  \/ \E x \in Ids, r \in NewRow \cup {None} : CloneWrite(x, r)

ReplayNext == SourceStep \/ ReplayStep \/ Crash \/ CloneStep

-----------------------------------------------------------------------------
(* Properties.                                                             *)

ReplayTypeOK ==
  /\ clone \in Clone
  /\ packages \subseteq Package
  /\ exporting \in Export \cup {None}
  /\ run \in Run \cup {None}

\* The row of every record of the scope after the events p + 1..q, had there
\* been none before them.
State(p, q) ==
  [x \in Ids |->
     LET S == {s \in (p + 1)..q : Touches(s, x) /\ InScope(s)}
     IN  IF S = {} THEN None ELSE After(log[CHOOSE s \in S : \A t \in S : t <= s])]

SameRecords(a, b) ==
  \A x \in Ids : (a[x] = None) = (b[x] = None)
                 /\ (a[x] # None => Fingerprint(a[x]) = Fingerprint(b[x]))

\* How many events are of the histories before h.
Epoch(h) == Cardinality({s \in 1..End : log[s].hist < h})

\* A clone nobody has written to holds a state the source went through, one
\* at or after its checkpoint: no event between was skipped, applied twice
\* or out of order.  A clone that started from a replaced history without
\* a package holds what was written in that history.
CloneIsSourceState ==
  clone.saved # None /\ ~Diverged /\ clone.source = clone.saved.hist =>
    \E q \in clone.saved.seq..End, p \in {0, Epoch(clone.source)} :
      SameRecords(clone.rows, State(p, q))

\* A record whose deletion the clone has been through stays deleted.
NoResurrection ==
  ~Diverged => \A x \in Ids, s \in 1..clone.seen :
                 log[s].type = "deleted" /\ log[s].id = x => clone.rows[x] = None

\* A write of the clone's own is never taken for state of the source.
LocalWritesSurface == clone.wrote => Diverged

\* The next replay of a clean clone from its checkpoint cannot be refused by
\* an event of its window, whatever was written and trimmed in between.  This
\* is of one history: after a replacement a run can be refused.
ResumeNeverStuck ==
  clone.saved # None /\ clone.source # None /\ Valid(clone.saved) =>
    ~Plan(EmptySim, Later(clone.saved.seq), meta.hist).failed

-----------------------------------------------------------------------------
ReplaySpec == ReplayInit /\ [][ReplayNext]_vars

\* A clone that runs have emptied, with no event of its own, takes a package
\* as its base anew.  It keeps the tombstones the package does not name.
Rebases ==
  /\ Blank /\ clone.source # None
  /\ \E package \in packages : Hydrate(package)

\* What is assumed of the caller where packages are about.
OneBaseSpec == ReplayInit /\ [][ReplayNext /\ ~Rebases]_vars

\* A caller that keeps replaying, and runs that go on until they end.
FairSpec ==
  /\ ReplaySpec
  /\ WF_vars(\E b \in Budgets : Resume(b))
  /\ WF_vars(ScanPage) /\ WF_vars(ApplyPage)

\* A replay from the checkpoint would be let in.
CanResume == IF clone.saved # None THEN Valid(clone.saved)
             ELSE Issuable(0) /\ Valid(At(0))

\* A clone whose checkpoint the source still accepts ends up with no event
\* left to read, unless crashes never stop or it is hydrated again and
\* again: an import into a store that is still empty sets its checkpoint
\* back.  (The end of a run that changes nothing looks like a crash, and is
\* none.)
CatchesUp ==
  <>[][/\ Crash => ScanPage \/ ApplyPage
       /\ \A package \in packages : ~Hydrate(package)]_vars =>
    <>[](CanResume => clone.saved # None /\ Page(clone.saved.seq) = {})

\* The refinement mapping: what a row says, and the states the source went
\* through in the scope, event by event.
Facts(rs) == [x \in Ids |-> IF rs[x] = None THEN None ELSE Fingerprint(rs[x])]
Told(facts, s) ==
  IF log[s].type \in Reconstructing /\ InScope(s)
  THEN [facts EXCEPT ![log[s].id] =
          IF log[s].type = "deleted" THEN None ELSE Fingerprint(log[s].row)]
  ELSE facts

SourceStates ==
  LET told[s \in 0..End] ==
        IF s = 0 THEN [x \in Ids |-> None] ELSE Told(told[s - 1], s)
  IN  [i \in 1..(End + 1) |-> told[i - 1]]

Promise ==
  INSTANCE Follower WITH
    states    <- SourceStates,
    copy      <- Facts(clone.rows),
    at        <- clone.seen,
    phase     <- IF Diverged THEN "gone"
                 ELSE IF clone.source = None THEN "apart" ELSE "following"

\* The clone is a follower of the source: no interleaving of page reads,
\* budgets, crashes and resumes shows a torn or an older state.
IsFollower == Promise!Spec
=============================================================================
