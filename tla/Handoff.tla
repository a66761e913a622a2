------------------------------- MODULE Handoff -------------------------------
(***************************************************************************)
(* Session handoff (hotmem/handoff): a session log is read into a package  *)
(* (entries, memories, a resume brief, a report of what was left out), the *)
(* package's files are carried to the receiver one by one, and hydration   *)
(* verifies them, reads them again and inserts what they hold, once per    *)
(* package, in one transaction with a ledger row and an event.             *)
(*                                                                         *)
(* A line of the log is never changed, so its position stands for it.      *)
(***************************************************************************)
EXTENDS Integers, Sequences, FiniteSets, SequencesExt

CONSTANTS
  Facts,        \* what memory items say (identifier and text)
  Namespaces,   \* namespaces of the receiving store that are hydrated into
  None,         \* no package, no hydration
  Bad,          \* a file that is missing or damaged
  HeadTurns, TailTurns, \* turns of a resume package kept at either end
  MaxEntries, MaxMemories,  \* Limits
  Written,      \* kinds of section items that lines of the log may be
  SectionItems, \* _PER_SECTION_ITEMS
  BriefItems,   \* brief_char_budget, in items
  Start,        \* the log when the first package may be prepared
  MaxLines,     \* bound: length of the log
  MaxPrepares,  \* bound: packages prepared
  MaxLocal,     \* bound: changes the receiver's user makes
  CopyWhileReading  \* files arrive between verification and insertion

VARIABLES
  log,        \* the source session's log
  published,  \* the package at the output path
  prepared,   \* history variable: every package prepared
  copy,       \* the files of the receiver's copy
  job,        \* the hydration that has verified its package
  rows,       \* memories of the receiving store
  ledger,     \* handoff_ledger
  applied,    \* handoff.applied events, in order
  local       \* changes made by the receiver's user

vars == <<log, published, prepared, copy, job, rows, ledger, applied, local>>
source == <<log, published, prepared>>
store == <<rows, ledger, applied, local>>

-----------------------------------------------------------------------------
(* Reading the session and writing the package.                            *)

Turns == {"user", "assistant"}

\* Where the sections of a brief come in _TRIM_ORDER, by the kind of their
\* items.  What comes last is trimmed last.
Importance == [file |-> 1, tool |-> 2, decision |-> 3, commitment |-> 4,
               question |-> 5, next_action |-> 6]
Sections == DOMAIN Importance

Line == [kind : Turns \cup Written \cup {"hidden"}]
          \cup [kind : {"memory"}, fact : Facts]

ASSUME HandoffAssumption ==
  /\ Written \subseteq Sections /\ Start \in Seq(Line)
  /\ {HeadTurns, TailTurns, MaxEntries, MaxMemories} \subseteq Nat
  /\ {SectionItems, BriefItems} \subseteq Nat
  /\ {MaxLines, MaxPrepares, MaxLocal} \subseteq Nat
  /\ CopyWhileReading \in BOOLEAN

First(S, k) == {i \in S : Cardinality({j \in S : j < i}) < k}
Newest(S, k) == {i \in S : Cardinality({j \in S : j > i}) < k}

OfKind(kinds) == {i \in DOMAIN log : log[i].kind \in kinds}

\* Stands in the report for the entries over MaxEntries, which are recorded
\* together.
Capped == 0

\* read_codex_export: hidden prompts are left out, memories and entries are
\* capped, each with a record of it.
ReadExport ==
  LET lines    == OfKind(Turns \cup Sections)
      entries  == First(lines, MaxEntries)
      items    == OfKind({"memory"})
      memories == First(items, MaxMemories)
  IN  [entries |-> entries, memories |-> memories,
       omitted |-> OfKind({"hidden"}) \cup (items \ memories)
                     \cup (IF lines = entries THEN {} ELSE {Capped})]

\* Mutant: what the bound leaves out is not reported.
ResumeBound_Silent(session) ==
  LET turns == session.entries \cap OfKind(Turns)
      kept  == First(turns, HeadTurns) \cup Newest(turns, TailTurns)
  IN  [session EXCEPT !.entries = (@ \ turns) \cup kept]

\* _resume_bound: of the turns only the first and the last stay.
ResumeBound(session) ==
  LET turns == session.entries \cap OfKind(Turns)
      kept  == First(turns, HeadTurns) \cup Newest(turns, TailTurns)
  IN  [session EXCEPT !.entries = (@ \ turns) \cup kept,
                      !.omitted = @ \cup (turns \ kept)]

\* Trimming drops i before j: its section is less important, or it is the
\* older item of the same section.
Outlasts(j, i) ==
  \/ Importance[log[j].kind] > Importance[log[i].kind]
  \/ log[j].kind = log[i].kind /\ j > i

\* build_brief: the first user turn; of each section the newest items
\* (_collect), and of these what fits the budget (_trim_to_budget).
Brief(session) ==
  LET of(kind)  == session.entries \cap OfKind({kind})
      collected == UNION {Newest(of(kind), SectionItems) : kind \in Sections}
      kept      == {i \in collected :
                      Cardinality({j \in collected : Outlasts(j, i)}) < BriefItems}
  IN  [goal  |-> First(of("user"), 1), items |-> kept,
       memories |-> session.memories, left |-> Cardinality(session.omitted)]

\* package_id_for: the digest of the entries and of the memories' contents.
PackageId(p) ==
  [entries |-> p.entries,
   facts   |-> [f \in Facts |->
                  Cardinality({i \in p.memories : log[i].fact = f})]]

\* Mutant: the brief is built from the session before it is bounded.
Content_BriefFirst(mode) ==
  LET session == IF mode = "resume" THEN ResumeBound(ReadExport)
                 ELSE ReadExport
  IN  [entries |-> session.entries, memories |-> session.memories,
       omitted |-> session.omitted, brief |-> Brief(ReadExport),
       handoff |-> Len(prepared) + 1, lines |-> Len(log)]

\* What is written, under a new handoff_id.
Content(mode) ==
  LET session == IF mode = "resume" THEN ResumeBound(ReadExport)
                 ELSE ReadExport
  IN  [entries |-> session.entries, memories |-> session.memories,
       omitted |-> session.omitted, brief |-> Brief(session),
       handoff |-> Len(prepared) + 1, lines |-> Len(log)]

WriteLine ==
  /\ Len(log) < MaxLines                           \* bound
  /\ \E line \in Line : log' = Append(log, line)
  /\ UNCHANGED <<published, prepared, copy, job, store>>

\* prepare_handoff; atomic_publish is part of Exchange.
Prepare(mode) ==
  /\ Len(prepared) < MaxPrepares                   \* bound
  /\ published' = Content(mode)
  /\ prepared' = Append(prepared, Content(mode))
  /\ UNCHANGED <<log, copy, job, store>>

-----------------------------------------------------------------------------
(* Carrying the files.                                                     *)

Files == {"manifest", "session", "memories", "brief"}

FileOf(p, file) ==
  CASE file = "manifest" -> p
    [] file = "session"  -> p.entries
    [] file = "memories" -> p.memories
    [] file = "brief"    -> p.brief

\* Nothing keeps the files of two packages apart while they are copied.
CopyFile(file) ==
  /\ published # None
  /\ CopyWhileReading \/ job = None
  /\ \E content \in {FileOf(published, file), Bad} :
       copy' = [copy EXCEPT ![file] = content]
  /\ UNCHANGED <<source, job, store>>

-----------------------------------------------------------------------------
(* The receiving store.                                                    *)

\* Mutant: the manifest is believed.
Verified_Manifest == copy.manifest # Bad

\* _verify_files: the file has the size and digest the manifest lists.
Intact(file) == copy[file] = FileOf(copy.manifest, file)

\* _verify_session_stream, _verify_memories: the lines that are counted, each
\* once and in their order.
SessionIntact  == Intact("session")
MemoriesIntact == Intact("memories")

\* verify_handoff.  Coverage, identity and the secret gate, which it checks
\* too, hold of any package that was written.
Verified ==
  /\ copy.manifest # Bad /\ Intact("brief")
  /\ SessionIntact /\ MemoriesIntact

\* Mutant: the ledger is looked up by the id of the prepare.
AlreadyApplied_ByHandoff(p) == \E e \in ledger : e.handoff = p.handoff

AlreadyApplied(p) == \E e \in ledger : e.package = PackageId(p)

\* hydrate_handoff up to its transaction.  For a package already applied it
\* returns here and has changed nothing.
VerifyHandoff(ns) ==
  /\ job = None /\ Verified /\ ~AlreadyApplied(copy.manifest)
  /\ job' = [package |-> copy.manifest, ns |-> ns]
  /\ UNCHANGED <<source, copy, store>>

\* batch_existing_record_identities.
Holds(content, ns) == \E r \in rows : r.ns = ns /\ r.content = content

\* The records of a package.  Their ids come from the line or the package,
\* not from the namespace.
Records(p, memories, brief, ns) ==
  {[id |-> <<"line", i>>, ns |-> ns, content |-> <<"fact", log[i].fact>>] :
     i \in memories}
  \cup {[id |-> <<"brief", PackageId(p)>>, ns |-> ns,
         content |-> <<"text", brief>>]}

\* insert_records and INSERT OR IGNORE: a record whose content or id is
\* there is skipped, of two with one content the first is taken.
Fresh(records) ==
  {r \in records :
     /\ ~Holds(r.content, r.ns)
     /\ \A q \in rows : q.id # r.id
     /\ \A q \in records :
          q.content = r.content /\ q.id # r.id => q.id[2] > r.id[2]}

\* Mutant: the records are committed before the ledger row.
Apply_LedgerLater ==
  /\ job # None /\ Bad \notin {copy.memories, copy.brief}
  /\ rows' = rows \cup Fresh(Records(job.package, copy.memories, copy.brief,
                                     job.ns))
  /\ job' = None
  /\ UNCHANGED <<source, copy, ledger, applied, local>>

\* The transaction: what the files hold now, the ledger row, whose primary
\* key is the package, and the event.
Apply ==
  /\ job # None /\ Bad \notin {copy.memories, copy.brief}
  /\ \A e \in ledger : e.package # PackageId(job.package)
  /\ rows' = rows \cup Fresh(Records(job.package, copy.memories, copy.brief,
                                     job.ns))
  /\ ledger' = ledger \cup {[package |-> PackageId(job.package),
                             handoff |-> job.package.handoff]}
  /\ applied' = Append(applied, PackageId(job.package))
  /\ job' = None
  /\ UNCHANGED <<source, copy, local>>

\* A failure or the death of the process: the transaction is rolled back.
Fail ==
  /\ job # None /\ job' = None
  /\ UNCHANGED <<source, copy, store>>

DeleteRow ==
  /\ local < MaxLocal /\ local' = local + 1        \* bound
  /\ \E r \in rows : rows' = rows \ {r}
  /\ UNCHANGED <<source, copy, job, ledger, applied>>

AddRow(fact, ns) ==
  /\ local < MaxLocal /\ local' = local + 1        \* bound
  /\ ~Holds(<<"fact", fact>>, ns)
  /\ rows' = rows \cup {[id |-> <<"own", local>>, ns |-> ns,
                         content |-> <<"fact", fact>>]}
  /\ UNCHANGED <<source, copy, job, ledger, applied>>

-----------------------------------------------------------------------------
Init ==
  /\ log = Start /\ published = None /\ prepared = <<>>
  /\ copy = [file \in Files |-> Bad]
  /\ job = None
  /\ rows = {} /\ ledger = {} /\ applied = <<>> /\ local = 0

Next ==
  \/ WriteLine
  \/ \E mode \in {"resume", "archive"} : Prepare(mode)
  \/ \E file \in Files : CopyFile(file)
  \/ \E ns \in Namespaces : VerifyHandoff(ns)
  \/ Apply \/ Fail
  \/ DeleteRow
  \/ \E fact \in Facts, ns \in Namespaces : AddRow(fact, ns)

Spec == Init /\ [][Next]_vars

-----------------------------------------------------------------------------
(* Properties.                                                             *)

\* The ledger and the events tell the same story, once for each
\* package: retries, crashes and packages prepared again under a new
\* handoff_id never apply one twice, nor does a retry run into the ledger's
\* primary key (handoff-v1 section 11).
AppliedOnce ==
  /\ IsInjective(applied)
  /\ Range(applied) = {e.package : e \in ledger}
  /\ job # None => \A e \in ledger : e.package # PackageId(job.package)

\* Every line of the session is in the package or in the report of what is
\* not (section 7).
CoverageComplete ==
  \A n \in DOMAIN prepared :
    LET p == prepared[n]
    IN  \A i \in 1 .. p.lines :
          \/ i \in p.entries \cup p.memories \cup p.omitted
          \/ /\ Capped \in p.omitted
             /\ \A j \in p.entries : j < i

\* What the brief of a package promises.
Resolves(p) ==
  LET typed    == p.entries \cap OfKind(Sections)
      newer(j) == {q \in typed : log[q].kind = log[j].kind /\ q > j}
  IN  /\ p.brief.goal \cup p.brief.items \subseteq p.entries
      /\ \A i \in p.brief.items, j \in typed \ p.brief.items :
           /\ log[i].kind = log[j].kind => j < i
           /\ Importance[log[j].kind] > Importance[log[i].kind]
                => Cardinality(newer(j)) >= SectionItems

\* The brief refers to entries the package carries.  It lists nothing while a
\* newer item of its section is left out; and while one of a more important
\* section is, only if that section has SectionItems newer ones.
BriefResolves == \A n \in DOMAIN prepared : Resolves(prepared[n])

\* Hydration changes the store by whole packages: with its records come its
\* ledger row and its event, so a crash or a retry never leaves or adds a part
\* of one.
RecordsComeWithLedger ==
  [][\A r \in rows' \ rows :
       r.id[1] # "own" => \E e \in ledger' \ ledger :
                            applied' = Append(applied, e.package)]_vars

\* An applied package has been received, and nothing but it: each of its
\* memories, and its brief, is in the store, under its own id or with its
\* content (of whichever namespace, see ReceivedInNamespace), and what was
\* inserted is what was verified.
Received ==
  [][\A e \in ledger' \ ledger :
       LET p       == job.package
           records == Records(p, p.memories, p.brief, job.ns)
       IN  /\ rows' \ rows \subseteq records
           /\ \A r \in records :
                \E q \in rows' : q.id = r.id \/ q.content = r.content]_vars

\* What the documents say and the code does not do; see the README.

\* Section 11: the target receives the memories and the brief, here: in the
\* namespace it is hydrated into.
ReceivedInNamespace ==
  [][\A e \in ledger' \ ledger :
       LET p == job.package
       IN  \A r \in Records(p, p.memories, p.brief, job.ns) :
             \E q \in rows' : q.ns = r.ns /\ q.content = r.content]_vars

=============================================================================
