---------------------------- MODULE HandoffProofs ----------------------------
(***************************************************************************)
(* Session handoff, for any log, facts, namespaces and limits.             *)
(***************************************************************************)
EXTENDS Handoff, TLAPS, SequenceTheorems, FiniteSetTheorems,
        WellFoundedInduction

\* The memories of a package are lines of the log, which only grows: the id of
\* a package is the same whenever it is computed.
Carried(p) == p.memories \subseteq DOMAIN log

\* Every place a package is kept in.
PackagesCarried ==
  /\ published # None => Carried(published)
  /\ copy.manifest # Bad => Carried(copy.manifest)
  /\ job # None => Carried(job.package)

CopyShape == copy = [file \in Files |-> copy[file]]

AppliedTyped == applied \in Seq({e.package : e \in ledger})

HandoffInv ==
  /\ log \in Seq(Line) /\ CopyShape /\ PackagesCarried
  /\ AppliedTyped /\ AppliedOnce

-----------------------------------------------------------------------------
\* A log that grows keeps its lines.
LEMMA LogGrows ==
  ASSUME log \in Seq(Line), NEW line \in Line, log' = Append(log, line)
  PROVE  /\ log' \in Seq(Line)
         /\ DOMAIN log \subseteq DOMAIN log'
         /\ \A i \in DOMAIN log : log'[i] = log[i]
BY AppendProperties

\* The id of a package does not depend on lines that came later.
LEMMA PackageIdStays ==
  ASSUME NEW p, Carried(p),
         DOMAIN log \subseteq DOMAIN log',
         \A i \in DOMAIN log : log'[i] = log[i]
  PROVE  [entries |-> p.entries,
          facts |-> [f \in Facts |->
                      Cardinality({i \in p.memories : log'[i].fact = f})]]
         = PackageId(p)
<1>1. ASSUME NEW f
      PROVE  {i \in p.memories : log'[i].fact = f}
             = {i \in p.memories : log[i].fact = f}
  BY DEF Carried
<1> QED  BY <1>1 DEF PackageId

LEMMA InitHandoff == Init => HandoffInv
<1> SUFFICES ASSUME Init PROVE HandoffInv
  OBVIOUS
<1>1. Range(applied) = {} /\ IsInjective(applied)
  BY DEF Init, Range, IsInjective
<1> QED  BY <1>1, HandoffAssumption
         DEF Init, HandoffInv, CopyShape, PackagesCarried, AppliedTyped,
             AppliedOnce, Files

LEMMA WriteLineKeeps ==
  ASSUME HandoffInv, WriteLine PROVE HandoffInv'
<1>1. PICK line \in Line : log' = Append(log, line)
  BY DEF WriteLine
<1>2. /\ log' \in Seq(Line)
      /\ DOMAIN log \subseteq DOMAIN log'
      /\ \A i \in DOMAIN log : log'[i] = log[i]
  BY <1>1, LogGrows DEF HandoffInv
<1>3. UNCHANGED <<published, copy, job, applied, ledger>>
  BY DEF WriteLine, store
<1>4. PackagesCarried'
  BY <1>2, <1>3 DEF HandoffInv, PackagesCarried, Carried
<1>5. job # None => PackageId(job.package)' = PackageId(job.package)
  <2>1. SUFFICES ASSUME job # None
                 PROVE  PackageId(job.package)' = PackageId(job.package)
    OBVIOUS
  <2>2. Carried(job.package)
    BY <2>1 DEF HandoffInv, PackagesCarried
  <2> QED  BY <1>2, <1>3, <2>2, PackageIdStays DEF PackageId
<1>6. AppliedOnce'
  BY <1>3, <1>5 DEF HandoffInv, AppliedOnce, Range, IsInjective
<1> QED  BY <1>2, <1>3, <1>4, <1>6 DEF HandoffInv, CopyShape, AppliedTyped

\* What is read from a session refers to lines of its log.
LEMMA ContentCarried == ASSUME NEW mode PROVE Carried(Content(mode))
<1>1. ReadExport.memories \subseteq DOMAIN log
  BY DEF ReadExport, First, OfKind
<1>2. ResumeBound(ReadExport).memories = ReadExport.memories
  BY DEF ResumeBound, ReadExport
<1> QED  BY <1>1, <1>2 DEF Content, Carried

LEMMA PrepareKeeps ==
  ASSUME HandoffInv, NEW mode, Prepare(mode) PROVE HandoffInv'
<1>1. Carried(published')
  BY ContentCarried DEF Prepare
<1>2. UNCHANGED <<log, copy, job, rows, ledger, applied>>
  BY DEF Prepare, store
<1>3. PackagesCarried'
  BY <1>1, <1>2 DEF HandoffInv, PackagesCarried, Carried
<1>4. AppliedOnce'
  BY <1>2 DEF HandoffInv, AppliedOnce, PackageId, Range, IsInjective
<1> QED  BY <1>2, <1>3, <1>4 DEF HandoffInv, CopyShape, AppliedTyped

LEMMA CopyFileKeeps ==
  ASSUME HandoffInv, NEW file \in Files, CopyFile(file) PROVE HandoffInv'
<1>1. PICK content \in {FileOf(published, file), Bad} :
         copy' = [copy EXCEPT ![file] = content]
  BY DEF CopyFile
<1>2. UNCHANGED <<log, published, job, ledger, applied>> /\ published # None
  BY DEF CopyFile, source, store
<1>3. CopyShape'
  BY <1>1 DEF HandoffInv, CopyShape, Files
<1>4. copy'.manifest \in {copy.manifest, published, Bad}
  BY <1>1 DEF HandoffInv, CopyShape, Files, FileOf
<1>5. PackagesCarried'
  BY <1>2, <1>4 DEF HandoffInv, PackagesCarried, Carried
<1>6. AppliedOnce'
  BY <1>2 DEF HandoffInv, AppliedOnce, PackageId, Range, IsInjective
<1> QED  BY <1>2, <1>3, <1>5, <1>6 DEF HandoffInv, AppliedTyped

\* A hydration begins for a package the ledger has no row of.
LEMMA VerifyKeeps ==
  ASSUME HandoffInv, NEW ns \in Namespaces, VerifyHandoff(ns)
  PROVE  HandoffInv'
<1>1. /\ UNCHANGED <<log, published, copy, ledger, applied>>
      /\ job' = [package |-> copy.manifest, ns |-> ns]
      /\ copy.manifest # Bad
      /\ \A e \in ledger : e.package # PackageId(copy.manifest)
  BY DEF VerifyHandoff, Verified, AlreadyApplied, source, store
<1>2. PackagesCarried'
  BY <1>1 DEF HandoffInv, PackagesCarried, Carried
<1>3. PackageId(job.package)' = PackageId(copy.manifest)
  BY <1>1 DEF PackageId
<1>4. AppliedOnce'
  BY <1>1, <1>3 DEF HandoffInv, AppliedOnce, Range, IsInjective
<1> QED  BY <1>1, <1>2, <1>4 DEF HandoffInv, CopyShape, AppliedTyped

\* An element that is new to an injective sequence is appended to it.
LEMMA AppendNew ==
  ASSUME NEW S, NEW s \in Seq(S), NEW x, x \notin S, IsInjective(s)
  PROVE  /\ Append(s, x) \in Seq(S \cup {x})
         /\ IsInjective(Append(s, x))
         /\ Range(Append(s, x)) = Range(s) \cup {x}
<1>1. s \in Seq(S \cup {x})
  BY SeqMonotonic
<1>2. /\ Append(s, x) \in Seq(S \cup {x})
      /\ Len(Append(s, x)) = Len(s) + 1 /\ Len(s) \in Nat
      /\ \A i \in 1 .. Len(s) : Append(s, x)[i] = s[i] /\ s[i] \in S
      /\ Append(s, x)[Len(s) + 1] = x
      /\ DOMAIN s = 1 .. Len(s)
      /\ DOMAIN Append(s, x) = 1 .. Len(s) + 1
  BY <1>1, AppendProperties, LenProperties, ElementOfSeq
<1>3. IsInjective(Append(s, x))
  BY <1>2 DEF IsInjective
<1>4. 1 .. Len(s) + 1 = (1 .. Len(s)) \cup {Len(s) + 1}
  BY <1>2
<1>5. Range(Append(s, x)) = Range(s) \cup {x}
  BY <1>2, <1>4 DEF Range
<1> QED  BY <1>2, <1>3, <1>5

\* The transaction: one row and one event, of a package without any.
LEMMA ApplyKeeps ==
  ASSUME HandoffInv, Apply PROVE HandoffInv'
<1> DEFINE id   == PackageId(job.package)
           done == {e.package : e \in ledger}
<1>1. /\ UNCHANGED <<log, published, copy>> /\ job' = None
      /\ ledger' = ledger \cup {[package |-> id,
                                 handoff |-> job.package.handoff]}
      /\ applied' = Append(applied, id)
      /\ id \notin done
  BY DEF Apply, source
<1> HIDE DEF id, done
<1>2. {e.package : e \in ledger'} = done \cup {id}
  <2> DEFINE row == [package |-> id, handoff |-> job.package.handoff]
  <2>1. row.package = id /\ ledger' = ledger \cup {row}
    BY <1>1
  <2> HIDE DEF row
  <2> QED  BY <2>1 DEF done
<1>3. applied \in Seq(done) /\ IsInjective(applied) /\ Range(applied) = done
  BY DEF HandoffInv, AppliedTyped, AppliedOnce, done
<1>4. /\ applied' \in Seq(done \cup {id})
      /\ IsInjective(applied')
      /\ Range(applied') = done \cup {id}
  BY <1>1, <1>3, AppendNew
<1>5. AppliedTyped' /\ AppliedOnce'
  BY <1>1, <1>2, <1>4 DEF AppliedTyped, AppliedOnce
<1> QED  BY <1>1, <1>5 DEF HandoffInv, CopyShape, PackagesCarried, Carried

\* What the ledger is not about.
LEMMA OthersKeep ==
  ASSUME HandoffInv, UNCHANGED <<log, published, copy, ledger, applied>>,
         job' \in {None, job}
  PROVE  HandoffInv'
<1>1. PackagesCarried'
  BY DEF HandoffInv, PackagesCarried, Carried
<1>2. AppliedOnce'
  BY DEF HandoffInv, AppliedOnce, PackageId, Range, IsInjective
<1> QED  BY <1>1, <1>2 DEF HandoffInv, CopyShape, AppliedTyped

\* Every step of the specification.
LEMMA NextKeepsHandoff == HandoffInv /\ [Next]_vars => HandoffInv'
<1> SUFFICES ASSUME HandoffInv, [Next]_vars PROVE HandoffInv'
  OBVIOUS
<1>1. CASE WriteLine
  BY <1>1, WriteLineKeeps
<1>2. ASSUME NEW mode \in {"resume", "archive"}, Prepare(mode)
      PROVE  HandoffInv'
  BY <1>2, PrepareKeeps
<1>3. ASSUME NEW file \in Files, CopyFile(file) PROVE HandoffInv'
  BY <1>3, CopyFileKeeps
<1>4. ASSUME NEW ns \in Namespaces, VerifyHandoff(ns) PROVE HandoffInv'
  BY <1>4, VerifyKeeps
<1>5. CASE Apply
  BY <1>5, ApplyKeeps
<1>6. CASE Fail
  BY <1>6, OthersKeep DEF Fail, source, store
<1>7. CASE DeleteRow
  BY <1>7, OthersKeep DEF DeleteRow, source
<1>8. ASSUME NEW fact \in Facts, NEW ns \in Namespaces, AddRow(fact, ns)
      PROVE  HandoffInv'
  BY <1>8, OthersKeep DEF AddRow, source
<1>9. CASE UNCHANGED vars
  BY <1>9, OthersKeep DEF vars
<1> QED  BY <1>1, <1>2, <1>3, <1>4, <1>5, <1>6, <1>7, <1>8, <1>9 DEF Next

LEMMA HandoffAlways == Spec => []HandoffInv
BY InitHandoff, NextKeepsHandoff, PTL DEF Spec

\* handoff_ledger and the handoff.applied events tell the same story, once for
\* each package, and a hydration that has verified its package finds no ledger
\* row of it (hydrate_handoff): for any log, and whatever is copied when.
THEOREM AppliedOnceAlways == Spec => []AppliedOnce
<1>1. HandoffInv => AppliedOnce
  BY DEF HandoffInv
<1> QED  BY <1>1, HandoffAlways, PTL

-----------------------------------------------------------------------------
\* What comes into the store comes in the transaction that also writes the
\* ledger row and the event, or from the user (hydrate_handoff): a step that
\* adds a record of a package adds its ledger row, and it is a new one.
THEOREM RecordsAlwaysComeWithLedger == Spec => RecordsComeWithLedger
<1> DEFINE Comes == \A r \in rows' \ rows :
                      r.id[1] # "own" =>
                        \E e \in ledger' \ ledger :
                          applied' = Append(applied, e.package)
<1>1. ASSUME Next PROVE Comes
  <2>1. CASE Apply
    <3> DEFINE row == [package |-> PackageId(job.package),
                       handoff |-> job.package.handoff]
    <3>1. /\ ledger' = ledger \cup {row}
          /\ applied' = Append(applied, row.package)
          /\ row \notin ledger
      BY <2>1 DEF Apply
    <3> QED  BY <3>1
  <2>2. ASSUME NEW fact \in Facts, NEW ns \in Namespaces, AddRow(fact, ns)
        PROVE  Comes
    BY <2>2 DEF AddRow
  <2>3. CASE DeleteRow
    BY <2>3 DEF DeleteRow
  <2>4. CASE UNCHANGED rows
    BY <2>4
  <2> QED  BY <1>1, <2>1, <2>2, <2>3, <2>4
           DEF Next, WriteLine, Prepare, CopyFile, VerifyHandoff, Fail, store
<1>2. [Next]_vars => [Comes]_vars
  BY <1>1
<1> QED  BY <1>2, PTL DEF Spec, RecordsComeWithLedger

-----------------------------------------------------------------------------
(* Coverage.                                                               *)

\* A line that is not among the first k comes after all of them.
LEMMA FirstComeFirst ==
  ASSUME NEW n \in Nat, NEW S \in SUBSET (1 .. n), NEW k \in Nat,
         NEW i \in S, i \notin First(S, k), NEW j \in First(S, k)
  PROVE  j < i
<1> DEFINE below(m) == {q \in S : q < m}
<1>1. ASSUME NEW m \in S
      PROVE  IsFiniteSet(below(m)) /\ Cardinality(below(m)) \in Nat
  <2>1. IsFiniteSet(1 .. n)
    BY FS_Interval
  <2>2. below(m) \in SUBSET (1 .. n)
    OBVIOUS
  <2> QED  BY <2>1, <2>2, FS_Subset, FS_CardinalityType
<1>2. Cardinality(below(j)) < k /\ ~(Cardinality(below(i)) < k) /\ j \in S
  BY DEF First
<1>3. SUFFICES ASSUME i <= j PROVE FALSE
  BY <1>2
<1>4. below(i) \subseteq below(j)
  <2>1. ASSUME NEW q \in below(i) PROVE q \in below(j)
    <3>1. q \in S /\ q \in Int /\ i \in Int /\ j \in Int /\ q < i
      BY <1>2
    <3> QED  BY <1>3, <3>1
  <2> QED  BY <2>1
<1>5. Cardinality(below(i)) <= Cardinality(below(j))
  BY <1>1, <1>2, <1>4, FS_Subset
<1> QED  BY <1>1, <1>2, <1>5

\* CoverageComplete of one package.
Complete(p) ==
  \A i \in 1 .. p.lines :
    \/ i \in p.entries \cup p.memories \cup p.omitted
    \/ /\ Capped \in p.omitted
       /\ \A j \in p.entries : j < i

\* The report of the reader (read_codex_export).
LEMMA ReadComplete ==
  ASSUME log \in Seq(Line), NEW i \in 1 .. Len(log)
  PROVE  LET p == ReadExport
         IN  \/ i \in p.entries \cup p.memories \cup p.omitted
             \/ /\ Capped \in p.omitted
                /\ \A j \in p.entries : j < i
<1>1. /\ Len(log) \in Nat /\ DOMAIN log = 1 .. Len(log) /\ log[i] \in Line
  BY LenProperties, ElementOfSeq
<1>2. log[i].kind \in Turns \cup Sections \cup {"hidden", "memory"}
  BY <1>1, HandoffAssumption DEF Line
<1>3. CASE log[i].kind \in {"hidden", "memory"}
  BY <1>1, <1>3 DEF ReadExport, OfKind
<1>4. CASE log[i].kind \in Turns \cup Sections
  <2> DEFINE lines == OfKind(Turns \cup Sections)
  <2>1. i \in lines /\ lines \in SUBSET (1 .. Len(log))
    BY <1>1, <1>4 DEF OfKind
  <2>2. CASE i \in First(lines, MaxEntries)
    BY <2>2 DEF ReadExport
  <2>3. CASE i \notin First(lines, MaxEntries)
    <3>1. \A j \in First(lines, MaxEntries) : j < i
      BY <1>1, <2>1, <2>3, FirstComeFirst, HandoffAssumption
    <3>2. lines # First(lines, MaxEntries)
      BY <2>1, <2>3
    <3> QED  BY <3>1, <3>2 DEF ReadExport
  <2> QED  BY <2>2, <2>3
<1> QED  BY <1>2, <1>3, <1>4

\* A resume package drops turns and reports them.
LEMMA ContentComplete ==
  ASSUME log \in Seq(Line), NEW mode PROVE Complete(Content(mode))
<1> DEFINE p == Content(mode)
           q == ReadExport
<1>1. /\ p.entries \subseteq q.entries
      /\ q.entries \subseteq p.entries \cup p.omitted
      /\ p.memories = q.memories /\ q.omitted \subseteq p.omitted
      /\ p.lines = Len(log)
  <2>1. CASE mode = "resume"
    <3> DEFINE turns == q.entries \cap OfKind(Turns)
               kept  == First(turns, HeadTurns) \cup Newest(turns, TailTurns)
    <3>1. q = [entries |-> q.entries, memories |-> q.memories,
               omitted |-> q.omitted]
      BY DEF ReadExport
    <3>2. kept \subseteq turns
      BY DEF First, Newest
    <3>3. /\ p.entries = (q.entries \ turns) \cup kept
          /\ p.memories = q.memories
          /\ p.omitted = q.omitted \cup (turns \ kept)
          /\ p.lines = Len(log)
      BY <2>1, <3>1 DEF Content, ResumeBound
    <3> QED  BY <3>2, <3>3
  <2>2. CASE mode # "resume"
    BY <2>2 DEF Content
  <2> QED  BY <2>1, <2>2
<1> HIDE DEF p
<1>2. ASSUME NEW i \in 1 .. p.lines
      PROVE  \/ i \in p.entries \cup p.memories \cup p.omitted
             \/ /\ Capped \in p.omitted
                /\ \A j \in p.entries : j < i
  BY <1>1, ReadComplete
<1>3. Complete(p)
  BY <1>2 DEF Complete
<1> QED  BY <1>3 DEF p

CoverageInv == prepared \in Seq(Range(prepared)) /\ CoverageComplete

LEMMA NextKeepsCoverage ==
  HandoffInv /\ CoverageInv /\ [Next]_vars => CoverageInv'
<1> SUFFICES ASSUME HandoffInv, CoverageInv, [Next]_vars PROVE CoverageInv'
  OBVIOUS
<1>1. ASSUME NEW mode, Prepare(mode) PROVE CoverageInv'
  <2> DEFINE p == Content(mode)
             S == Range(prepared) \cup {p}
  <2>1. Complete(p) /\ prepared' = Append(prepared, p)
    BY <1>1, ContentComplete DEF HandoffInv, Prepare
  <2> HIDE DEF p
  <2>2. prepared \in Seq(S)
    BY SeqMonotonic DEF CoverageInv
  <2>3. /\ prepared' \in Seq(S) /\ Len(prepared) \in Nat
        /\ DOMAIN prepared = 1 .. Len(prepared)
        /\ DOMAIN prepared' = 1 .. Len(prepared) + 1
        /\ \A n \in 1 .. Len(prepared) : prepared'[n] = prepared[n]
        /\ prepared'[Len(prepared) + 1] = p
    BY <2>1, <2>2, AppendProperties, LenProperties
  <2>4. prepared' \in Seq(Range(prepared'))
    BY <2>3, SeqOfRange
  <2>5. \A n \in DOMAIN prepared : Complete(prepared[n])
    BY DEF CoverageInv, CoverageComplete, Complete
  <2>6. \A n \in DOMAIN prepared' : Complete(prepared'[n])
    BY <2>1, <2>3, <2>5
  <2>7. CoverageComplete'
    BY <2>6 DEF CoverageComplete, Complete
  <2> QED  BY <2>4, <2>7 DEF CoverageInv, Range
<1>2. CASE UNCHANGED prepared
  BY <1>2 DEF CoverageInv, CoverageComplete, Range
<1> QED  BY <1>1, <1>2 DEF Next, vars, WriteLine, CopyFile, VerifyHandoff,
            Apply, Fail, DeleteRow, AddRow, source

\* Every line of a session is in its package or in the report of what is not,
\* for any log and any limits: what a limit cuts off comes after all that is
\* kept (read_codex_export, _resume_bound).
THEOREM CoverageAlwaysComplete == Spec => []CoverageComplete
<1>1. Init => CoverageInv
  BY DEF Init, CoverageInv, CoverageComplete
<1>2. CoverageInv => CoverageComplete
  BY DEF CoverageInv
<1> QED  BY <1>1, <1>2, NextKeepsCoverage, HandoffAlways, PTL DEF Spec

-----------------------------------------------------------------------------
(* What is received.                                                       *)

\* Where nothing is copied during a hydration, the files it inserts from are
\* those it has verified.
Held ==
  job # None => /\ copy.memories = job.package.memories
                /\ copy.brief = job.package.brief

\* A row that has the id of a line of the log has what the line says.
RowsOfLines ==
  \A q \in rows : q.id[1] = "line" =>
    /\ q.id[2] \in DOMAIN log
    /\ q.content = <<"fact", log[q.id[2]].fact>>

LEMMA NextHolds ==
  ASSUME ~CopyWhileReading, Held, [Next]_vars PROVE Held'
<1>1. ASSUME NEW file \in Files, CopyFile(file) PROVE Held'
  BY <1>1 DEF CopyFile, Held
<1>2. ASSUME NEW ns \in Namespaces, VerifyHandoff(ns) PROVE Held'
  BY <1>2 DEF VerifyHandoff, Verified, MemoriesIntact, Intact, FileOf, Held
<1>3. CASE UNCHANGED copy /\ job' \in {None, job}
  BY <1>3 DEF Held
<1> QED  BY <1>1, <1>2, <1>3
         DEF Next, vars, WriteLine, Prepare, Apply, Fail, DeleteRow, AddRow,
             source, store

\* What Apply inserts.
LEMMA AppliesVerified ==
  ASSUME HandoffInv, Held, Apply
  PROVE  LET p == job.package
         IN  /\ p.memories \subseteq DOMAIN log
             /\ rows' = rows \cup Fresh(Records(p, p.memories, p.brief, job.ns))
<1>1. job # None
  BY DEF Apply
<1> QED  BY <1>1 DEF Apply, Held, HandoffInv, PackagesCarried, Carried

LEMMA NextKeepsRows ==
  ASSUME HandoffInv, Held, RowsOfLines, [Next]_vars PROVE RowsOfLines'
<1>1. CASE WriteLine
  <2>1. /\ rows' = rows /\ DOMAIN log \subseteq DOMAIN log'
        /\ \A i \in DOMAIN log : log'[i] = log[i]
    BY <1>1, LogGrows DEF WriteLine, store, HandoffInv
  <2> QED  BY <2>1 DEF RowsOfLines
<1>2. CASE Apply
  <2> DEFINE p == job.package
             R == Records(p, p.memories, p.brief, job.ns)
  <2>1. /\ p.memories \subseteq DOMAIN log /\ log' = log
        /\ rows' \subseteq rows \cup R
    BY <1>2, AppliesVerified DEF Apply, source, Fresh
  <2>2. ASSUME NEW r \in R, r.id[1] = "line"
        PROVE  /\ r.id[2] \in DOMAIN log
               /\ r.content = <<"fact", log[r.id[2]].fact>>
    BY <2>1, <2>2 DEF Records
  <2> HIDE DEF R
  <2> QED  BY <2>1, <2>2 DEF RowsOfLines
<1>3. ASSUME NEW fact \in Facts, NEW ns \in Namespaces, AddRow(fact, ns)
      PROVE  RowsOfLines'
  BY <1>3 DEF AddRow, RowsOfLines, source
<1>4. CASE rows' \subseteq rows /\ log' = log
  BY <1>4 DEF RowsOfLines
<1> QED  BY <1>1, <1>2, <1>3, <1>4
         DEF Next, vars, Prepare, CopyFile, VerifyHandoff, Fail, DeleteRow,
             source, store

\* A nonempty set of lines has a first one.
LEMMA FirstLine ==
  ASSUME NEW T \in SUBSET Nat, T # {} PROVE \E m \in T : \A i \in T : m <= i
<1>1. PICK m \in T : \A i \in T : <<i, m>> \notin OpToRel(<, Nat)
  BY NatLessThanWellFounded, WFMin
<1>2. \A i \in T : ~(i < m)
  BY <1>1 DEF OpToRel
<1> QED  BY <1>2

\* A record that is not inserted is there, or one of its content is.
LEMMA NothingMissing ==
  ASSUME HandoffInv, RowsOfLines, NEW p, p.memories \subseteq DOMAIN log,
         NEW ns, NEW r \in Records(p, p.memories, p.brief, ns)
  PROVE  \E q \in rows \cup Fresh(Records(p, p.memories, p.brief, ns)) :
           q.id = r.id \/ q.content = r.content
<1> DEFINE R      == Records(p, p.memories, p.brief, ns)
           of(i)  == [id |-> <<"line", i>>, ns |-> ns,
                      content |-> <<"fact", log[i].fact>>]
           brief  == [id |-> <<"brief", PackageId(p)>>, ns |-> ns,
                      content |-> <<"text", p.brief>>]
<1>1. R = {of(i) : i \in p.memories} \cup {brief}
  BY DEF Records
<1>2. p.memories \subseteq Nat
  BY LenProperties DEF HandoffInv
<1>3. CASE r = brief
  <2>1. \A q \in R : q.content = r.content => q.id = r.id
    BY <1>1, <1>3
  <2> QED  BY <2>1 DEF Fresh, Holds
<1>4. ASSUME NEW i \in p.memories, r = of(i)
      PROVE  \E q \in rows \cup Fresh(R) : q.id = r.id \/ q.content = r.content
  <2> DEFINE T == {k \in p.memories : log[k].fact = log[i].fact}
  <2>1. PICK m \in T : \A k \in T : m <= k
    BY <1>2, FirstLine
  <2>2. of(m) \in R /\ of(m).content = r.content /\ m \in Nat
    BY <1>1, <1>2, <1>4, <2>1
  <2>3. CASE of(m) \in Fresh(R)
    BY <2>2, <2>3
  <2>4. CASE Holds(of(m).content, ns)
    BY <2>2, <2>4 DEF Holds
  <2>5. CASE \E q \in rows : q.id = of(m).id
    <3>1. PICK q \in rows : q.id = <<"line", m>>
      BY <2>5
    <3>2. q.content = of(m).content
      BY <3>1 DEF RowsOfLines
    <3> QED  BY <2>2, <3>2
  <2>6. ASSUME NEW q \in R, q.content = of(m).content, q.id # of(m).id
        PROVE  q.id[2] > m
    <3>1. PICK k \in p.memories : q = of(k)
      BY <1>1, <2>6
    <3>2. k \in T /\ k # m /\ k \in Nat
      BY <1>2, <2>1, <2>6, <3>1
    <3> QED  BY <2>1, <2>2, <3>1, <3>2
  <2> QED  BY <2>2, <2>3, <2>4, <2>5, <2>6 DEF Fresh
<1> QED  BY <1>1, <1>3, <1>4

ReceivedInv == HandoffInv /\ Held /\ RowsOfLines

\* Where the files stay as they are during a hydration, what is inserted is
\* what was verified, and all of it: of two records with one content one is
\* inserted, and a row in the way of a record has its id or its content
\* (hydrate_handoff, insert_records).
THEOREM AlwaysReceived == ASSUME ~CopyWhileReading PROVE Spec => Received
<1> DEFINE Receives ==
      \A e \in ledger' \ ledger :
        LET p       == job.package
            records == Records(p, p.memories, p.brief, job.ns)
        IN  /\ rows' \ rows \subseteq records
            /\ \A r \in records :
                 \E q \in rows' : q.id = r.id \/ q.content = r.content
<1>1. Init => ReceivedInv
  BY InitHandoff DEF Init, ReceivedInv, Held, RowsOfLines
<1>2. ReceivedInv /\ [Next]_vars => ReceivedInv'
  BY NextKeepsHandoff, NextHolds, NextKeepsRows DEF ReceivedInv
<1>3. ASSUME ReceivedInv, [Next]_vars PROVE [Receives]_vars
  <2>1. CASE Apply
    <3> DEFINE p == job.package
               R == Records(p, p.memories, p.brief, job.ns)
    <3>1. p.memories \subseteq DOMAIN log /\ rows' = rows \cup Fresh(R)
      BY <1>3, <2>1, AppliesVerified DEF ReceivedInv
    <3>2. \A r \in R : \E q \in rows' : q.id = r.id \/ q.content = r.content
      BY <1>3, <3>1, NothingMissing DEF ReceivedInv
    <3>3. rows' \ rows \subseteq R
      BY <3>1 DEF Fresh
    <3> QED  BY <3>2, <3>3
  <2>2. CASE UNCHANGED ledger
    BY <2>2
  <2> QED  BY <1>3, <2>1, <2>2
           DEF Next, vars, WriteLine, Prepare, CopyFile, VerifyHandoff, Fail,
               DeleteRow, AddRow, store
<1> QED  BY <1>1, <1>2, <1>3, PTL DEF Spec, Received

-----------------------------------------------------------------------------
(* The brief.                                                              *)

\* What is among the newest comes after what is not.
LEMMA NewestComeLast ==
  ASSUME NEW n \in Nat, NEW S \in SUBSET (1 .. n), NEW k \in Int,
         NEW i \in Newest(S, k), NEW j \in S, j \notin Newest(S, k)
  PROVE  j < i
<1> DEFINE above(m) == {q \in S : q > m}
<1>1. ASSUME NEW m \in S
      PROVE  IsFiniteSet(above(m)) /\ Cardinality(above(m)) \in Nat
  <2>1. IsFiniteSet(1 .. n)
    BY FS_Interval
  <2>2. above(m) \in SUBSET (1 .. n)
    OBVIOUS
  <2> QED  BY <2>1, <2>2, FS_Subset, FS_CardinalityType
<1>2. Cardinality(above(i)) < k /\ ~(Cardinality(above(j)) < k) /\ i \in S
  BY DEF Newest
<1>3. SUFFICES ASSUME i <= j PROVE FALSE
  BY <1>2
<1>4. above(j) \subseteq above(i)
  <2>1. ASSUME NEW q \in above(j) PROVE q \in above(i)
    <3>1. q \in S /\ q \in Int /\ i \in Int /\ j \in Int /\ q > j
      BY <1>2
    <3> QED  BY <1>3, <3>1
  <2> QED  BY <2>1
<1>5. Cardinality(above(j)) <= Cardinality(above(i))
  BY <1>1, <1>2, <1>4, FS_Subset
<1> QED  BY <1>1, <1>2, <1>5

\* The order in which trimming drops items is transitive.
LEMMA OutlastsTransitive ==
  ASSUME NEW S \in SUBSET OfKind(Sections), S \subseteq Nat,
         NEW i \in S, NEW j \in S, NEW q \in S, Outlasts(q, j), Outlasts(j, i)
  PROVE  Outlasts(q, i)
<1>1. \A k \in Sections : Importance[k] \in Nat
  BY DEF Sections, Importance
<1>2. {log[i].kind, log[j].kind, log[q].kind} \subseteq Sections
  BY DEF OfKind
<1> QED  BY <1>1, <1>2 DEF Outlasts

\* The brief of any entries (build_brief): what outlasts an item that is kept
\* is kept, if it was collected.
LEMMA BriefOfEntries ==
  ASSUME log \in Seq(Line), NEW s, s.entries \subseteq DOMAIN log,
         NEW p, p.entries = s.entries, p.brief = Brief(s)
  PROVE  Resolves(p)
<1> DEFINE of(kind)  == s.entries \cap OfKind({kind})
           C         == UNION {Newest(of(kind), SectionItems) : kind \in Sections}
           above(i)  == {j \in C : Outlasts(j, i)}
           kept      == {i \in C : Cardinality(above(i)) < BriefItems}
           typed     == s.entries \cap OfKind(Sections)
           newer(j)  == {q \in typed : log[q].kind = log[j].kind /\ q > j}
<1>1. /\ Len(log) \in Nat /\ DOMAIN log = 1 .. Len(log)
      /\ BriefItems \in Nat /\ SectionItems \in Nat
  BY LenProperties, HandoffAssumption
<1>2. \A kind : of(kind) \in SUBSET (1 .. Len(log))
  BY <1>1
<1>3. C \subseteq typed /\ typed \in SUBSET (1 .. Len(log))
  BY <1>1 DEF Newest, OfKind
<1>4. \A i \in C : IsFiniteSet(above(i)) /\ Cardinality(above(i)) \in Nat
  <2>1. IsFiniteSet(1 .. Len(log))
    BY <1>1, FS_Interval
  <2> SUFFICES ASSUME NEW i \in C
               PROVE  IsFiniteSet(above(i)) /\ Cardinality(above(i)) \in Nat
    OBVIOUS
  <2>2. above(i) \in SUBSET (1 .. Len(log))
    BY <1>3
  <2> QED  BY <2>1, <2>2, FS_Subset, FS_CardinalityType
<1>5. ASSUME NEW i \in kept, NEW j \in C, Outlasts(j, i) PROVE j \in kept
  <2>1. above(j) \subseteq above(i)
    <3> SUFFICES ASSUME NEW q \in C, Outlasts(q, j) PROVE Outlasts(q, i)
      OBVIOUS
    <3>1. C \in SUBSET OfKind(Sections) /\ C \subseteq Nat
      <4> HIDE DEF C
      <4> QED  BY <1>3
    <3>2. i \in C
      OBVIOUS
    <3> HIDE DEF C, kept
    <3> QED  BY <1>5, <3>1, <3>2, OutlastsTransitive
  <2>2. i \in C /\ Cardinality(above(i)) < BriefItems
    OBVIOUS
  <2>3. Cardinality(above(j)) <= Cardinality(above(i))
    <3> HIDE DEF above, C, kept
    <3> QED  BY <1>4, <2>1, <2>2, FS_Subset
  <2>4. Cardinality(above(j)) \in Nat /\ Cardinality(above(i)) \in Nat
    BY <1>4, <2>2
  <2>5. Cardinality(above(j)) < BriefItems
    <3> HIDE DEF above, C, kept
    <3> QED  BY <1>1, <2>2, <2>3, <2>4
  <2> QED  BY <2>5
<1>6. ASSUME NEW i \in kept, NEW j \in typed \ kept,
             log[i].kind = log[j].kind
      PROVE  j < i
  <2> DEFINE kind == log[j].kind
  <2>1. kind \in Sections /\ i \in C /\ i \in typed /\ i \in Int /\ j \in Int
    BY <1>3 DEF OfKind
  <2>2. i \in Newest(of(kind), SectionItems) /\ j \in of(kind)
    <3>1. PICK k \in Sections : i \in Newest(of(k), SectionItems)
      BY <2>1
    <3>2. k = kind
      BY <1>6, <3>1 DEF Newest, OfKind
    <3>3. j \in of(kind)
      BY DEF OfKind
    <3> QED  BY <3>1, <3>2, <3>3
  <2>3. CASE j \in Newest(of(kind), SectionItems)
    <3>1. j \in C
      BY <2>1, <2>3
    <3>2. ~Outlasts(j, i) /\ i # j
      BY <1>5, <3>1
    <3> QED  BY <1>6, <2>1, <3>2 DEF Outlasts
  <2>4. CASE j \notin Newest(of(kind), SectionItems)
    <3>1. of(kind) \in SUBSET (1 .. Len(log)) /\ SectionItems \in Int
      BY <1>1, <1>2
    <3> HIDE DEF of, kind
    <3> QED  BY <1>1, <2>2, <2>4, <3>1, NewestComeLast
  <2> QED  BY <2>3, <2>4
<1>7. ASSUME NEW i \in kept, NEW j \in typed \ kept,
             Importance[log[j].kind] > Importance[log[i].kind]
      PROVE  Cardinality(newer(j)) >= SectionItems
  <2> DEFINE kind == log[j].kind
  <2>1. kind \in Sections /\ j \in of(kind)
    BY DEF OfKind
  <2>2. newer(j) = {q \in of(kind) : q > j}
    BY <2>1 DEF OfKind
  <2>3. j \notin C
    BY <1>5, <1>7 DEF Outlasts
  <2>4. ~(Cardinality(newer(j)) < SectionItems)
    <3>1. j \notin Newest(of(kind), SectionItems)
      BY <2>1, <2>3
    <3>2. ~(Cardinality({q \in of(kind) : q > j}) < SectionItems)
      <4> HIDE DEF of
      <4> QED  BY <2>1, <3>1 DEF Newest
    <3> QED  BY <2>2, <3>2
  <2>5. Cardinality(newer(j)) \in Nat
    <3>1. IsFiniteSet(1 .. Len(log)) /\ newer(j) \in SUBSET (1 .. Len(log))
      BY <1>1, <1>3, FS_Interval
    <3> QED  BY <3>1, FS_Subset, FS_CardinalityType
  <2> QED  BY <1>1, <2>4, <2>5
<1>8. p.brief.goal \subseteq s.entries /\ p.brief.items = kept
  BY DEF Brief, First
<1>9. kept \subseteq s.entries
  BY <1>3
<1> HIDE DEF C, above, kept
<1> QED  BY <1>6, <1>7, <1>8, <1>9 DEF Resolves

\* The brief of a package resolves when it is written.
LEMMA ContentResolves ==
  ASSUME log \in Seq(Line), NEW mode
  PROVE  Resolves(Content(mode)) /\ Content(mode).entries \subseteq DOMAIN log
<1> DEFINE s == IF mode = "resume" THEN ResumeBound(ReadExport) ELSE ReadExport
<1>1. /\ Content(mode).entries = s.entries
      /\ Content(mode).brief = Brief(s)
  BY DEF Content
<1>2. /\ ReadExport.entries \subseteq DOMAIN log
      /\ ReadExport = [entries |-> ReadExport.entries,
                       memories |-> ReadExport.memories,
                       omitted |-> ReadExport.omitted]
  BY DEF ReadExport, First, OfKind
<1>3. s.entries \subseteq DOMAIN log
  <2>1. CASE mode = "resume"
    BY <1>2, <2>1 DEF ResumeBound, First, Newest
  <2>2. CASE mode # "resume"
    BY <1>2, <2>2
  <2> QED  BY <2>1, <2>2
<1> HIDE DEF s
<1> QED  BY <1>1, <1>3, BriefOfEntries

\* Lines that come later change nothing of it.
LEMMA ResolvesStays ==
  ASSUME NEW p, Resolves(p), p.entries \subseteq DOMAIN log,
         DOMAIN log \subseteq DOMAIN log',
         \A i \in DOMAIN log : log'[i] = log[i]
  PROVE  Resolves(p)' /\ p.entries \subseteq DOMAIN log'
<1> DEFINE typed    == p.entries \cap OfKind(Sections)
           newer(j) == {q \in typed : log[q].kind = log[j].kind /\ q > j}
           then(j)  == {q \in typed : log'[q].kind = log'[j].kind /\ q > j}
<1>1. p.entries \cap OfKind(Sections)' = typed
  BY DEF OfKind
<1>2. p.brief.items \subseteq DOMAIN log
  BY DEF Resolves
<1>3. \A j \in typed : then(j) = newer(j)
  OBVIOUS
<1>4. \A i \in p.brief.items, j \in typed \ p.brief.items :
        /\ log[i].kind = log[j].kind => j < i
        /\ Importance[log[j].kind] > Importance[log[i].kind]
             => Cardinality(newer(j)) >= SectionItems
  BY DEF Resolves
<1>5. \A i \in p.brief.items, j \in typed \ p.brief.items :
        /\ log'[i].kind = log'[j].kind => j < i
        /\ Importance[log'[j].kind] > Importance[log'[i].kind]
             => Cardinality(then(j)) >= SectionItems
  <2> HIDE DEF newer, then
  <2> QED  BY <1>2, <1>3, <1>4
<1> QED  BY <1>1, <1>5 DEF Resolves

BriefInv ==
  /\ BriefResolves
  /\ \A n \in DOMAIN prepared : prepared[n].entries \subseteq DOMAIN log

LEMMA NextKeepsBrief ==
  HandoffInv /\ CoverageInv /\ BriefInv /\ [Next]_vars => BriefInv'
<1> SUFFICES ASSUME HandoffInv, CoverageInv, BriefInv, [Next]_vars PROVE BriefInv'
  OBVIOUS
<1>1. log \in Seq(Line) /\ prepared \in Seq(Range(prepared))
  BY DEF HandoffInv, CoverageInv
<1>2. \A n \in DOMAIN prepared : /\ Resolves(prepared[n])
                                 /\ prepared[n].entries \subseteq DOMAIN log
  BY DEF BriefInv, BriefResolves
<1>3. CASE WriteLine
  <2>1. /\ DOMAIN log \subseteq DOMAIN log'
        /\ \A i \in DOMAIN log : log'[i] = log[i]
        /\ prepared' = prepared
    BY <1>1, <1>3, LogGrows DEF WriteLine
  <2> QED  BY <1>2, <2>1, ResolvesStays DEF BriefInv, BriefResolves
<1>4. ASSUME NEW mode, Prepare(mode) PROVE BriefInv'
  <2> DEFINE p == Content(mode)
             S == Range(prepared) \cup {p}
  <2>1. /\ Resolves(p) /\ p.entries \subseteq DOMAIN log
        /\ prepared' = Append(prepared, p) /\ UNCHANGED log
    BY <1>1, <1>4, ContentResolves DEF Prepare
  <2> HIDE DEF p
  <2>2. prepared \in Seq(S)
    BY <1>1, SeqMonotonic
  <2>3. \A n \in DOMAIN prepared' : /\ Resolves(prepared'[n])
                                    /\ prepared'[n].entries \subseteq DOMAIN log
    <3>1. /\ DOMAIN prepared = 1 .. Len(prepared) /\ Len(prepared) \in Nat
          /\ DOMAIN prepared' = 1 .. Len(prepared) + 1
          /\ \A n \in 1 .. Len(prepared) : prepared'[n] = prepared[n]
          /\ prepared'[Len(prepared) + 1] = p
      BY <2>1, <2>2, AppendProperties, LenProperties
    <3> QED  BY <1>2, <2>1, <3>1
  <2>4. \A q : Resolves(q)' <=> Resolves(q)
    BY <2>1 DEF Resolves, OfKind
  <2> QED  BY <2>1, <2>3, <2>4 DEF BriefInv, BriefResolves
<1>5. CASE UNCHANGED <<log, prepared>>
  BY <1>5 DEF BriefInv, BriefResolves, Resolves, OfKind
<1> QED  BY <1>3, <1>4, <1>5 DEF Next, vars, CopyFile, VerifyHandoff,
            Apply, Fail, DeleteRow, AddRow, source

\* The brief of a package names entries the package carries; whatever the
\* budget, it leaves out no newer item of the section of what it lists, and of
\* more important sections only what SectionItems newer ones come after
\* (build_brief, after _resume_bound).
THEOREM BriefAlwaysResolves == Spec => []BriefResolves
<1>1. Init => BriefInv
  BY DEF Init, BriefInv, BriefResolves
<1>2. Init => CoverageInv
  BY DEF Init, CoverageInv, CoverageComplete
<1>3. BriefInv => BriefResolves
  BY DEF BriefInv
<1> QED  BY <1>1, <1>2, <1>3, NextKeepsBrief, NextKeepsCoverage, HandoffAlways,
            PTL DEF Spec
=============================================================================
