------------------------------- MODULE Recall -------------------------------
(***************************************************************************)
(* Search beside the derived vector index (hotmem/search.py,               *)
(* hotmem/vector_index.py).  The index holds the ids of the rows it was    *)
(* last built from and a marker with the fingerprint the store had then;   *)
(* it is rebuilt while searches run and other processes write the store.   *)
(* One query is fixed: what it matches and how it ranks rows are constants.*)
(***************************************************************************)
EXTENDS Integers, FiniteSets, FiniteSetsExt, Functions

CONSTANTS
  Ids,         \* memory ids
  Kinds,       \* of rows: some of "active", "foreign", "bare" (see Row)
  Matching,    \* ids whose text matches the query
  Scope,       \* ids that pass the caller's row filter
  Withheld,    \* ids the disclosure policy omits
  Enforced,    \* a policy is in force
  Near, Score, \* order of ids by cosine; by the hybrid score
  TopK,        \* rows asked for
  Oversample,  \* rows asked of the index
  Pool,        \* of the reranker; 0: no reranker
  KeepsNewest, \* retention never removes the newest event
  None,        \* no rebuild, no search
  MaxSeq,      \* bound: events of the store
  MaxRowid     \* bound: rowids

VARIABLES
  rows,    \* the memories table
  seq,     \* of the newest event ever written, those of rebuilds left out
  trimmed, \* retention has removed the events up to this one
  index,   \* ids in the vector index
  marker,  \* its rebuild marker: {} or the one fingerprint in it
  rebuild, \* the rebuild or clear that runs
  query    \* the search that runs

vars == <<rows, seq, trimmed, index, marker, rebuild, query>>

\* A row with an embedding of the space queried, of another space, or with
\* searchable text and no embedding.
Row == [at : 1 .. MaxRowid, kind : {"active", "foreign", "bare"}]

ASSUME RecallAssumption ==
  /\ {TopK, Oversample} \subseteq Nat \ {0} /\ {Pool, MaxSeq, MaxRowid} \subseteq Nat
  /\ Kinds \subseteq {"active", "foreign", "bare"}
  /\ {Matching, Scope, Withheld} \subseteq SUBSET Ids
  /\ {Enforced, KeepsNewest} \subseteq BOOLEAN
  /\ \A order \in {Near, Score} : order \in [Ids -> Nat] /\ IsInjective(order)

LastRowid(store) == Max({0} \cup {store[id].at : id \in DOMAIN store})

Put(store, id, kind) ==
  LET rowid == IF id \in DOMAIN store THEN store[id].at ELSE LastRowid(store) + 1
  IN  [i \in DOMAIN store \cup {id} |->
         IF i = id THEN [at |-> rowid, kind |-> kind] ELSE store[i]]

Without(store, gone) == Restrict(store, DOMAIN store \ gone)

\* MAX(seq) of the events table, 0 when retention has emptied it; the next
\* event still gets a new seq (AUTOINCREMENT).
MaxEventSeq == IF trimmed = seq THEN 0 ELSE seq

Fingerprint == <<Cardinality(DOMAIN rows), LastRowid(rows), MaxEventSeq>>

OfKind(kind) == {id \in DOMAIN rows : rows[id].kind = kind}

\* The n first ids in an order.
Best(ids, order, n) ==
  {id \in ids : Cardinality({i \in ids : order[i] > order[id]}) < n}

-----------------------------------------------------------------------------
(* Writers: of this process or of another one, each write one transaction. *)

Bounded == seq' <= MaxSeq /\ LastRowid(rows') <= MaxRowid

\* A write with its event.
Write(id, kind) ==
  /\ rows' = Put(rows, id, kind) /\ seq' = seq + 1 /\ Bounded
  /\ UNCHANGED <<trimmed, index, marker, rebuild, query>>

Remove(id) ==
  /\ id \in DOMAIN rows
  /\ rows' = Without(rows, {id}) /\ seq' = seq + 1 /\ Bounded
  /\ UNCHANGED <<trimmed, index, marker, rebuild, query>>

\* replay_with_cursor: what the source's events did, without an event here.
Replay(gone, id, kind) ==
  /\ rows' = Put(Without(rows, gone), id, kind) /\ seq' = seq /\ Bounded
  /\ UNCHANGED <<trimmed, index, marker, rebuild, query>>

\* trim_events_before_seq, trim_events_by_count.  hygiene, which alone calls
\* one of them, keeps 10,000 events, the newest of them its own audit event.
Trim(through) ==
  /\ trimmed < through /\ through <= seq
  /\ KeepsNewest => through < seq
  /\ trimmed' = through
  /\ UNCHANGED <<rows, seq, index, marker, rebuild, query>>

-----------------------------------------------------------------------------
(* Rebuilding and clearing, under the write slot of the runtime.           *)

\* clear drops the collection, ...
StartClear(then) ==
  /\ rebuild = None
  /\ index' = {}
  /\ rebuild' = [step |-> "unmark", then |-> then, print |-> <<>>, left |-> {}]
  /\ UNCHANGED <<rows, seq, trimmed, marker, query>>

\* Mutant: the marker survives.
DropMarker_Kept ==
  /\ rebuild # None /\ rebuild.step = "unmark"
  /\ rebuild' = IF rebuild.then = "done" THEN None
                ELSE [rebuild EXCEPT !.step = "print"]
  /\ UNCHANGED <<rows, seq, trimmed, index, marker, query>>

\* ... then the marker.
DropMarker ==
  /\ rebuild # None /\ rebuild.step = "unmark"
  /\ marker' = {}
  /\ rebuild' = IF rebuild.then = "done" THEN None
                ELSE [rebuild EXCEPT !.step = "print"]
  /\ UNCHANGED <<rows, seq, trimmed, index, query>>

\* The fingerprint is taken before the rows are read.
TakeFingerprint ==
  /\ rebuild # None /\ rebuild.step = "print"
  /\ rebuild' = [rebuild EXCEPT !.step = "read", !.print = Fingerprint]
  /\ UNCHANGED <<rows, seq, trimmed, index, marker, query>>

\* Only rows of the space queried are indexed.
ReadRows ==
  /\ rebuild # None /\ rebuild.step = "read"
  /\ rebuild' = [rebuild EXCEPT !.step = "upsert", !.left = OfKind("active")]
  /\ UNCHANGED <<rows, seq, trimmed, index, marker, query>>

\* A batch.
Upsert(ids) ==
  /\ rebuild # None /\ rebuild.step = "upsert"
  /\ ids # {} /\ ids \subseteq rebuild.left
  /\ index' = index \cup ids
  /\ rebuild' = [rebuild EXCEPT !.left = @ \ ids]
  /\ UNCHANGED <<rows, seq, trimmed, marker, query>>

WriteMarker ==
  /\ rebuild # None /\ rebuild.step = "upsert" /\ rebuild.left = {}
  /\ marker' = {rebuild.print} /\ rebuild' = None
  /\ UNCHANGED <<rows, seq, trimmed, index, query>>

\* The process ends; store, index and marker are on disk.
Crash ==
  /\ rebuild' = None /\ query' = None
  /\ UNCHANGED <<rows, seq, trimmed, index, marker>>

-----------------------------------------------------------------------------
(* Searching.                                                              *)

\* is_stale
Fresh == marker = {Fingerprint}

At(step) == query # None /\ query.step = step

Goto(step) == query' = [query EXCEPT !.step = step]

\* A row filter: of a policy or of a namespace asked for.
RowFilter == Enforced \/ Scope # Ids

\* search_memories: one pass over the text index, then the candidates.
Ask ==
  /\ query = None
  /\ query' = [step |-> "check", text |-> Matching \cap Scope \cap DOMAIN rows,
               hits |-> {}, again |-> FALSE, answer |-> {}]
  /\ UNCHANGED <<rows, seq, trimmed, index, marker, rebuild>>

CheckFresh ==
  /\ At("check")
  /\ Goto(IF Fresh THEN "texts" ELSE "scan")
  /\ UNCHANGED <<rows, seq, trimmed, index, marker, rebuild>>

\* has_unindexed_text_rows
CheckTexts ==
  /\ At("texts")
  /\ Goto(IF OfKind("bare") = {} THEN "index" ELSE "scan")
  /\ UNCHANGED <<rows, seq, trimmed, index, marker, rebuild>>

AskIndex ==
  /\ At("index")
  /\ LET hits == Best(index, Near, Oversample)
     IN  query' = [query EXCEPT !.step = IF hits = {} THEN "scan" ELSE "fetch",
                                !.hits = hits]
  /\ UNCHANGED <<rows, seq, trimmed, index, marker, rebuild>>

\* The index raises.
IndexFails ==
  /\ At("index")
  /\ Goto("scan")
  /\ UNCHANGED <<rows, seq, trimmed, index, marker, rebuild>>

\* The rows a search may return: the best, or what a reranker picks of its
\* pool (an invalid pick is replaced by the best).
Selections(candidates) ==
  LET disclosed == candidates \ Withheld
      window    == Best(disclosed, Score, Max({TopK, Pool}))
  IN  IF Pool = 0 THEN {Best(disclosed, Score, TopK)}
      ELSE kSubset(Min({TopK, Cardinality(window)}), window)

\* Mutant: a short answer of the index is returned.
Conclude_Short(candidates) ==
  \E answer \in Selections(candidates) :
    query' = [query EXCEPT !.step = "answered", !.answer = answer]

\* Under a policy HotMemRuntime.search scans once more when rows are missing.
Conclude(candidates) ==
  \E answer \in Selections(candidates) :
    query' = IF Enforced /\ ~query.again /\ Cardinality(answer) < TopK
             THEN [query EXCEPT !.step = "scan", !.again = TRUE]
             ELSE [query EXCEPT !.step = "answered", !.answer = answer]

\* The hits and the matches are fetched from the store (search_by_ids).  If
\* rows out of scope may have crowded out others, the store is scanned.
Fetch ==
  /\ At("fetch")
  /\ LET found == (query.hits \cup query.text) \cap DOMAIN rows \cap Scope
     IN  IF RowFilter /\ Cardinality(found) < TopK
                      /\ Cardinality(query.hits) >= Oversample
         THEN Goto("scan")
         ELSE Conclude(found)
  /\ UNCHANGED <<rows, seq, trimmed, index, marker, rebuild>>

\* search_with_cosine
Scan ==
  /\ At("scan")
  /\ Conclude(Scope \cap DOMAIN rows)
  /\ UNCHANGED <<rows, seq, trimmed, index, marker, rebuild>>

Reply ==
  /\ At("answered")
  /\ query' = None
  /\ UNCHANGED <<rows, seq, trimmed, index, marker, rebuild>>

-----------------------------------------------------------------------------
Init ==
  /\ rows = <<>> /\ seq = 0 /\ trimmed = 0
  /\ index = {} /\ marker = {}
  /\ rebuild = None /\ query = None

Writers ==
  \/ \E id \in Ids, kind \in Kinds : Write(id, kind)
  \/ \E id \in Ids : Remove(id)
  \/ \E through \in 1 .. MaxSeq : Trim(through)

Rebuild ==
  \/ StartClear("print") \/ StartClear("done") \/ DropMarker
  \/ TakeFingerprint \/ ReadRows
  \/ \E ids \in SUBSET Ids : Upsert(ids)
  \/ WriteMarker

Search ==
  \/ Ask \/ CheckFresh \/ CheckTexts \/ AskIndex \/ IndexFails
  \/ Fetch \/ Scan \/ Reply

Next == Writers \/ Rebuild \/ Search \/ Crash

Spec == Init /\ [][Next]_vars

\* The store of a follower.
FollowerNext ==
  \/ Next
  \/ \E id \in Ids, kind \in Kinds, gone \in SUBSET Ids :
       Cardinality(gone) <= 1 /\ Replay(gone, id, kind)

FollowerSpec == Init /\ [][FollowerNext]_vars

-----------------------------------------------------------------------------
(* Properties.                                                             *)

RecallTypeOK ==
  /\ DOMAIN rows \subseteq Ids /\ \A id \in DOMAIN rows : rows[id] \in Row
  /\ index \subseteq Ids

\* The index is never silently incomplete: one that reads fresh and has hits
\* knows every row that can be compared with the query, whatever other
\* processes wrote and trimmed and wherever a rebuild was cut off.  (It is
\* false when retention empties the log, KeepsNewest = FALSE: an earlier
\* fingerprint comes back.)
FreshIsComplete == Fresh /\ index # {} => OfKind("active") \subseteq index

\* Eligible rows are never starved: an answer with room left holds, when it
\* is given, every row in scope that may be disclosed, though the rows the
\* index offered were out of scope, withheld, gone, or few because a
\* rebuild had begun.
NeverStarved ==
  [][query # None /\ query' # None /\ query.step # "answered"
     /\ query'.step = "answered" /\ Cardinality(query'.answer) < TopK
       => (Scope \cap DOMAIN rows) \ Withheld \subseteq query'.answer]_vars
=============================================================================
