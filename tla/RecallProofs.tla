---------------------------- MODULE RecallProofs ----------------------------
(***************************************************************************)
(* The index of Recall is never silently incomplete, and under a policy no *)
(* answer is short of a row that may be shown: for every set of ids, every *)
(* query, and with no bound on writers, rebuilds and crashes but those of  *)
(* the model.                                                              *)
(***************************************************************************)
EXTENDS Recall, FiniteSetTheorems, WellFoundedInduction, TLAPS

\* What a fingerprint taken earlier still says: it is not of the future, and
\* if no event came after it, the ids it vouches for are all there are.
Vouches(print, ids) ==
  /\ print[3] \in Nat /\ print[3] <= seq
  /\ print[3] = seq => OfKind("active") \subseteq ids

\* The marker vouches for the index, unless a clear has just emptied it.
MarkerInv == \A print \in marker : Vouches(print, IF index = {} THEN OfKind("active") ELSE index)

RebuildShape ==
  rebuild # None =>
    rebuild = [step |-> rebuild.step, then |-> rebuild.then,
               print |-> rebuild.print, left |-> rebuild.left]

\* A rebuild first empties the index, then has no marker; its fingerprint
\* vouches for what is indexed and what is left to index.
RebuildInv ==
  rebuild # None =>
    /\ rebuild.step \in {"unmark", "print", "read", "upsert"}
    /\ rebuild.step = "unmark" => index = {}
    /\ rebuild.step # "unmark" => marker = {}
    /\ rebuild.step = "read" => Vouches(rebuild.print, OfKind("active"))
    /\ rebuild.step = "upsert" => Vouches(rebuild.print, index \cup rebuild.left)

\* The newest event, if there ever was one, is in the table.
NewestKept ==
  /\ {seq, trimmed} \subseteq Nat /\ trimmed <= seq
  /\ trimmed = seq => seq = 0

IndexInv == NewestKept /\ MarkerInv /\ RebuildShape /\ RebuildInv

-----------------------------------------------------------------------------
\* Initially there is no index, no marker and no rebuild.
LEMMA InitIndex == Init => IndexInv
BY DEF Init, IndexInv, NewestKept, MarkerInv, RebuildShape, RebuildInv

\* An event makes every earlier fingerprint stale, whatever it did to rows.
LEMMA EventsInvalidate ==
  ASSUME NEW ids, NEW others, NEW print, seq \in Nat, Vouches(print, ids),
         seq' = seq + 1
  PROVE  /\ print[3] \in Nat /\ print[3] <= seq'
         /\ print[3] = seq' => OfKind("active")' \subseteq others
BY DEF Vouches

\* Writers of this and of other processes, and their retention.
LEMMA WritersKeepIndex ==
  ASSUME KeepsNewest, IndexInv, Writers PROVE IndexInv'
<1>1. CASE \E through \in 1 .. MaxSeq : Trim(through)
  BY <1>1 DEF Trim, IndexInv, NewestKept, MarkerInv, RebuildShape, RebuildInv,
              Vouches, OfKind
<1>2. CASE /\ seq' = seq + 1 /\ trimmed <= seq
           /\ UNCHANGED <<trimmed, index, marker, rebuild>>
  <2>1. MarkerInv'
    <3> SUFFICES ASSUME NEW print \in marker
                 PROVE  Vouches(print, IF index = {} THEN OfKind("active")
                                       ELSE index)'
      BY <1>2 DEF MarkerInv
    <3> QED  BY <1>2, EventsInvalidate
             DEF IndexInv, NewestKept, MarkerInv, Vouches
  <2>2. RebuildInv'
    BY <1>2 DEF IndexInv, NewestKept, RebuildInv, Vouches
  <2>3. NewestKept'
    BY <1>2 DEF IndexInv, NewestKept
  <2> QED  BY <1>2, <2>1, <2>2, <2>3 DEF IndexInv, RebuildShape
<1> QED  BY <1>1, <1>2 DEF Writers, Write, Remove, IndexInv, NewestKept

\* The steps of a rebuild or a clear.
LEMMA RebuildKeepsIndex == IndexInv /\ Rebuild => IndexInv'
<1> SUFFICES ASSUME IndexInv, Rebuild PROVE IndexInv'
  OBVIOUS
<1> USE DEF IndexInv, NewestKept
<1>1. ASSUME NEW then, StartClear(then) PROVE IndexInv'
  BY <1>1 DEF StartClear, MarkerInv, RebuildShape, RebuildInv, Vouches, OfKind
<1>2. CASE DropMarker
  BY <1>2 DEF DropMarker, MarkerInv, RebuildShape, RebuildInv
<1>3. CASE TakeFingerprint
  <2>1. /\ rebuild # None /\ rebuild.step = "print"
        /\ rebuild' = [rebuild EXCEPT !.step = "read", !.print = Fingerprint]
        /\ UNCHANGED <<rows, seq, trimmed, index, marker>>
    BY <1>3 DEF TakeFingerprint
  <2>2. Fingerprint[3] = seq
    BY DEF Fingerprint, MaxEventSeq, NewestKept
  <2>3. rebuild' = [step |-> "read", then |-> rebuild.then,
                    print |-> Fingerprint, left |-> rebuild.left]
    BY <2>1 DEF RebuildShape
  <2>4. Vouches(rebuild.print, OfKind("active"))'
    BY <2>1, <2>2, <2>3 DEF Vouches, OfKind
  <2>5. RebuildShape' /\ RebuildInv'
    BY <2>1, <2>3, <2>4 DEF RebuildShape, RebuildInv
  <2> QED  BY <2>1, <2>5 DEF NewestKept, MarkerInv, Vouches, OfKind
<1>4. CASE ReadRows
  BY <1>4 DEF ReadRows, MarkerInv, RebuildShape, RebuildInv, Vouches, OfKind
<1>5. ASSUME NEW ids \in SUBSET Ids, Upsert(ids) PROVE IndexInv'
  BY <1>5 DEF Upsert, MarkerInv, RebuildShape, RebuildInv, Vouches, OfKind
<1>6. CASE WriteMarker
  BY <1>6 DEF WriteMarker, MarkerInv, RebuildShape, RebuildInv, Vouches, OfKind
<1> QED  BY <1>1, <1>2, <1>3, <1>4, <1>5, <1>6 DEF Rebuild

\* A search reads, and a process that ends loses only its rebuild.
LEMMA OthersKeepIndex ==
  ASSUME IndexInv, UNCHANGED <<rows, seq, trimmed, index, marker>>,
         rebuild' = rebuild \/ rebuild' = None
  PROVE  IndexInv'
BY DEF IndexInv, NewestKept, MarkerInv, RebuildShape, RebuildInv, Vouches,
       OfKind

\* Every step of the specification.
LEMMA NextKeepsIndex ==
  ASSUME KeepsNewest PROVE IndexInv /\ [Next]_vars => IndexInv'
<1> SUFFICES ASSUME IndexInv, [Next]_vars PROVE IndexInv'
  OBVIOUS
<1>1. CASE Writers
  BY <1>1, WritersKeepIndex
<1>2. CASE Rebuild
  BY <1>2, RebuildKeepsIndex
<1>3. CASE Search
  <2>1. UNCHANGED <<rows, seq, trimmed, index, marker, rebuild>>
    BY <1>3 DEF Search, Ask, CheckFresh, CheckTexts, AskIndex, IndexFails,
                Fetch, Scan, Reply
  <2> QED  BY <2>1, OthersKeepIndex
<1>4. CASE Crash
  BY <1>4, OthersKeepIndex DEF Crash
<1>5. CASE UNCHANGED vars
  BY <1>5, OthersKeepIndex DEF vars
<1> QED  BY <1>1, <1>2, <1>3, <1>4, <1>5 DEF Next

\* The invariant says what a search relies on.
LEMMA IndexInvSuffices == IndexInv => FreshIsComplete
<1> SUFFICES ASSUME IndexInv, Fresh, index # {}
             PROVE  OfKind("active") \subseteq index
  BY DEF FreshIsComplete
<1>1. Vouches(Fingerprint, index)
  BY DEF IndexInv, MarkerInv, Fresh
<1> QED  BY <1>1 DEF Vouches, Fingerprint, MaxEventSeq, IndexInv, NewestKept

\* rebuild_vector_index takes the fingerprint before it reads the rows and
\* writes the marker last; so an index that reads fresh and is not empty
\* knows every comparable row, wherever a rebuild or a clear was cut off and
\* whatever was written beside it, as long as retention keeps the newest event,
\* as hygiene does, so that no fingerprint comes back.
THEOREM IndexNeverSilentlyIncomplete ==
  ASSUME KeepsNewest PROVE Spec => []FreshIsComplete
<1>1. Spec => []IndexInv
  BY InitIndex, NextKeepsIndex, PTL DEF Spec
<1> QED  BY <1>1, IndexInvSuffices, PTL

-----------------------------------------------------------------------------
(* Answers.                                                                *)

\* A set of numbers has a least one.
LEMMA LeastOf ==
  ASSUME NEW T \in SUBSET Nat, T # {} PROVE \E m \in T : \A i \in T : m <= i
<1>1. PICK m \in T : \A i \in T : <<i, m>> \notin OpToRel(<, Nat)
  BY NatLessThanWellFounded, WFMin
<1>2. \A i \in T : ~(i < m)
  BY <1>1 DEF OpToRel
<1> QED  BY <1>2

\* A ranking that leaves room left nobody out.
LEMMA RoomMeansAll ==
  ASSUME NEW ids \in SUBSET Ids, IsFiniteSet(ids), NEW order \in [Ids -> Nat],
         NEW n \in Nat, Cardinality(Best(ids, order, n)) < n
  PROVE  Best(ids, order, n) = ids
<1> DEFINE above(id) == {i \in ids : order[i] > order[id]}
           rank(id)  == Cardinality(above(id))
           out       == ids \ Best(ids, order, n)
           ranks     == {rank(id) : id \in out}
<1>1. \A id \in ids : IsFiniteSet(above(id)) /\ rank(id) \in Nat
  <2> SUFFICES ASSUME NEW id \in ids
               PROVE  IsFiniteSet(above(id)) /\ rank(id) \in Nat
    OBVIOUS
  <2> QED  BY FS_Subset, FS_CardinalityType, above(id) \in SUBSET ids
<1>2. Best(ids, order, n) = {id \in ids : rank(id) < n}
  BY DEF Best
<1> SUFFICES ASSUME out # {} PROVE FALSE
  BY DEF Best
<1>3. ranks \in SUBSET Nat /\ ranks # {}
  <2>1. \A id \in out : rank(id) \in Nat
    <3>1. out \subseteq ids
      OBVIOUS
    <3> HIDE DEF out, rank
    <3> QED  BY <1>1, <3>1
  <2>2. PICK id : id \in out
    OBVIOUS
  <2> HIDE DEF out, rank
  <2>3. rank(id) \in ranks
    BY <2>2
  <2>4. ranks \subseteq Nat
    BY <2>1
  <2> QED  BY <2>3, <2>4
<1>4. PICK least \in ranks : \A r \in ranks : least <= r
  <2> HIDE DEF ranks
  <2> QED  BY <1>3, LeastOf
<1>5. PICK x \in out : rank(x) = least
  OBVIOUS
<1>6. above(x) \subseteq Best(ids, order, n)
  <2> SUFFICES ASSUME NEW y \in above(x), y \in out PROVE FALSE
    OBVIOUS
  <2>1. order[x] \in Nat /\ order[y] \in Nat /\ order[y] > order[x]
    OBVIOUS
  <2>2. above(y) \subseteq above(x)
    BY <2>1
  <2>3. y \in above(x) /\ y \notin above(y)
    BY <2>1
  <2>4. rank(y) <= rank(x) /\ (rank(x) = rank(y) => above(x) = above(y))
    <3> HIDE DEF above
    <3> QED  BY <1>1, <2>2, FS_Subset, x \in ids
  <2>5. rank(y) < rank(x)
    <3> HIDE DEF above
    <3> QED  BY <2>3, <2>4, <1>1, x \in ids, y \in out, y \in ids
  <2>6. least <= rank(y)
    <3> HIDE DEF rank
    <3> QED  BY <1>4
  <2>7. rank(x) \in Nat /\ rank(y) \in Nat
    <3> HIDE DEF above
    <3> QED  BY <1>1, x \in ids, y \in ids
  <2> HIDE DEF rank, out
  <2> QED  BY <2>5, <2>6, <2>7, <1>5
<1>7. IsFiniteSet(Best(ids, order, n))
  BY FS_Subset, Best(ids, order, n) \in SUBSET ids DEF Best
<1>8. rank(x) <= Cardinality(Best(ids, order, n))
  <2> HIDE DEF above
  <2> QED  BY <1>6, <1>7, FS_Subset
<1>9. rank(x) < n
  <2>1. rank(x) \in Nat /\ Cardinality(Best(ids, order, n)) \in Nat
    BY <1>1, <1>7, FS_CardinalityType
  <2> HIDE DEF rank
  <2> QED  BY <1>8, <2>1
<1> QED  BY <1>2, <1>9

\* The larger and the smaller of two numbers.
LEMMA MaxMinOfTwo ==
  ASSUME NEW a \in Nat, NEW b \in Nat
  PROVE  /\ Max({a, b}) \in Nat /\ Max({a, b}) >= a
         /\ Min({a, b}) \in {a, b} /\ Min({a, b}) <= b
<1>1. \E x \in {a, b} : \A y \in {a, b} : x >= y
  OBVIOUS
<1>2. \E x \in {a, b} : \A y \in {a, b} : x =< y
  OBVIOUS
<1>3. Max({a, b}) \in {a, b} /\ \A y \in {a, b} : Max({a, b}) >= y
  BY <1>1 DEF Max
<1>4. Min({a, b}) \in {a, b} /\ \A y \in {a, b} : Min({a, b}) =< y
  BY <1>2 DEF Min
<1> QED  BY <1>3, <1>4

\* A selection with room left is all that may be disclosed, with a reranker
\* or without one.
LEMMA ShortSelection ==
  ASSUME NEW candidates \in SUBSET Ids, IsFiniteSet(candidates),
         NEW answer \in Selections(candidates), Cardinality(answer) < TopK
  PROVE  answer = candidates \ Withheld
<1> DEFINE disclosed == candidates \ Withheld
           wide   == Max({TopK, Pool})
           window == Best(disclosed, Score, wide)
           size   == Cardinality(window)
<1>1. /\ TopK \in Nat /\ Pool \in Nat /\ Score \in [Ids -> Nat]
      /\ disclosed \in SUBSET Ids /\ IsFiniteSet(disclosed)
  BY RecallAssumption, FS_Subset, disclosed \in SUBSET candidates
<1>2. CASE Pool = 0
  <2>1. answer = Best(disclosed, Score, TopK)
    BY <1>2 DEF Selections
  <2> HIDE DEF disclosed
  <2>2. answer = disclosed
    BY <1>1, <2>1, RoomMeansAll
  <2> QED  BY <2>2 DEF disclosed
<1>3. CASE Pool # 0
  <2>1. answer \in SUBSET window /\ Cardinality(answer) = Min({TopK, size})
    BY <1>3 DEF Selections, kSubset
  <2>2. wide \in Nat /\ wide >= TopK
    BY <1>1, MaxMinOfTwo
  <2>3. window \subseteq disclosed /\ IsFiniteSet(window) /\ size \in Nat
    BY <1>1, FS_Subset, FS_CardinalityType, window \in SUBSET disclosed DEF Best
  <2>4. Min({TopK, size}) \in {TopK, size}
    BY <1>1, <2>3, MaxMinOfTwo
  <2>5. Cardinality(answer) = size /\ size < wide
    BY <1>1, <2>1, <2>2, <2>3, <2>4, SMTT(30)
  <2>6. answer = window
    BY <2>1, <2>3, <2>5, FS_Subset
  <2>7. window = disclosed
    BY <1>1, <2>2, <2>5, RoomMeansAll
  <2> QED  BY <2>6, <2>7
<1> QED  BY <1>2, <1>3

\* The rows are some of finitely many writes; a search asks the store again
\* only when it scans.
SearchInv ==
  /\ DOMAIN rows \in SUBSET Ids /\ IsFiniteSet(DOMAIN rows)
  /\ query # None =>
       /\ query = [step |-> query.step, text |-> query.text,
                   hits |-> query.hits, again |-> query.again,
                   answer |-> query.answer]
       /\ query.step \in {"check", "texts", "index", "fetch"} => ~query.again

\* At first there are no rows and there is no search.
LEMMA InitSearch == Init => SearchInv
<1> SUFFICES ASSUME Init PROVE SearchInv
  OBVIOUS
<1>1. DOMAIN rows = {}
  BY DEF Init
<1> QED  BY <1>1, FS_EmptySet DEF Init, SearchInv

\* A write adds one row at the most.
LEMMA RowsStayFinite ==
  ASSUME NEW base, DOMAIN base \in SUBSET Ids, IsFiniteSet(DOMAIN base)
  PROVE  /\ \A gone : /\ DOMAIN Without(base, gone) \in SUBSET Ids
                      /\ IsFiniteSet(DOMAIN Without(base, gone))
         /\ \A id \in Ids : \A kind :
              /\ DOMAIN Put(base, id, kind) \in SUBSET Ids
              /\ IsFiniteSet(DOMAIN Put(base, id, kind))
<1>1. ASSUME NEW gone
      PROVE  /\ DOMAIN Without(base, gone) \in SUBSET Ids
             /\ IsFiniteSet(DOMAIN Without(base, gone))
  <2>1. DOMAIN Without(base, gone) = DOMAIN base \ gone
    BY DEF Without, Restrict
  <2> QED  BY <2>1, FS_Subset, DOMAIN base \ gone \in SUBSET DOMAIN base
<1>2. ASSUME NEW id \in Ids, NEW kind
      PROVE  /\ DOMAIN Put(base, id, kind) \in SUBSET Ids
             /\ IsFiniteSet(DOMAIN Put(base, id, kind))
  <2>1. DOMAIN Put(base, id, kind) = DOMAIN base \cup {id}
    BY DEF Put
  <2> QED  BY <2>1, FS_AddElement
<1> QED  BY <1>1, <1>2

\* Every step of the specification, of a follower's store too.
LEMMA NextKeepsSearch == SearchInv /\ [FollowerNext]_vars => SearchInv'
<1> SUFFICES ASSUME SearchInv, [FollowerNext]_vars PROVE SearchInv'
  OBVIOUS
<1>1. ASSUME UNCHANGED query, DOMAIN rows' \in SUBSET Ids,
             IsFiniteSet(DOMAIN rows')
      PROVE  SearchInv'
  BY <1>1 DEF SearchInv
<1>2. ASSUME NEW id \in Ids, NEW kind, Write(id, kind) PROVE SearchInv'
  <2>1. rows' = Put(rows, id, kind) /\ UNCHANGED query
    BY <1>2 DEF Write
  <2> QED  BY <1>1, <2>1, RowsStayFinite DEF SearchInv
<1>3. ASSUME NEW id \in Ids, Remove(id) PROVE SearchInv'
  <2>1. rows' = Without(rows, {id}) /\ UNCHANGED query
    BY <1>3 DEF Remove
  <2> QED  BY <1>1, <2>1, RowsStayFinite DEF SearchInv
<1>4. ASSUME NEW id \in Ids, NEW kind, NEW gone, Replay(gone, id, kind)
      PROVE  SearchInv'
  <2>1. rows' = Put(Without(rows, gone), id, kind) /\ UNCHANGED query
    BY <1>4 DEF Replay
  <2>2. /\ DOMAIN Without(rows, gone) \in SUBSET Ids
        /\ IsFiniteSet(DOMAIN Without(rows, gone))
    BY RowsStayFinite DEF SearchInv
  <2>3. DOMAIN rows' \in SUBSET Ids /\ IsFiniteSet(DOMAIN rows')
    BY <2>1, <2>2, RowsStayFinite
  <2> QED  BY <1>1, <2>1, <2>3
<1>5. CASE Rebuild
  <2>1. UNCHANGED <<rows, query>>
    BY <1>5 DEF Rebuild, StartClear, DropMarker, TakeFingerprint, ReadRows,
                Upsert, WriteMarker
  <2> QED  BY <1>1, <2>1 DEF SearchInv
<1>6. CASE Search
  <2> USE DEF SearchInv
  <2>1. CASE Ask
    BY <2>1 DEF Ask
  <2>2. CASE CheckFresh
    BY <2>2 DEF CheckFresh, At, Goto
  <2>3. CASE CheckTexts
    BY <2>3 DEF CheckTexts, At, Goto
  <2>4. CASE AskIndex
    BY <2>4 DEF AskIndex, At
  <2>5. CASE IndexFails
    BY <2>5 DEF IndexFails, At, Goto
  <2>6. ASSUME NEW candidates, query # None, UNCHANGED rows,
               Conclude(candidates)
        PROVE  SearchInv'
    <3> DEFINE asked(step, again, answer) ==
                 [step |-> step, text |-> query.text, hits |-> query.hits,
                  again |-> again, answer |-> answer]
    <3>1. PICK answer \in Selections(candidates) :
            query' \in {[query EXCEPT !.step = "scan", !.again = TRUE],
                       [query EXCEPT !.step = "answered", !.answer = answer]}
      BY <2>6 DEF Conclude
    <3>2. query = asked(query.step, query.again, query.answer)
      BY <2>6
    <3>3. query' \in {asked("scan", TRUE, query.answer),
                     asked("answered", query.again, answer)}
      BY <3>1, <3>2
    <3> QED  BY <2>6, <3>3
  <2>7. CASE Fetch
    <3>1. query # None /\ UNCHANGED rows
      BY <2>7 DEF Fetch, At
    <3>2. CASE Goto("scan")
      BY <3>1, <3>2 DEF Goto
    <3>3. CASE Conclude((query.hits \cup query.text) \cap DOMAIN rows \cap Scope)
      BY <2>6, <3>1, <3>3
    <3> QED  BY <2>7, <3>2, <3>3 DEF Fetch
  <2>8. CASE Scan
    BY <2>6, <2>8 DEF Scan, At
  <2>9. CASE Reply
    BY <2>9 DEF Reply
  <2> QED  BY <1>6, <2>1, <2>2, <2>3, <2>4, <2>5, <2>7, <2>8, <2>9 DEF Search
<1>7. CASE Crash
  BY <1>7 DEF Crash, SearchInv
<1>8. CASE UNCHANGED vars
  BY <1>8, <1>1 DEF vars, SearchInv
<1>9. ASSUME NEW through, Trim(through) PROVE SearchInv'
  BY <1>9, <1>1 DEF Trim, SearchInv
<1> QED  BY <1>2, <1>3, <1>4, <1>5, <1>6, <1>7, <1>8, <1>9
            DEF FollowerNext, Next, Writers

\* What a step that answers has looked at: under a policy it has as many
\* rows as were asked for, or it was a scan.
LEMMA AnswersAreFull ==
  ASSUME SearchInv, Enforced, [FollowerNext]_vars,
         query # None, query' # None, query.step # "answered",
         query'.step = "answered", Cardinality(query'.answer) < TopK
  PROVE  /\ UNCHANGED rows
         /\ query'.answer \in Selections(Scope \cap DOMAIN rows)
<1>1. ASSUME NEW candidates, Conclude(candidates)
      PROVE  query'.answer \in Selections(candidates) /\ query.again
  <2>1. PICK answer \in Selections(candidates) :
          query' = IF Enforced /\ ~query.again /\ Cardinality(answer) < TopK
                   THEN [query EXCEPT !.step = "scan", !.again = TRUE]
                   ELSE [query EXCEPT !.step = "answered", !.answer = answer]
    BY <1>1 DEF Conclude
  <2>2. [query EXCEPT !.step = "scan", !.again = TRUE].step = "scan"
    BY DEF SearchInv
  <2>3. query' = [query EXCEPT !.step = "answered", !.answer = answer]
    BY <2>1, <2>2
  <2>4. query'.answer = answer
    BY <2>3 DEF SearchInv
  <2> QED  BY <2>1, <2>2, <2>4
<1>2. ASSUME NEW step, Goto(step) PROVE step = "answered"
  BY <1>2 DEF Goto, SearchInv
<1>3. CASE Search
  <2>1. ~Ask /\ ~Reply
    BY DEF Ask, Reply
  <2>2. ~CheckFresh /\ ~CheckTexts /\ ~IndexFails
    BY <1>2 DEF CheckFresh, CheckTexts, IndexFails
  <2>3. ~AskIndex
    BY DEF AskIndex, SearchInv
  <2>4. ~Fetch
    <3> SUFFICES ASSUME Fetch PROVE FALSE
      OBVIOUS
    <3>1. query.step = "fetch" /\ ~query.again
      BY DEF Fetch, At, SearchInv
    <3> QED  BY <1>1, <1>2, <3>1 DEF Fetch
  <2>5. Scan
    BY <1>3, <2>1, <2>2, <2>3, <2>4 DEF Search
  <2> QED  BY <1>1, <2>5 DEF Scan
<1>4. CASE query' = query
  BY <1>4
<1>5. CASE Crash
  BY <1>5 DEF Crash
<1>6. Writers \/ Rebuild => query' = query
  BY DEF Writers, Write, Remove, Trim, Rebuild, StartClear, DropMarker,
         TakeFingerprint, ReadRows, Upsert, WriteMarker
<1>7. \A id, kind, gone : Replay(gone, id, kind) => query' = query
  BY DEF Replay
<1> QED  BY <1>3, <1>4, <1>5, <1>6, <1>7 DEF FollowerNext, Next, vars

\* Under a policy an answer with room left is of a scan of the store, so it
\* holds every row in scope that may be disclosed.
LEMMA StepsStarveNobody ==
  ASSUME SearchInv, Enforced, [FollowerNext]_vars
  PROVE  query # None /\ query' # None /\ query.step # "answered"
         /\ query'.step = "answered" /\ Cardinality(query'.answer) < TopK
           => (Scope \cap DOMAIN rows) \ Withheld \subseteq query'.answer
<1> SUFFICES ASSUME query # None, query' # None, query.step # "answered",
                    query'.step = "answered",
                    Cardinality(query'.answer) < TopK
             PROVE  (Scope \cap DOMAIN rows) \ Withheld \subseteq query'.answer
  OBVIOUS
<1> DEFINE there == Scope \cap DOMAIN rows
<1>1. query'.answer \in Selections(there)
  BY AnswersAreFull
<1>2. there \in SUBSET Ids /\ IsFiniteSet(there)
  BY FS_Subset, there \in SUBSET DOMAIN rows DEF SearchInv
<1> HIDE DEF there
<1>3. query'.answer = there \ Withheld
  BY <1>1, <1>2, ShortSelection
<1> QED  BY <1>3 DEF there

\* Where a policy is in force, whatever the index offered (rows out of
\* scope, withheld, gone, or few because a rebuild had begun), with or
\* without a reranker, beside any writers, rebuilds and crashes, and in a
\* follower's store too, HotMemRuntime.search never returns fewer rows than
\* were asked for while an eligible one is left out.
THEOREM EligibleNeverStarved ==
  ASSUME Enforced
  PROVE  (Spec => NeverStarved) /\ (FollowerSpec => NeverStarved)
<1>1. SearchInv /\ [FollowerNext]_vars => SearchInv'
  BY NextKeepsSearch
<1>2. [Next]_vars => [FollowerNext]_vars
  BY DEF FollowerNext
<1>3. ASSUME SearchInv, [FollowerNext]_vars
      PROVE  [query # None /\ query' # None /\ query.step # "answered"
              /\ query'.step = "answered" /\ Cardinality(query'.answer) < TopK
                => (Scope \cap DOMAIN rows) \ Withheld \subseteq query'.answer]_vars
  BY <1>3, StepsStarveNobody
<1>4. Spec => NeverStarved
  BY InitSearch, <1>1, <1>2, <1>3, PTL DEF Spec, NeverStarved
<1>5. FollowerSpec => NeverStarved
  BY InitSearch, <1>1, <1>3, PTL DEF FollowerSpec, NeverStarved
<1> QED  BY <1>4, <1>5
=============================================================================
