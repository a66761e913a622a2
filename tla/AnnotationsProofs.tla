-------------------------- MODULE AnnotationsProofs --------------------------
(***************************************************************************)
(* Imports of Annotations.tla, for all stores, files, batch sizes and      *)
(* limits: batches are invisible, an import that was cut off and is begun  *)
(* again ends where it would have ended, and no import takes away what the *)
(* store has.                                                              *)
(*                                                                         *)
(* The argument goes by steps.  A fold is the last of a sequence of stores *)
(* (TakesBy for InOrder, MergesBy for a flush), and what holds of all of   *)
(* them is shown for the set of the numbers where it holds (UpTo).  Row by *)
(* row, a flush is then one of the steps that its records take one by one. *)
(***************************************************************************)
EXTENDS Annotations, FiniteSetTheorems, SequenceTheorems,
        WellFoundedInduction, TLAPS

-----------------------------------------------------------------------------
(* Numbers and folds.                                                      *)

\* A set of numbers has a least one.
LEMMA LeastOf ==
  ASSUME NEW T \in SUBSET Nat, T # {} PROVE \E m \in T : \A i \in T : m <= i
<1>1. PICK m \in T : \A i \in T : <<i, m>> \notin OpToRel(<, Nat)
  BY NatLessThanWellFounded, WFMin
<1>2. \A i \in T : ~(i < m)
  BY <1>1 DEF OpToRel
<1> QED  BY <1>2

\* Induction up to a bound.
LEMMA UpTo ==
  ASSUME NEW n \in Nat, NEW S, 0 \in S, \A s \in 1..n : s - 1 \in S => s \in S
  PROVE  0..n \subseteq S
<1> DEFINE T == {s \in 0..n : s \notin S}
<1> SUFFICES ASSUME T # {} PROVE FALSE
  OBVIOUS
<1>1. PICK m \in T : \A i \in T : m <= i
  BY LeastOf, T \in SUBSET Nat
<1>2. m # 0 /\ m \in 1..n /\ m - 1 \in 0..n /\ m - 1 < m
  OBVIOUS
<1>3. m - 1 \in S
  BY <1>1, <1>2
<1> QED  BY <1>2, <1>3

\* The greatest of some places of a sequence.
LEMMA LastPlace ==
  ASSUME NEW n \in Nat, NEW T \in SUBSET (1..n), T # {}
  PROVE  Max(T) \in T /\ \A i \in T : i <= Max(T)
<1> DEFINE U == {i \in 0..n : n - i \in T}
<1>1. PICK t \in T : TRUE
  OBVIOUS
<1>2. n - t \in U
  BY <1>1
<1>3. PICK m \in U : \A i \in U : m <= i
  BY <1>2, LeastOf, U \in SUBSET Nat
<1>4. n - m \in T /\ \A i \in T : n - m >= i
  <2>1. \A i \in T : n - i \in U
    OBVIOUS
  <2> QED  BY <1>3, <2>1
<1>5. \E x \in T : \A y \in T : x >= y
  BY <1>4
<1>6. Max(T) \in T /\ \A y \in T : Max(T) >= y
  BY <1>5 DEF Max
<1> QED  BY <1>6

\* The recursive function of a fold takes the elements of a sequence that
\* are at some places from the first one to the last.
FoldsBy(F, base, n, s, g) ==
  \A u \in SUBSET (1..n) :
    g[u] = IF u = {} THEN base ELSE F[<<g[u \ {Max(u)}], s[Max(u)]>>]

\* It exists.
LEMMA FoldExists ==
  ASSUME NEW T, NEW D, NEW F \in [T \X D -> T], NEW base \in T,
         NEW n \in Nat, NEW s \in [1..n -> D]
  PROVE  \E g \in [SUBSET (1..n) -> T] : FoldsBy(F, base, n, s, g)
<1> DEFINE Folds(g, k) == FoldsBy(F, base, k, s, g)
           Good(k) == \E g \in [SUBSET (1..k) -> T] : Folds(g, k)
           S == {k \in 0..n : Good(k)}
<1>1. Good(0)
  <2> USE DEF FoldsBy
  <2> DEFINE g == [u \in SUBSET (1..0) |-> base]
  <2>1. g \in [SUBSET (1..0) -> T] /\ Folds(g, 0)
    <3>1. \A u \in SUBSET (1..0) : u = {}
      OBVIOUS
    <3> QED  BY <3>1
  <2> HIDE DEF g, Folds
  <2> QED  BY <2>1
<1>2. ASSUME NEW k \in 1..n, Good(k - 1) PROVE Good(k)
  <2> USE DEF FoldsBy
  <2>1. PICK g \in [SUBSET (1..k-1) -> T] : Folds(g, k - 1)
    BY <1>2
  <2> DEFINE h == [u \in SUBSET (1..k) |->
                     IF k \in u THEN F[<<g[u \ {k}], s[k]>>] ELSE g[u]]
  <2>2. \A u \in SUBSET (1..k) : u \ {k} \in SUBSET (1..k-1)
    OBVIOUS
  <2>3. h \in [SUBSET (1..k) -> T]
    <3> SUFFICES ASSUME NEW u \in SUBSET (1..k) PROVE h[u] \in T
      OBVIOUS
    <3>1. g[u \ {k}] \in T /\ s[k] \in D
      BY <2>2
    <3>2. k \notin u => u = u \ {k}
      OBVIOUS
    <3> QED  BY <3>1, <3>2
  <2>4. Folds(h, k)
    <3> SUFFICES ASSUME NEW u \in SUBSET (1..k)
                 PROVE  h[u] = IF u = {} THEN base
                               ELSE F[<<h[u \ {Max(u)}], s[Max(u)]>>]
      OBVIOUS
    <3>1. CASE k \in u
      <4>1. Max(u) \in u /\ k <= Max(u)
        BY <3>1, LastPlace, k \in Nat
      <4>2. Max(u) = k
        <5>1. Max(u) \in 1..k
          BY <4>1
        <5> QED  BY <4>1, <5>1
      <4>3. h[u \ {k}] = g[u \ {k}]
        BY <2>2
      <4> QED  BY <3>1, <4>2, <4>3
    <3>2. CASE k \notin u
      <4>1. u \in SUBSET (1..k-1) /\ h[u] = g[u]
        BY <3>2, <2>2
      <4>2. CASE u = {}
        BY <2>1, <4>1, <4>2
      <4>3. CASE u # {}
        <5>1. Max(u) \in u
          BY <4>1, <4>3, LastPlace, k - 1 \in Nat
        <5>2. u \ {Max(u)} \in SUBSET (1..k-1) /\ k \notin u \ {Max(u)}
          BY <3>2, <4>1
        <5>3. h[u \ {Max(u)}] = g[u \ {Max(u)}]
          BY <5>2
        <5> QED  BY <2>1, <4>1, <4>3, <5>3
      <4> QED  BY <4>2, <4>3
    <3> QED  BY <3>1, <3>2
  <2> HIDE DEF h, Folds
  <2> QED  BY <2>3, <2>4
<1>3. Good(n)
  <2> HIDE DEF Good
  <2>1. 0 \in S /\ \A k \in 1..n : k - 1 \in S => k \in S
    BY <1>1, <1>2
  <2>2. 0..n \subseteq S
    <3> HIDE DEF S
    <3> QED  BY <2>1, UpTo
  <2> QED  BY <2>2
<1> QED  BY <1>3

\* Such a function, place by place.
LEMMA FoldSteps ==
  ASSUME NEW n \in Nat, NEW k \in 1..n
  PROVE  /\ 1..k # {} /\ Max(1..k) = k /\ (1..k) \ {k} = 1..(k - 1)
         /\ 1..k \in SUBSET (1..n) /\ 1..(k-1) \in SUBSET (1..n)
<1>1. 1..k # {} /\ 1..k \in SUBSET (1..n) /\ k \in 1..k
  OBVIOUS
<1>2. Max(1..k) \in 1..k /\ k <= Max(1..k)
  BY <1>1, LastPlace
<1> QED  BY <1>1, <1>2

-----------------------------------------------------------------------------
(* Envelopes.                                                              *)

\* An envelope has finitely many items.
LEMMA EnvelopeIs ==
  ASSUME NEW notes
  PROVE  notes \in Envelope <=>
           /\ notes \in [DOMAIN notes -> Item]
           /\ DOMAIN notes \in SUBSET Items /\ IsFiniteSet(DOMAIN notes)
BY DEF Envelope

\* What two envelopes have together is an envelope,
LEMMA BothIs ==
  ASSUME NEW a \in Envelope, NEW b \in Envelope
  PROVE  /\ Both(a, b) \in Envelope
         /\ DOMAIN Both(a, b) = DOMAIN a \cup DOMAIN b
<1>1. /\ a \in [DOMAIN a -> Item] /\ b \in [DOMAIN b -> Item]
      /\ DOMAIN a \in SUBSET Items /\ DOMAIN b \in SUBSET Items
      /\ IsFiniteSet(DOMAIN a) /\ IsFiniteSet(DOMAIN b)
  BY EnvelopeIs
<1>2. DOMAIN Both(a, b) = DOMAIN a \cup DOMAIN b
  BY DEF Both
<1>3. Both(a, b) \in [DOMAIN a \cup DOMAIN b -> Item]
  BY <1>1 DEF Both
<1>4. IsFiniteSet(DOMAIN a \cup DOMAIN b)
  BY <1>1, FS_Union
<1> QED  BY <1>1, <1>2, <1>3, <1>4, EnvelopeIs

\* the first one as it was,
LEMMA BothKeeps ==
  ASSUME NEW a, NEW b
  PROVE  \A item \in DOMAIN a : Both(a, b)[item] = a[item]
BY DEF Both

\* and nothing else when it has all items already.
LEMMA BothSame ==
  ASSUME NEW a \in Envelope, NEW b, DOMAIN b \subseteq DOMAIN a
  PROVE  Both(a, b) = a
<1>1. a = [item \in DOMAIN a |-> a[item]]
  BY EnvelopeIs
<1> QED  BY <1>1 DEF Both

\* More items exceed the limits where fewer do.
LEMMA MoreExceeds ==
  ASSUME NEW a \in Envelope, NEW b \in Envelope, DOMAIN a \subseteq DOMAIN b,
         Exceeds(a)
  PROVE  Exceeds(b)
<1>1. IsFiniteSet(DOMAIN a) /\ IsFiniteSet(DOMAIN b)
  BY EnvelopeIs
<1>2. Cardinality(DOMAIN a) <= Cardinality(DOMAIN b)
  BY <1>1, FS_Subset
<1>3. Cardinality(DOMAIN a) \in Nat /\ Cardinality(DOMAIN b) \in Nat
  BY <1>1, FS_CardinalityType
<1> QED  BY <1>2, <1>3, AnnotationsAssumption DEF Exceeds

\* A merge adds, and changes no item there was.
LEMMA MergedKeeps ==
  ASSUME NEW a \in Envelope, NEW b \in Envelope
  PROVE  /\ Merged(a, b) \in Envelope
         /\ DOMAIN a \subseteq DOMAIN Merged(a, b)
         /\ \A item \in DOMAIN a : Merged(a, b)[item] = a[item]
<1>1. CASE Exceeds(Both(a, b))
  BY <1>1 DEF Merged
<1>2. CASE ~Exceeds(Both(a, b))
  <2>1. Merged(a, b) = Both(a, b)
    BY <1>2 DEF Merged
  <2>2. Both(a, b) \in Envelope /\ DOMAIN a \subseteq DOMAIN Both(a, b)
    BY BothIs
  <2>3. \A item \in DOMAIN a : Both(a, b)[item] = a[item]
    BY BothKeeps
  <2> QED  BY <2>1, <2>2, <2>3
<1> QED  BY <1>1, <1>2

\* What was merged once, or refused, changes nothing when it comes again,
\* whatever was merged in between.
LEMMA MergedAgain ==
  ASSUME NEW a \in Envelope, NEW b \in Envelope
  PROVE  /\ Merged(a, a) = a
         /\ Merged(Merged(a, b), b) = Merged(a, b)
         /\ \A c \in Envelope :
              Merged(a, b) = a => Merged(Merged(a, c), b) = Merged(a, c)
<1>1. ASSUME NEW e \in Envelope, DOMAIN b \subseteq DOMAIN e
      PROVE  Merged(e, b) = e
  BY <1>1, BothSame DEF Merged
<1>2. Merged(a, a) = a
  BY BothSame DEF Merged
<1>3. Merged(Merged(a, b), b) = Merged(a, b)
  <2>1. CASE Exceeds(Both(a, b))
    BY <2>1 DEF Merged
  <2>2. CASE ~Exceeds(Both(a, b))
    <3>1. Merged(a, b) = Both(a, b)
      BY <2>2 DEF Merged
    <3>2. DOMAIN b \subseteq DOMAIN Both(a, b) /\ Both(a, b) \in Envelope
      BY BothIs
    <3> QED  BY <1>1, <3>1, <3>2
  <2> QED  BY <2>1, <2>2
<1>4. ASSUME NEW c \in Envelope, Merged(a, b) = a
      PROVE  Merged(Merged(a, c), b) = Merged(a, c)
  <2>1. Merged(a, c) \in Envelope /\ DOMAIN a \subseteq DOMAIN Merged(a, c)
    BY MergedKeeps
  <2>2. CASE Exceeds(Both(a, b))
    <3>1. DOMAIN Both(a, b) \subseteq DOMAIN Both(Merged(a, c), b)
      <4>1. DOMAIN Both(a, b) = DOMAIN a \cup DOMAIN b
        BY BothIs
      <4>2. DOMAIN Both(Merged(a, c), b) = DOMAIN Merged(a, c) \cup DOMAIN b
        BY <2>1, BothIs
      <4> QED  BY <2>1, <4>1, <4>2
    <3>2. Both(a, b) \in Envelope /\ Both(Merged(a, c), b) \in Envelope
      BY <2>1, BothIs
    <3>3. Exceeds(Both(Merged(a, c), b))
      BY <2>2, <3>1, <3>2, MoreExceeds
    <3> QED  BY <3>3 DEF Merged
  <2>3. CASE ~Exceeds(Both(a, b))
    <3>1. Both(a, b) = a
      BY <1>4, <2>3 DEF Merged
    <3>2. DOMAIN b \subseteq DOMAIN a
      <4>1. DOMAIN Both(a, b) = DOMAIN a \cup DOMAIN b
        BY BothIs
      <4> QED  BY <3>1, <4>1
    <3> QED  BY <1>1, <2>1, <3>2
  <2> QED  BY <2>2, <2>3
<1> QED  BY <1>2, <1>3, <1>4

-----------------------------------------------------------------------------
(* Folds over records.                                                     *)

Stores == [Ids -> Row \cup {None}]

\* A row after a record of its content was merged.
Join(row, record) ==
  [row EXCEPT !.notes = Merged(row.notes, record.row.notes)]

\* It keeps content and notes, and merges nothing twice.
LEMMA JoinIs ==
  ASSUME NEW row \in Row, NEW record \in Record
  PROVE  /\ Join(row, record) \in Row
         /\ Key(Join(row, record)) = Key(row)
         /\ \A item \in DOMAIN row.notes :
              /\ item \in DOMAIN Join(row, record).notes
              /\ Join(row, record).notes[item] = row.notes[item]
         /\ Join(Join(row, record), record) = Join(row, record)
<1> DEFINE sum == Merged(row.notes, record.row.notes)
<1>1. row.notes \in Envelope /\ record.row.notes \in Envelope
  BY DEF Record, Row
<1>2. /\ sum \in Envelope /\ DOMAIN row.notes \subseteq DOMAIN sum
      /\ \A item \in DOMAIN row.notes : sum[item] = row.notes[item]
  BY <1>1, MergedKeeps
<1>3. Merged(sum, record.row.notes) = sum
  BY <1>1, MergedAgain
<1>4. Join(row, record) = [row EXCEPT !.notes = sum]
  BY DEF Join
<1> HIDE DEF sum
<1>5. [row EXCEPT !.notes = sum] \in Row
  BY <1>2 DEF Row
<1>6. /\ [row EXCEPT !.notes = sum].notes = sum
      /\ [row EXCEPT !.notes = sum].ns = row.ns
      /\ [row EXCEPT !.notes = sum].content = row.content
  BY DEF Row
<1>7. Join(Join(row, record), record) = Join(row, record)
  <2>1. Join(Join(row, record), record)
          = [Join(row, record) EXCEPT !.notes = Merged(sum, record.row.notes)]
    BY <1>4, <1>6 DEF Join
  <2>2. [[row EXCEPT !.notes = sum] EXCEPT !.notes = sum] = [row EXCEPT !.notes = sum]
    BY DEF Row
  <2> QED  BY <1>3, <1>4, <2>1, <2>2
<1> QED  BY <1>2, <1>4, <1>5, <1>6, <1>7 DEF Key

\* The row a record made has absorbed it.
LEMMA JoinSelf ==
  ASSUME NEW record \in Record
  PROVE  Join(record.row, record) = record.row
<1>1. record.row \in Row /\ record.row.notes \in Envelope
  BY DEF Record, Row
<1>2. Merged(record.row.notes, record.row.notes) = record.row.notes
  BY <1>1, MergedAgain
<1>3. [record.row EXCEPT !.notes = record.row.notes] = record.row
  BY <1>1 DEF Row
<1> QED  BY <1>2, <1>3 DEF Join

\* What a row has absorbed it has absorbed after another merge as well.
LEMMA JoinStays ==
  ASSUME NEW row \in Row, NEW record \in Record, NEW other \in Record,
         Join(row, record) = row
  PROVE  Join(Join(row, other), record) = Join(row, other)
<1>1. /\ row.notes \in Envelope /\ record.row.notes \in Envelope
      /\ other.row.notes \in Envelope
  BY DEF Record, Row
<1> DEFINE sum == Merged(row.notes, other.row.notes)
<1>2. Merged(row.notes, record.row.notes) = row.notes
  <2>1. [row EXCEPT !.notes = Merged(row.notes, record.row.notes)] = row
    BY DEF Join
  <2>2. [row EXCEPT !.notes = Merged(row.notes, record.row.notes)].notes
          = Merged(row.notes, record.row.notes)
    BY DEF Row
  <2> QED  BY <2>1, <2>2
<1>3. Merged(sum, record.row.notes) = sum
  BY <1>1, <1>2, MergedAgain
<1>4. Join(row, other) = [row EXCEPT !.notes = sum]
  BY DEF Join
<1> HIDE DEF sum
<1>5. [row EXCEPT !.notes = sum].notes = sum
  BY DEF Row
<1>6. [[row EXCEPT !.notes = sum] EXCEPT !.notes = sum] = [row EXCEPT !.notes = sum]
  BY DEF Row
<1> QED  BY <1>3, <1>4, <1>5, <1>6 DEF Join

\* What one row of a store is after a record is merged.
LEMMA MergeIntoIs ==
  ASSUME NEW rows \in Stores, NEW record \in Record
  PROVE  /\ MergeInto(rows, record) \in Stores
         /\ \A id \in Ids :
              /\ rows[id] = None => MergeInto(rows, record)[id] = None
              /\ rows[id] # None /\ Key(rows[id]) # Key(record.row)
                   => MergeInto(rows, record)[id] = rows[id]
              /\ rows[id] # None /\ Key(rows[id]) = Key(record.row)
                   => MergeInto(rows, record)[id] = Join(rows[id], record)
<1>2. ASSUME NEW id \in Ids, rows[id] # None
      PROVE  Join(rows[id], record) \in Row
  <2>1. rows[id] \in Row
    BY <1>2 DEF Stores
  <2> QED  BY <2>1, JoinIs
<1>3. \A id \in Ids : id \in Holder(rows, record.row)
                        <=> rows[id] # None /\ Key(rows[id]) = Key(record.row)
  BY DEF Holder, Present
<1>4. MergeInto(rows, record) =
        [id \in Ids |->
           IF id \in Holder(rows, record.row) THEN Join(rows[id], record)
           ELSE rows[id]]
  BY DEF MergeInto, Join
<1> HIDE DEF MergeInto
<1>5. MergeInto(rows, record) \in Stores
  <2>1. \A id \in Ids : MergeInto(rows, record)[id] \in Row \cup {None}
    BY <1>2, <1>3, <1>4 DEF Stores
  <2> QED  BY <2>1, <1>4 DEF Stores
<1> QED  BY <1>3, <1>4, <1>5

\* merge_duplicate_annotations goes through the records one by one.
MergesBy(rows, merging, t) ==
  /\ t \in [0..Len(merging) -> Stores]
  /\ t[0] = rows
  /\ \A k \in 1..Len(merging) : t[k] = MergeInto(t[k-1], merging[k])

\* MergeAll is the last of its steps.
LEMMA MergeAllSteps ==
  ASSUME NEW rows \in Stores, NEW merging \in Seq(Record)
  PROVE  \E t : MergesBy(rows, merging, t)
                /\ MergeAll(rows, merging) = t[Len(merging)]
<1> DEFINE n == Len(merging)
           F == [p \in Stores \X Record |-> MergeInto(p[1], p[2])]
           Is(g) == g = [u \in SUBSET (1..n) |->
                          IF u = {} THEN rows
                          ELSE MergeInto(g[u \ {Max(u)}], merging[Max(u)])]
<1>1. n \in Nat /\ DOMAIN merging = 1..n /\ merging \in [1..n -> Record]
  BY LenProperties
<1>2. F \in [Stores \X Record -> Stores]
  BY MergeIntoIs
<1>3. PICK g \in [SUBSET (1..n) -> Stores] : FoldsBy(F, rows, n, merging, g)
  <2> HIDE DEF F, n
  <2>1. n \in Nat /\ merging \in [1..n -> Record]
    BY <1>1
  <2> QED  BY <1>2, <2>1, FoldExists
<1>4. \E h : Is(h)
  <2>1. ASSUME NEW u \in SUBSET (1..n)
        PROVE  g[u] = IF u = {} THEN rows
                      ELSE MergeInto(g[u \ {Max(u)}], merging[Max(u)])
    <3>1. u # {} => Max(u) \in 1..n
      BY <1>1, LastPlace
    <3>2. u # {} => g[u \ {Max(u)}] \in Stores /\ merging[Max(u)] \in Record
      BY <1>1, <3>1
    <3> QED  BY <1>3, <3>2 DEF FoldsBy
  <2>2. Is(g)
    BY <2>1
  <2> QED  BY <2>2
<1>5. MergeAll(rows, merging) = (CHOOSE h : Is(h))[1..n]
  BY <1>1 DEF MergeAll, FoldLeft, MapThenFoldSet
<1>6. PICK h : Is(h) /\ MergeAll(rows, merging) = h[1..n]
  <2> HIDE DEF Is
  <2> QED  BY <1>4, <1>5
<1> DEFINE t == [k \in 0..n |-> h[1..k]]
<1>7. t[0] = rows
  <2>1. 1..0 = {} /\ 1..0 \in SUBSET (1..n) /\ 0 \in 0..n
    BY <1>1
  <2> QED  BY <1>6, <2>1
<1>8. \A k \in 1..n : t[k] = MergeInto(t[k-1], merging[k])
  <2> SUFFICES ASSUME NEW k \in 1..n PROVE t[k] = MergeInto(t[k-1], merging[k])
    OBVIOUS
  <2>1. /\ 1..k # {} /\ Max(1..k) = k /\ (1..k) \ {k} = 1..(k - 1)
        /\ 1..k \in SUBSET (1..n)
    BY <1>1, FoldSteps
  <2>2. h[1..k] = MergeInto(h[1..(k-1)], merging[k])
    BY <1>6, <2>1
  <2> QED  BY <1>1, <2>2
<1>9. t \in [0..n -> Stores]
  <2> DEFINE S == {k \in 0..n : t[k] \in Stores}
  <2>1. 0 \in S
    BY <1>1, <1>7
  <2>2. ASSUME NEW k \in 1..n, k - 1 \in S PROVE k \in S
    <3>1. t[k-1] \in Stores /\ merging[k] \in Record
      BY <1>1, <2>2
    <3>2. t[k] \in Stores
      <4>1. MergeInto(t[k-1], merging[k]) \in Stores
        BY <3>1, MergeIntoIs
      <4>2. t[k] = MergeInto(t[k-1], merging[k])
        BY <1>8
      <4> QED  BY <4>1, <4>2
    <3> QED  BY <1>1, <3>2
  <2>3. 0..n \subseteq S
    <3> HIDE DEF S
    <3> QED  BY <1>1, <2>1, <2>2, UpTo
  <2> QED  BY <2>3
<1>10. MergeAll(rows, merging) = t[n]
  BY <1>1, <1>6
<1> HIDE DEF t
<1> QED  BY <1>7, <1>8, <1>9, <1>10 DEF MergesBy

\* What one record does, as InOrder takes it: its content is there, its id
\* is taken, or it is inserted.
LEMMA OneIs ==
  ASSUME NEW mode, NEW rows \in Stores, NEW record \in Record
  PROVE  /\ One(mode, rows, record) \in Stores
         /\ Holder(rows, record.row) # {} =>
              One(mode, rows, record) = IF mode = "database" THEN rows
                                        ELSE MergeInto(rows, record)
         /\ Holder(rows, record.row) = {} /\ rows[record.id] # None =>
              One(mode, rows, record) = rows
         /\ Holder(rows, record.row) = {} /\ rows[record.id] = None =>
              One(mode, rows, record) = [rows EXCEPT ![record.id] = record.row]
<1>1. record.id \in Ids /\ record.row \in Row
  BY DEF Record
<1>2. [rows EXCEPT ![record.id] = record.row] \in Stores
  BY <1>1 DEF Stores
<1>3. MergeInto(rows, record) \in Stores
  BY MergeIntoIs
<1> QED  BY <1>2, <1>3 DEF One

\* InOrder goes through the records one by one.
TakesBy(mode, rows, records, t) ==
  /\ t \in [0..Len(records) -> Stores]
  /\ t[0] = rows
  /\ \A k \in 1..Len(records) : t[k] = One(mode, t[k-1], records[k])

\* InOrder is the last of its steps.
LEMMA InOrderSteps ==
  ASSUME NEW mode, NEW rows \in Stores, NEW records \in Seq(Record)
  PROVE  \E t : TakesBy(mode, rows, records, t)
                /\ InOrder(mode, rows, records) = t[Len(records)]
<1> DEFINE n == Len(records)
           F == [p \in Stores \X Record |-> One(mode, p[1], p[2])]
           Is(g) == g = [u \in SUBSET (1..n) |->
                          IF u = {} THEN rows
                          ELSE One(mode, g[u \ {Max(u)}], records[Max(u)])]
<1>1. n \in Nat /\ DOMAIN records = 1..n /\ records \in [1..n -> Record]
  BY LenProperties
<1>2. F \in [Stores \X Record -> Stores]
  BY OneIs
<1>3. PICK g \in [SUBSET (1..n) -> Stores] : FoldsBy(F, rows, n, records, g)
  <2> HIDE DEF F, n
  <2>1. n \in Nat /\ records \in [1..n -> Record]
    BY <1>1
  <2> QED  BY <1>2, <2>1, FoldExists
<1>4. \E h : Is(h)
  <2>1. ASSUME NEW u \in SUBSET (1..n)
        PROVE  g[u] = IF u = {} THEN rows
                      ELSE One(mode, g[u \ {Max(u)}], records[Max(u)])
    <3>1. u # {} => Max(u) \in 1..n
      BY <1>1, LastPlace
    <3>2. u # {} => g[u \ {Max(u)}] \in Stores /\ records[Max(u)] \in Record
      BY <1>1, <3>1
    <3> QED  BY <1>3, <3>2 DEF FoldsBy
  <2>2. Is(g)
    BY <2>1
  <2> QED  BY <2>2
<1>5. InOrder(mode, rows, records) = (CHOOSE h : Is(h))[1..n]
  BY <1>1 DEF InOrder, FoldLeft, MapThenFoldSet
<1>6. PICK h : Is(h) /\ InOrder(mode, rows, records) = h[1..n]
  <2> HIDE DEF Is
  <2> QED  BY <1>4, <1>5
<1> DEFINE t == [k \in 0..n |-> h[1..k]]
<1>7. t[0] = rows
  <2>1. 1..0 = {} /\ 1..0 \in SUBSET (1..n) /\ 0 \in 0..n
    BY <1>1
  <2> QED  BY <1>6, <2>1
<1>8. \A k \in 1..n : t[k] = One(mode, t[k-1], records[k])
  <2> SUFFICES ASSUME NEW k \in 1..n PROVE t[k] = One(mode, t[k-1], records[k])
    OBVIOUS
  <2>1. /\ 1..k # {} /\ Max(1..k) = k /\ (1..k) \ {k} = 1..(k - 1)
        /\ 1..k \in SUBSET (1..n)
    BY <1>1, FoldSteps
  <2>2. h[1..k] = One(mode, h[1..(k-1)], records[k])
    BY <1>6, <2>1
  <2> QED  BY <1>1, <2>2
<1>9. t \in [0..n -> Stores]
  <2> DEFINE S == {k \in 0..n : t[k] \in Stores}
  <2>1. 0 \in S
    BY <1>1, <1>7
  <2>2. ASSUME NEW k \in 1..n, k - 1 \in S PROVE k \in S
    <3>1. t[k-1] \in Stores /\ records[k] \in Record
      BY <1>1, <2>2
    <3>2. t[k] \in Stores
      <4>1. One(mode, t[k-1], records[k]) \in Stores
        BY <3>1, OneIs
      <4>2. t[k] = One(mode, t[k-1], records[k])
        BY <1>8
      <4> QED  BY <4>1, <4>2
    <3> QED  BY <1>1, <3>2
  <2>3. 0..n \subseteq S
    <3> HIDE DEF S
    <3> QED  BY <1>1, <2>1, <2>2, UpTo
  <2> QED  BY <2>3
<1>10. InOrder(mode, rows, records) = t[n]
  BY <1>1, <1>6
<1> HIDE DEF t
<1> QED  BY <1>7, <1>8, <1>9, <1>10 DEF TakesBy

\* The numbers up to n that are in a set, in their order.
Lists(h, n, places) ==
  /\ h \in Seq(1..n)
  /\ \A i \in 1..n : i \in places <=> \E j \in 1..Len(h) : h[j] = i
  /\ \A i, j \in 1..Len(h) : i < j => h[i] < h[j]

\* Picked takes the records at some places in their order.
PicksBy(D, records, places, t) ==
  /\ t \in [0..Len(records) -> Seq(D)]
  /\ t[0] = <<>>
  /\ \A k \in 1..Len(records) :
       t[k] = IF k \in places THEN Append(t[k-1], records[k]) ELSE t[k-1]

\* Picked is the last of its steps.
LEMMA PickedSteps ==
  ASSUME NEW D, NEW records \in Seq(D), NEW places
  PROVE  \E t : PicksBy(D, records, places, t)
                /\ Picked(records, places) = t[Len(records)]
<1> DEFINE n == Len(records)
           steps == [i \in DOMAIN records |-> i]
           F == [p \in Seq(D) \X (1..n) |->
                   IF p[2] \in places THEN Append(p[1], records[p[2]]) ELSE p[1]]
           Is(g) == g = [u \in SUBSET DOMAIN steps |->
                          IF u = {} THEN <<>>
                          ELSE IF steps[Max(u)] \in places
                               THEN Append(g[u \ {Max(u)}], records[steps[Max(u)]])
                               ELSE g[u \ {Max(u)}]]
<1>1. /\ n \in Nat /\ DOMAIN records = 1..n /\ records \in [1..n -> D]
      /\ DOMAIN steps = 1..n /\ steps \in [1..n -> 1..n]
      /\ \A i \in 1..n : steps[i] = i
  BY LenProperties
<1>2. F \in [Seq(D) \X (1..n) -> Seq(D)]
  <2>1. ASSUME NEW s \in Seq(D), NEW i \in 1..n
        PROVE  Append(s, records[i]) \in Seq(D)
    BY <1>1, AppendProperties
  <2> QED  BY <2>1
<1>3. PICK g \in [SUBSET (1..n) -> Seq(D)] : FoldsBy(F, <<>>, n, steps, g)
  <2>1. n \in Nat /\ steps \in [1..n -> 1..n] /\ <<>> \in Seq(D)
    BY <1>1
  <2> HIDE DEF F, n, steps
  <2> QED  BY <1>2, <2>1, FoldExists
<1>4. \E h : Is(h)
  <2>1. ASSUME NEW u \in SUBSET (1..n)
        PROVE  g[u] = IF u = {} THEN <<>>
                      ELSE IF steps[Max(u)] \in places
                           THEN Append(g[u \ {Max(u)}], records[steps[Max(u)]])
                           ELSE g[u \ {Max(u)}]
    <3>1. u # {} => Max(u) \in 1..n
      BY <1>1, LastPlace
    <3>2. u # {} => g[u \ {Max(u)}] \in Seq(D) /\ steps[Max(u)] \in 1..n
      BY <1>1, <3>1
    <3> HIDE DEF steps
    <3> QED  BY <1>3, <3>2 DEF FoldsBy
  <2>2. Is(g)
    <3> HIDE DEF steps
    <3> QED  BY <2>1, <1>1
  <2> QED  BY <2>2
<1>5. Picked(records, places) = (CHOOSE h : Is(h))[DOMAIN steps]
  BY DEF Picked, FoldLeftDomain, FoldLeft, MapThenFoldSet
<1>6. PICK h : Is(h) /\ Picked(records, places) = h[1..n]
  <2> HIDE DEF Is
  <2> QED  BY <1>1, <1>4, <1>5
<1> DEFINE t == [k \in 0..n |-> h[1..k]]
<1>7. t[0] = <<>>
  <2>1. 1..0 = {} /\ 1..0 \in SUBSET (1..n) /\ 0 \in 0..n
    BY <1>1
  <2> HIDE DEF steps
  <2> QED  BY <1>1, <1>6, <2>1
<1>8. \A k \in 1..n : t[k] = IF k \in places THEN Append(t[k-1], records[k])
                             ELSE t[k-1]
  <2> SUFFICES ASSUME NEW k \in 1..n
               PROVE  t[k] = IF k \in places THEN Append(t[k-1], records[k])
                             ELSE t[k-1]
    OBVIOUS
  <2>1. /\ 1..k # {} /\ Max(1..k) = k /\ (1..k) \ {k} = 1..(k - 1)
        /\ 1..k \in SUBSET (1..n)
    BY <1>1, FoldSteps
  <2> HIDE DEF steps
  <2>2. h[1..k] = IF k \in places THEN Append(h[1..(k-1)], records[k])
                  ELSE h[1..(k-1)]
    <3>1. steps[k] = k /\ 1..k \in SUBSET DOMAIN steps
      BY <1>1, <2>1
    <3>2. h[1..k] = IF steps[Max(1..k)] \in places
                    THEN Append(h[(1..k) \ {Max(1..k)}], records[steps[Max(1..k)]])
                    ELSE h[(1..k) \ {Max(1..k)}]
      BY <1>6, <2>1, <3>1
    <3> QED  BY <2>1, <3>1, <3>2
  <2> QED  BY <1>1, <2>2
<1>9. t \in [0..n -> Seq(D)]
  <2> DEFINE S == {k \in 0..n : t[k] \in Seq(D)}
  <2>1. 0 \in S
    <3>1. <<>> \in Seq(D) /\ 0 \in 0..n
      BY <1>1
    <3> HIDE DEF t
    <3> QED  BY <1>7, <3>1
  <2>2. ASSUME NEW k \in 1..n, k - 1 \in S PROVE k \in S
    <3>1. t[k-1] \in Seq(D) /\ records[k] \in D
      BY <1>1, <2>2
    <3>2. Append(t[k-1], records[k]) \in Seq(D)
      BY <3>1, AppendProperties
    <3> HIDE DEF t
    <3>3. t[k] = IF k \in places THEN Append(t[k-1], records[k]) ELSE t[k-1]
      BY <1>8
    <3>4. t[k] \in Seq(D)
      BY <3>1, <3>2, <3>3
    <3> QED  BY <1>1, <3>4
  <2>3. 0..n \subseteq S
    <3> HIDE DEF S
    <3> QED  BY <1>1, <2>1, <2>2, UpTo
  <2> QED  BY <2>3
<1>10. Picked(records, places) = t[n]
  BY <1>1, <1>6
<1> HIDE DEF t
<1> QED  BY <1>7, <1>8, <1>9, <1>10 DEF PicksBy

\* Picked lists the records at the places, from the first one to the last.
LEMMA PickedIs ==
  ASSUME NEW D, NEW records \in Seq(D), NEW places
  PROVE  \E h : /\ Lists(h, Len(records), places)
                /\ Picked(records, places) \in Seq(D)
                /\ Len(Picked(records, places)) = Len(h)
                /\ \A j \in 1..Len(h) : Picked(records, places)[j] = records[h[j]]
<1> DEFINE n == Len(records)
           Is(s, k) == \E h : /\ Lists(h, k, places) /\ Len(s) = Len(h)
                              /\ \A j \in 1..Len(h) : s[j] = records[h[j]]
<1>1. n \in Nat /\ records \in [1..n -> D]
  BY LenProperties
<1>a. PICK t : /\ PicksBy(D, records, places, t)
               /\ Picked(records, places) = t[n]
  BY PickedSteps
<1>2. /\ t \in [0..n -> Seq(D)] /\ t[0] = <<>>
      /\ \A k \in 1..n :
           t[k] = IF k \in places THEN Append(t[k-1], records[k]) ELSE t[k-1]
      /\ Picked(records, places) = t[n]
  BY <1>a DEF PicksBy
<1> DEFINE S == {k \in 0..n : Is(t[k], k)}
<1>3. 0 \in S
  <2>1. Lists(<<>>, 0, places) /\ Len(<<>>) = 0
    BY DEF Lists
  <2>2. t[0] = <<>>
    BY <1>2
  <2> QED  BY <1>1, <2>1, <2>2
<1>4. ASSUME NEW k \in 1..n, k - 1 \in S PROVE k \in S
  <2>1. PICK h : /\ Lists(h, k-1, places) /\ Len(t[k-1]) = Len(h)
                 /\ \A j \in 1..Len(h) : t[k-1][j] = records[h[j]]
    BY <1>4
  <2>2. h \in Seq(1..(k-1)) /\ Len(h) \in Nat /\ h \in [1..Len(h) -> 1..(k-1)]
    BY <2>1, LenProperties DEF Lists
  <2>3. k \in Nat /\ k \in 0..n /\ t[k-1] \in Seq(D) /\ records[k] \in D
    <3>1. k - 1 \in 0..n
      BY <1>1
    <3> QED  BY <1>1, <1>2, <3>1
  <2>4. CASE k \in places
    <3> DEFINE e == Append(h, k)
    <3>1. h \in Seq(1..k)
      BY <2>2, <2>3, SeqMonotonic, 1..(k-1) \subseteq 1..k
    <3>2. /\ e \in Seq(1..k) /\ Len(e) = Len(h) + 1 /\ e[Len(h) + 1] = k
          /\ \A j \in 1..Len(h) : e[j] = h[j]
      BY <3>1, <2>3, AppendProperties
    <3>3. t[k] = Append(t[k-1], records[k])
      BY <1>2, <2>4
    <3>4. /\ Len(t[k]) = Len(h) + 1 /\ t[k][Len(h) + 1] = records[k]
          /\ \A j \in 1..Len(h) : t[k][j] = t[k-1][j]
      BY <2>1, <2>3, <3>3, AppendProperties
    <3> HIDE DEF e
    <3>5. \A j \in 1..Len(e) : t[k][j] = records[e[j]]
      <4> SUFFICES ASSUME NEW j \in 1..Len(e) PROVE t[k][j] = records[e[j]]
        OBVIOUS
      <4>1. CASE j = Len(h) + 1
        BY <3>2, <3>4, <4>1
      <4>2. CASE j # Len(h) + 1
        <5>1. j \in 1..Len(h)
          BY <2>2, <3>2, <4>2
        <5>2. t[k][j] = t[k-1][j] /\ e[j] = h[j] /\ t[k-1][j] = records[h[j]]
          BY <2>1, <3>2, <3>4, <5>1
        <5> QED  BY <5>2
      <4> QED  BY <4>1, <4>2
    <3>6. Lists(e, k, places)
      <4>1. ASSUME NEW i \in 1..k
            PROVE  i \in places <=> \E j \in 1..Len(e) : e[j] = i
        <5>1. CASE i = k
          <6>1. Len(h) + 1 \in 1..Len(e)
            BY <2>2, <3>2
          <6> QED  BY <2>4, <3>2, <5>1, <6>1
        <5>2. CASE i # k
          <6>1. i \in 1..(k-1)
            BY <5>2, <2>3
          <6>2. i \in places <=> \E j \in 1..Len(h) : h[j] = i
            BY <6>1, <2>1 DEF Lists
          <6>3. \A j \in 1..Len(e) : e[j] = i => j \in 1..Len(h)
            BY <2>2, <3>2, <5>2
          <6> QED  BY <2>2, <3>2, <6>2, <6>3
        <5> QED  BY <5>1, <5>2
      <4>2. ASSUME NEW i \in 1..Len(e), NEW j \in 1..Len(e), i < j
            PROVE  e[i] < e[j]
        <5>1. i \in 1..Len(h) /\ e[i] = h[i] /\ h[i] \in 1..(k-1)
          <6>1. Len(e) = Len(h) + 1 /\ Len(h) \in Nat
            BY <2>2, <3>2
          <6>2. i \in 1..Len(h)
            BY <4>2, <6>1
          <6>3. e[i] = h[i]
            BY <3>2, <6>2
          <6>4. h[i] \in 1..(k-1)
            BY <2>2, <6>2
          <6> QED  BY <6>2, <6>3, <6>4
        <5>2. CASE j = Len(h) + 1
          BY <2>3, <3>2, <5>1, <5>2
        <5>3. CASE j # Len(h) + 1
          <6>1. j \in 1..Len(h) /\ e[j] = h[j]
            BY <2>2, <3>2, <5>3
          <6> QED  BY <2>1, <4>2, <5>1, <6>1 DEF Lists
        <5> QED  BY <5>2, <5>3
      <4> QED  BY <3>2, <4>1, <4>2 DEF Lists
    <3> QED  BY <2>3, <3>2, <3>4, <3>5, <3>6
  <2>5. CASE k \notin places
    <3>1. t[k] = t[k-1]
      BY <1>2, <2>5
    <3>2. h \in Seq(1..k)
      BY <2>2, <2>3, SeqMonotonic, 1..(k-1) \subseteq 1..k
    <3>3. \A i \in 1..k : i \in places <=> \E j \in 1..Len(h) : h[j] = i
      <4> SUFFICES ASSUME NEW i \in 1..k
                   PROVE  i \in places <=> \E j \in 1..Len(h) : h[j] = i
        OBVIOUS
      <4>1. CASE i = k
        BY <2>2, <2>3, <2>5, <4>1
      <4>2. CASE i # k
        <5>1. i \in 1..(k-1)
          BY <2>3, <4>2
        <5> QED  BY <2>1, <5>1 DEF Lists
      <4> QED  BY <4>1, <4>2
    <3>4. Lists(h, k, places)
      BY <2>1, <3>2, <3>3 DEF Lists
    <3> QED  BY <2>1, <2>3, <3>1, <3>4
  <2> QED  BY <2>4, <2>5
<1>5. 0..n \subseteq S
  <2> HIDE DEF S
  <2> QED  BY <1>1, <1>3, <1>4, UpTo
<1>6. Is(t[n], n)
  <2>1. n \in S
    BY <1>1, <1>5
  <2> HIDE DEF Is
  <2> QED  BY <2>1
<1>7. t[n] \in Seq(D)
  BY <1>1, <1>2
<1> QED  BY <1>2, <1>6, <1>7

-----------------------------------------------------------------------------
(* What importing keeps.                                                   *)

\* Every row of a store is in another one, with its content and its notes.
Retains(rows, later) ==
  \A id \in Ids : rows[id] # None =>
    /\ later[id] # None /\ Key(later[id]) = Key(rows[id])
    /\ \A item \in DOMAIN rows[id].notes :
         /\ item \in DOMAIN later[id].notes
         /\ later[id].notes[item] = rows[id].notes[item]

\* What is kept twice is kept.
LEMMA RetainsTransitive ==
  ASSUME NEW a, NEW b, NEW c, Retains(a, b), Retains(b, c)
  PROVE  Retains(a, c)
<1> SUFFICES ASSUME NEW id \in Ids, a[id] # None
             PROVE  /\ c[id] # None /\ Key(c[id]) = Key(a[id])
                    /\ \A item \in DOMAIN a[id].notes :
                         /\ item \in DOMAIN c[id].notes
                         /\ c[id].notes[item] = a[id].notes[item]
  BY DEF Retains
<1>1. /\ b[id] # None /\ Key(b[id]) = Key(a[id])
      /\ \A item \in DOMAIN a[id].notes :
           item \in DOMAIN b[id].notes /\ b[id].notes[item] = a[id].notes[item]
  BY DEF Retains
<1>2. /\ c[id] # None /\ Key(c[id]) = Key(b[id])
      /\ \A item \in DOMAIN b[id].notes :
           item \in DOMAIN c[id].notes /\ c[id].notes[item] = b[id].notes[item]
  BY <1>1 DEF Retains
<1> QED  BY <1>1, <1>2

\* A merge writes notes only, and takes none away.
LEMMA MergeRetains ==
  ASSUME NEW rows \in Stores, NEW record \in Record
  PROVE  Retains(rows, MergeInto(rows, record))
<1> SUFFICES ASSUME NEW id \in Ids, rows[id] # None
             PROVE  LET row == MergeInto(rows, record)[id] IN
                    /\ row # None /\ Key(row) = Key(rows[id])
                    /\ \A item \in DOMAIN rows[id].notes :
                         /\ item \in DOMAIN row.notes
                         /\ row.notes[item] = rows[id].notes[item]
  BY DEF Retains
<1>1. rows[id] \in Row
  BY DEF Stores
<1>2. CASE Key(rows[id]) # Key(record.row)
  <2>1. MergeInto(rows, record)[id] = rows[id]
    BY <1>2, MergeIntoIs
  <2> QED  BY <2>1
<1>3. CASE Key(rows[id]) = Key(record.row)
  <2>1. MergeInto(rows, record)[id] = Join(rows[id], record)
    BY <1>3, MergeIntoIs
  <2>2. /\ Join(rows[id], record) \in Row
        /\ Key(Join(rows[id], record)) = Key(rows[id])
        /\ \A item \in DOMAIN rows[id].notes :
             /\ item \in DOMAIN Join(rows[id], record).notes
             /\ Join(rows[id], record).notes[item] = rows[id].notes[item]
    BY <1>1, JoinIs
  <2>3. Join(rows[id], record) # None
    BY <2>2, AnnotationsAssumption
  <2> QED  BY <2>1, <2>2, <2>3
<1> QED  BY <1>2, <1>3

\* An insert under a free id takes nothing away.
LEMMA InsertRetains ==
  ASSUME NEW rows \in Stores, NEW record \in Record, rows[record.id] = None
  PROVE  Retains(rows, [rows EXCEPT ![record.id] = record.row])
BY DEF Retains, Stores, Record

\* One record takes nothing away.
LEMMA OneRetains ==
  ASSUME NEW mode, NEW rows \in Stores, NEW record \in Record
  PROVE  Retains(rows, One(mode, rows, record))
<1>1. Retains(rows, rows)
  BY DEF Retains
<1>2. Retains(rows, MergeInto(rows, record))
  BY MergeRetains
<1>3. rows[record.id] = None
        => Retains(rows, [rows EXCEPT ![record.id] = record.row])
  BY InsertRetains
<1> QED  BY <1>1, <1>2, <1>3 DEF One

\* Merges take nothing away, and add no row.
LEMMA MergesRetain ==
  ASSUME NEW rows \in Stores, NEW merging \in Seq(Record), NEW t,
         MergesBy(rows, merging, t)
  PROVE  \A k \in 0..Len(merging) :
           /\ t[k] \in Stores /\ Retains(rows, t[k])
           /\ \A id \in Ids : rows[id] = None => t[k][id] = None
<1> DEFINE n == Len(merging)
           Good(k) == /\ Retains(rows, t[k])
                      /\ \A id \in Ids : rows[id] = None => t[k][id] = None
           S == {k \in 0..n : Good(k)}
<1>1. /\ n \in Nat /\ t \in [0..n -> Stores] /\ t[0] = rows
      /\ \A k \in 1..n : t[k] = MergeInto(t[k-1], merging[k]) /\ merging[k] \in Record
  BY LenProperties DEF MergesBy
<1>2. 0 \in S
  BY <1>1 DEF Retains
<1>3. ASSUME NEW k \in 1..n, k - 1 \in S PROVE k \in S
  <2>1. k \in 0..n /\ k - 1 \in 0..n /\ t[k-1] \in Stores /\ merging[k] \in Record
    BY <1>1
  <2>2. Good(k-1)
    BY <1>3
  <2>3. Retains(t[k-1], t[k])
    BY <1>1, <2>1, MergeRetains
  <2>4. Retains(rows, t[k])
    BY <2>2, <2>3, RetainsTransitive
  <2>5. \A id \in Ids : t[k-1][id] = None => t[k][id] = None
    <3>1. t[k] = MergeInto(t[k-1], merging[k])
      BY <1>1
    <3>2. \A id \in Ids : t[k-1][id] = None
                            => MergeInto(t[k-1], merging[k])[id] = None
      BY <2>1, MergeIntoIs
    <3> QED  BY <3>1, <3>2
  <2>6. Good(k)
    BY <2>2, <2>4, <2>5
  <2> QED  BY <2>1, <2>6
<1>4. 0..n \subseteq S
  <2> HIDE DEF S
  <2> QED  BY <1>1, <1>2, <1>3, UpTo
<1> QED  BY <1>1, <1>4

\* A later step keeps what an earlier one has.
LEMMA TakesRetain ==
  ASSUME NEW mode, NEW rows \in Stores, NEW records \in Seq(Record), NEW t,
         TakesBy(mode, rows, records, t),
         NEW i \in 0..Len(records), NEW k \in 0..Len(records), i <= k
  PROVE  /\ t[i] \in Stores /\ t[k] \in Stores /\ Retains(t[i], t[k])
<1> DEFINE n == Len(records)
           S == {j \in 0..n : i + j <= n => Retains(t[i], t[i+j])}
<1>1. /\ n \in Nat /\ t \in [0..n -> Stores]
      /\ \A j \in 1..n : t[j] = One(mode, t[j-1], records[j]) /\ records[j] \in Record
  BY LenProperties DEF TakesBy
<1>2. 0 \in S
  BY <1>1 DEF Retains
<1>3. ASSUME NEW j \in 1..n, j - 1 \in S PROVE j \in S
  <2> SUFFICES ASSUME i + j <= n PROVE Retains(t[i], t[i+j])
    BY <1>1
  <2>1. i + (j - 1) <= n /\ (i + j) - 1 = i + (j - 1) /\ i + j \in 1..n
        /\ i + (j - 1) \in 0..n
    BY <1>1
  <2>2. Retains(t[i], t[i + (j-1)])
    BY <1>3, <2>1
  <2>3. t[i+j] = One(mode, t[i + (j-1)], records[i+j]) /\ records[i+j] \in Record
    BY <1>1, <2>1
  <2>4. t[i + (j-1)] \in Stores
    BY <1>1, <2>1
  <2>5. Retains(t[i + (j-1)], t[i+j])
    BY <2>3, <2>4, OneRetains
  <2> QED  BY <2>2, <2>5, RetainsTransitive
<1>4. 0..n \subseteq S
  <2> HIDE DEF S
  <2> QED  BY <1>1, <1>2, <1>3, UpTo
<1>5. k - i \in 0..n /\ i + (k - i) = k
  BY <1>1
<1>6. k - i \in S
  BY <1>4, <1>5
<1>7. Retains(t[i], t[i + (k - i)])
  BY <1>1, <1>5, <1>6
<1> QED  BY <1>1, <1>5, <1>7

-----------------------------------------------------------------------------
(* Records taken one by one.                                               *)

\* The ids of a file are its own, and no record hides a later one of its
\* content behind an id that the store has for another content.
Distinct(records) ==
  \A i, j \in 1..Len(records) : records[i].id = records[j].id => i = j

Unshadowed(rows, records) ==
  \A k, l \in 1..Len(records) :
    k < l /\ Key(records[k].row) = Key(records[l].row) => rows[records[k].id] = None

\* One step, row by row: a row stays, merges a record of its content, or
\* appears as the record of that step.
Takes(mode, before, record, after) ==
  \A id \in Ids :
    /\ before[id] # None /\ (mode = "database" \/ Key(before[id]) # Key(record.row))
         => after[id] = before[id]
    /\ before[id] # None /\ mode # "database" /\ Key(before[id]) = Key(record.row)
         => after[id] = Join(before[id], record)
    /\ before[id] = None /\ id = record.id /\ Holder(before, record.row) = {}
         => after[id] = record.row
    /\ before[id] = None /\ (id # record.id \/ Holder(before, record.row) # {})
         => after[id] = None

\* One does to every row what Takes says.
LEMMA OneAt ==
  ASSUME NEW mode, NEW rows \in Stores, NEW record \in Record
  PROVE  Takes(mode, rows, record, One(mode, rows, record))
<1> SUFFICES ASSUME NEW id \in Ids
    PROVE
         /\ rows[id] # None /\ (mode = "database" \/ Key(rows[id]) # Key(record.row))
              => One(mode, rows, record)[id] = rows[id]
         /\ rows[id] # None /\ mode # "database" /\ Key(rows[id]) = Key(record.row)
              => One(mode, rows, record)[id] = Join(rows[id], record)
         /\ rows[id] = None /\ id = record.id /\ Holder(rows, record.row) = {}
              => One(mode, rows, record)[id] = record.row
         /\ rows[id] = None /\ (id # record.id \/ Holder(rows, record.row) # {})
              => One(mode, rows, record)[id] = None
  BY DEF Takes
<1>1. rows[id] # None /\ Key(rows[id]) = Key(record.row)
        => Holder(rows, record.row) # {}
  BY DEF Holder, Present
<1>2. CASE Holder(rows, record.row) # {}
  <2>1. One(mode, rows, record) = IF mode = "database" THEN rows
                                  ELSE MergeInto(rows, record)
    BY <1>2, OneIs
  <2>2. CASE mode = "database"
    BY <1>2, <2>1, <2>2
  <2>3. CASE mode # "database"
    <3>1. One(mode, rows, record) = MergeInto(rows, record)
      BY <2>1, <2>3
    <3>2. /\ rows[id] = None => MergeInto(rows, record)[id] = None
          /\ rows[id] # None /\ Key(rows[id]) # Key(record.row)
               => MergeInto(rows, record)[id] = rows[id]
          /\ rows[id] # None /\ Key(rows[id]) = Key(record.row)
               => MergeInto(rows, record)[id] = Join(rows[id], record)
      BY MergeIntoIs
    <3> HIDE DEF MergeInto, Key, Merged, Holder
    <3> QED  BY <1>2, <2>3, <3>1, <3>2
  <2> QED  BY <2>2, <2>3
<1>3. CASE Holder(rows, record.row) = {} /\ rows[record.id] # None
  <2>1. One(mode, rows, record) = rows
    BY <1>3 DEF One
  <2> QED  BY <1>1, <1>3, <2>1
<1>4. CASE Holder(rows, record.row) = {} /\ rows[record.id] = None
  <2>1. One(mode, rows, record) = [rows EXCEPT ![record.id] = record.row]
    BY <1>4, OneIs
  <2>2. One(mode, rows, record)[id] = IF id = record.id THEN record.row
                                      ELSE rows[id]
    BY <2>1 DEF Stores
  <2> QED  BY <1>1, <1>4, <2>2
<1> QED  BY <1>2, <1>3, <1>4

\* The steps are those of One, between stores.
LEMMA TakesIs ==
  ASSUME NEW mode, NEW rows, NEW records \in Seq(Record), NEW t,
         TakesBy(mode, rows, records, t)
  PROVE  /\ Len(records) \in Nat /\ t[0] = rows
         /\ \A k \in 0..Len(records) : t[k] \in Stores
         /\ \A k \in 1..Len(records) :
              /\ Takes(mode, t[k-1], records[k], t[k])
              /\ k - 1 \in 0..Len(records) /\ k \in 0..Len(records)
              /\ t[k-1] \in Stores
              /\ records[k] \in Record
              /\ records[k].id \in Ids /\ records[k].row \in Row
<1>1. Len(records) \in Nat /\ \A k \in 1..Len(records) : records[k] \in Record
  BY LenProperties
<1>2. \A k \in 1..Len(records) : records[k].id \in Ids /\ records[k].row \in Row
  BY <1>1 DEF Record
<1>3. \A k \in 1..Len(records) : k - 1 \in 0..Len(records) /\ k \in 0..Len(records)
  BY <1>1
<1>4. ASSUME NEW k \in 1..Len(records)
      PROVE  Takes(mode, t[k-1], records[k], t[k]) /\ t[k-1] \in Stores
  <2>1. t[k-1] \in Stores /\ records[k] \in Record
    BY <1>1, <1>3 DEF TakesBy
  <2>2. t[k] = One(mode, t[k-1], records[k])
    BY DEF TakesBy
  <2> QED  BY <2>1, <2>2, OneAt
<1> QED  BY <1>1, <1>2, <1>3, <1>4 DEF TakesBy

\* Between two steps the row appears by its record.
Arises(records, t, i, k, id) ==
  \E j \in 1..Len(records) :
    /\ i < j /\ j <= k /\ records[j].id = id
    /\ t[j-1][id] = None /\ t[j][id] = records[j].row
    /\ Holder(t[j-1], records[j].row) = {}

\* An id is taken from the start or by its record.
LEMMA TakenIds ==
  ASSUME NEW mode, NEW rows \in Stores, NEW records \in Seq(Record), NEW t,
         TakesBy(mode, rows, records, t)
  PROVE  \A i, k \in 0..Len(records), id \in Ids :
           i <= k /\ t[k][id] # None /\ t[i][id] = None
             => Arises(records, t, i, k, id)
<1> SUFFICES ASSUME NEW i \in 0..Len(records), NEW k \in 0..Len(records),
                    NEW id \in Ids, i <= k, t[k][id] # None, t[i][id] = None
             PROVE  Arises(records, t, i, k, id)
  OBVIOUS
<1> DEFINE n == Len(records)
           T == {j \in 0..n : i <= j /\ t[j][id] # None}
<1>1. T # {} /\ T \in SUBSET Nat
  <2>1. k \in T
    OBVIOUS
  <2> QED  BY <2>1
<1>2. PICK j \in T : \A m \in T : j <= m
  <2> HIDE DEF T
  <2> QED  BY <1>1, LeastOf
<1>3. j # i /\ j \in 0..n /\ i <= j /\ t[j][id] # None
  BY <1>2
<1>4. j \in 1..n /\ j - 1 \in 0..n /\ i <= j - 1 /\ ~(j <= j - 1)
      /\ i < j /\ j <= k
  <2>1. n \in Nat /\ k \in T
    BY TakesIs
  <2> QED  BY <1>2, <1>3, <2>1
<1>5. t[j-1][id] = None
  BY <1>2, <1>4
<1>6. Takes(mode, t[j-1], records[j], t[j])
  BY <1>4, TakesIs
<1>7. /\ id = records[j].id /\ Holder(t[j-1], records[j].row) = {}
      /\ t[j][id] = records[j].row
  <2> HIDE DEF T
  <2>1. id = records[j].id /\ Holder(t[j-1], records[j].row) = {}
    BY <1>3, <1>5, <1>6 DEF Takes
  <2>2. t[j][id] = records[j].row
    BY <1>5, <1>6, <2>1 DEF Takes
  <2> QED  BY <2>1, <2>2
<1> QED  BY <1>4, <1>5, <1>7 DEF Arises

\* Before its own step the id of a record is taken only if it was at first.
Own(rows, records, t, i) ==
  \A k \in 0..(i-1) :
    t[k][records[i].id] # None <=> rows[records[i].id] # None

\* So it is at all steps before the one of the record.
LEMMA OwnId ==
  ASSUME NEW mode, NEW rows \in Stores, NEW records \in Seq(Record), NEW t,
         TakesBy(mode, rows, records, t), Distinct(records)
  PROVE  \A i \in 1..Len(records) : Own(rows, records, t, i)
<1> SUFFICES ASSUME NEW i \in 1..Len(records), NEW k \in 0..(i-1)
             PROVE  t[k][records[i].id] # None <=> rows[records[i].id] # None
  BY DEF Own
<1> DEFINE n == Len(records)
           id == records[i].id
<1>1. /\ n \in Nat /\ t[0] = rows /\ id \in Ids
      /\ k \in 0..n /\ 0 \in 0..n /\ 0 <= k
  <2>1. n \in Nat /\ t[0] = rows
    BY TakesIs
  <2>2. records[i].id \in Ids
    BY TakesIs
  <2> QED  BY <2>1, <2>2
<1> HIDE DEF id
<1>2. rows[id] # None => t[k][id] # None
  <2>1. Retains(t[0], t[k])
    BY <1>1, TakesRetain
  <2> QED  BY <1>1, <2>1 DEF Retains
<1>3. ASSUME t[k][id] # None, rows[id] = None PROVE FALSE
  <2>1. Arises(records, t, 0, k, id)
    <3>1. t[0][id] = None
      BY <1>1, <1>3
    <3> QED  BY <1>1, <1>3, <3>1, TakenIds
  <2>2. PICK j \in 1..n : j <= k /\ records[j].id = id
    BY <2>1 DEF Arises
  <2>3. j # i
    BY <1>1, <2>2
  <2> QED  BY <2>2, <2>3 DEF Distinct, id
<1> QED  BY <1>2, <1>3 DEF id

\* A content is held by the rows that had it.
LEMMA HeldStays ==
  ASSUME NEW rows, NEW later, Retains(rows, later), NEW row,
         Holder(rows, row) # {}
  PROVE  Holder(later, row) # {}
<1>1. PICK id \in Ids : rows[id] # None /\ Key(rows[id]) = Key(row)
  BY DEF Holder, Present
<1>2. later[id] # None /\ Key(later[id]) = Key(rows[id])
  BY <1>1 DEF Retains
<1> QED  BY <1>1, <1>2 DEF Holder, Present

\* After its step the content of a record is held, but for one whose id was
\* taken by another content.
LEMMA Held ==
  ASSUME NEW mode, NEW rows \in Stores, NEW records \in Seq(Record), NEW t,
         TakesBy(mode, rows, records, t), Distinct(records)
  PROVE  \A i \in 1..Len(records) : \A k \in i..Len(records) :
           Holder(t[k], records[i].row) # {} \/ rows[records[i].id] # None
<1> SUFFICES ASSUME NEW i \in 1..Len(records), NEW k \in i..Len(records)
             PROVE  Holder(t[k], records[i].row) # {} \/ rows[records[i].id] # None
  OBVIOUS
<1>1. /\ Takes(mode, t[i-1], records[i], t[i]) /\ i - 1 \in 0..Len(records)
      /\ i \in 0..Len(records) /\ t[i-1] \in Stores /\ records[i] \in Record
      /\ records[i].id \in Ids /\ records[i].row \in Row
      /\ Len(records) \in Nat
  BY TakesIs
<1>2. k \in 0..Len(records) /\ i <= k /\ i - 1 <= k /\ i - 1 \in 0..(i-1)
  BY <1>1
<1>3. CASE Holder(t[i-1], records[i].row) # {}
  <2>1. Retains(t[i-1], t[k])
    BY <1>1, <1>2, TakesRetain
  <2> QED  BY <1>3, <2>1, HeldStays
<1>4. CASE Holder(t[i-1], records[i].row) = {} /\ t[i-1][records[i].id] # None
  <2>1. Own(rows, records, t, i)
    BY OwnId
  <2>2. rows[records[i].id] # None
    BY <1>2, <1>4, <2>1 DEF Own
  <2> QED  BY <2>2
<1>5. CASE Holder(t[i-1], records[i].row) = {} /\ t[i-1][records[i].id] = None
  <2>1. t[i][records[i].id] = records[i].row
    BY <1>1, <1>5 DEF Takes
  <2>2. records[i].row # None
    BY <1>1, AnnotationsAssumption
  <2>3. Holder(t[i], records[i].row) # {}
    <3>1. records[i].id \in Holder(t[i], records[i].row)
      BY <1>1, <2>1, <2>2 DEF Holder, Present
    <3> QED  BY <3>1
  <2>4. Retains(t[i], t[k])
    BY <1>1, <1>2, TakesRetain
  <2> QED  BY <2>3, <2>4, HeldStays
<1> QED  BY <1>3, <1>4, <1>5

\* A row of the content of a record has absorbed its notes from its step on.
LEMMA Absorbs ==
  ASSUME NEW mode, mode # "database", NEW rows \in Stores,
         NEW records \in Seq(Record), NEW t, TakesBy(mode, rows, records, t),
         Distinct(records), Unshadowed(rows, records)
  PROVE  \A i \in 1..Len(records) : \A k \in i..Len(records) : \A id \in Ids :
           t[k][id] # None /\ Key(t[k][id]) = Key(records[i].row)
             => Join(t[k][id], records[i]) = t[k][id]
<1> DEFINE n == Len(records)
<1> SUFFICES ASSUME NEW i \in 1..n
             PROVE  \A k \in i..n : \A id \in Ids :
                      t[k][id] # None /\ Key(t[k][id]) = Key(records[i].row)
                        => Join(t[k][id], records[i]) = t[k][id]
  OBVIOUS
<1> DEFINE Good(k) == \A id \in Ids :
                        t[k][id] # None /\ Key(t[k][id]) = Key(records[i].row)
                          => Join(t[k][id], records[i]) = t[k][id]
           S == {k \in 0..n : i <= k => Good(k)}
<1>1. /\ n \in Nat /\ records[i] \in Record /\ records[i].id \in Ids
      /\ \A k \in 0..n : t[k] \in Stores
  BY TakesIs
<1>2. 0 \in S
  BY <1>1
<1>3. ASSUME NEW k \in 1..n, k - 1 \in S PROVE k \in S
  <2> SUFFICES ASSUME i <= k, NEW id \in Ids, t[k][id] # None,
                      Key(t[k][id]) = Key(records[i].row)
               PROVE  Join(t[k][id], records[i]) = t[k][id]
    BY <1>1
  <2>1. /\ k - 1 \in 0..n /\ k \in 0..n /\ records[k] \in Record
        /\ Takes(mode, t[k-1], records[k], t[k])
        /\ records[k].id \in Ids
    BY TakesIs
  <2>2. t[k-1][id] # None => t[k-1][id] \in Row
    BY <1>1, <2>1 DEF Stores
  <2>3. CASE t[k-1][id] = None
    <3>1. id = records[k].id /\ Holder(t[k-1], records[k].row) = {}
      BY <2>1, <2>3 DEF Takes
    <3>2. t[k][id] = records[k].row
      BY <2>1, <2>3, <3>1 DEF Takes
    <3>3. k = i
      <4> SUFFICES ASSUME k # i PROVE FALSE
        OBVIOUS
      <4>1. i < k /\ k - 1 \in i..n /\ i \in 1..n
        BY <1>1, <2>1
      <4>2. Holder(t[k-1], records[i].row) # {} \/ rows[records[i].id] # None
        BY <4>1, Held
      <4>3. Key(records[i].row) = Key(records[k].row)
        BY <3>2
      <4>4. rows[records[i].id] = None
        BY <4>1, <4>3 DEF Unshadowed
      <4>5. Holder(t[k-1], records[i].row) = Holder(t[k-1], records[k].row)
        BY <4>3 DEF Holder
      <4> QED  BY <3>1, <4>2, <4>4, <4>5
    <3> QED  BY <1>1, <3>2, <3>3, JoinSelf
  <2>4. CASE t[k-1][id] # None /\ Key(t[k-1][id]) = Key(records[k].row)
    <3>1. t[k][id] = Join(t[k-1][id], records[k])
      BY <2>1, <2>4 DEF Takes
    <3>2. CASE k = i
      <4>1. Join(Join(t[k-1][id], records[k]), records[k]) = Join(t[k-1][id], records[k])
        BY <2>1, <2>2, <2>4, JoinIs
      <4> QED  BY <3>1, <3>2, <4>1
    <3>3. CASE k # i
      <4>1. Good(k-1)
        BY <1>1, <1>3, <3>3
      <4>2. Key(t[k-1][id]) = Key(records[i].row)
        <5>1. Key(Join(t[k-1][id], records[k])) = Key(t[k-1][id])
          BY <2>1, <2>2, <2>4, JoinIs
        <5> QED  BY <3>1, <5>1
      <4>3. Join(t[k-1][id], records[i]) = t[k-1][id]
        BY <2>4, <4>1, <4>2
      <4>4. Join(Join(t[k-1][id], records[k]), records[i])
              = Join(t[k-1][id], records[k])
        BY <1>1, <2>1, <2>2, <2>4, <4>3, JoinStays
      <4> QED  BY <3>1, <4>4
    <3> QED  BY <3>2, <3>3
  <2>5. CASE t[k-1][id] # None /\ Key(t[k-1][id]) # Key(records[k].row)
    <3>1. t[k][id] = t[k-1][id]
      BY <2>1, <2>5 DEF Takes
    <3>2. k # i
      BY <2>5, <3>1
    <3>3. Good(k-1)
      BY <1>1, <1>3, <3>2
    <3> QED  BY <2>5, <3>1, <3>3
  <2> QED  BY <2>3, <2>4, <2>5
<1>4. 0..n \subseteq S
  <2> HIDE DEF S
  <2> QED  BY <1>1, <1>2, <1>3, UpTo
<1>5. \A k \in i..n : k \in S
  BY <1>1, <1>4
<1> HIDE DEF Good
<1>6. \A k \in i..n : Good(k)
  BY <1>1, <1>5
<1> QED  BY <1>6 DEF Good

-----------------------------------------------------------------------------
(* An import that is begun again.                                          *)

\* Every row of the store is as it was after some step.
Among(rows, n, t) == \A id \in Ids : \E k \in 0..n : rows[id] = t[k][id]

\* Going through the same records again from there ends where it would have.
LEMMA Resumes ==
  ASSUME NEW mode, NEW rows \in Stores, NEW records \in Seq(Record),
         NEW p, TakesBy(mode, rows, records, p), Distinct(records),
         Unshadowed(rows, records),
         NEW later \in Stores, Among(later, Len(records), p),
         NEW q, TakesBy(mode, later, records, q)
  PROVE  q[Len(records)] = p[Len(records)]
<1> DEFINE n == Len(records)
<1>1. /\ n \in Nat /\ p[0] = rows /\ q[0] = later
      /\ \A k \in 0..n : p[k] \in Stores /\ q[k] \in Stores
      /\ \A k \in 1..n :
           /\ k - 1 \in 0..n /\ k \in 0..n
           /\ records[k] \in Record /\ records[k].id \in Ids
           /\ records[k].row \in Row
           /\ Takes(mode, p[k-1], records[k], p[k])
           /\ Takes(mode, q[k-1], records[k], q[k])
  <2>1. /\ n \in Nat /\ p[0] = rows /\ \A k \in 0..n : p[k] \in Stores
        /\ \A k \in 1..n :
             /\ k - 1 \in 0..n /\ k \in 0..n
             /\ records[k] \in Record /\ records[k].id \in Ids
             /\ records[k].row \in Row
             /\ Takes(mode, p[k-1], records[k], p[k])
    BY TakesIs
  <2>2. /\ q[0] = later /\ \A k \in 0..n : q[k] \in Stores
        /\ \A k \in 1..n : Takes(mode, q[k-1], records[k], q[k])
    BY TakesIs
  <2> QED  BY <2>1, <2>2
<1>2. PICK at \in [Ids -> 0..n] : \A id \in Ids : later[id] = p[at[id]][id]
  <2> DEFINE At == [id \in Ids |-> CHOOSE k \in 0..n : later[id] = p[k][id]]
  <2>1. \A id \in Ids : \E k \in 0..n : later[id] = p[k][id]
    BY DEF Among
  <2>2. \A id \in Ids : At[id] \in 0..n /\ later[id] = p[At[id]][id]
    BY <2>1
  <2>3. At \in [Ids -> 0..n]
    BY <2>2
  <2> HIDE DEF At
  <2> QED  BY <2>2, <2>3
<1> DEFINE To(id, k) == IF at[id] <= k THEN k ELSE at[id]
           Good(k) == \A id \in Ids : q[k][id] = p[To(id, k)][id]
           S == {k \in 0..n : Good(k)}
<1>3. 0 \in S
  BY <1>1, <1>2
<1>4. ASSUME NEW i \in 0..n, NEW k \in 0..n, i <= k
      PROVE  Retains(p[i], p[k])
  BY <1>4, TakesRetain
<1>5. ASSUME NEW k \in 1..n, k - 1 \in S PROVE k \in S
  <2> DEFINE record == records[k]
  <2>1. /\ k - 1 \in 0..n /\ k \in 0..n /\ record \in Record /\ record.id \in Ids
        /\ record.row \in Row
        /\ Takes(mode, p[k-1], record, p[k]) /\ Takes(mode, q[k-1], record, q[k])
    BY <1>1
  <2>2. \A id \in Ids : q[k-1][id] = p[To(id, k-1)][id]
    BY <1>5
  <2>3. \A id \in Ids : /\ at[id] < k => To(id, k-1) = k-1 /\ To(id, k) = k
                        /\ k <= at[id] => To(id, k-1) = at[id] /\ To(id, k) = at[id]
                        /\ at[id] \in 0..n /\ To(id, k-1) \in 0..n
                        /\ k - 1 <= To(id, k-1)
    BY <1>1, <1>2, <2>1
  <2> HIDE DEF To, record
  <2>4. Holder(p[k-1], record.row) # {} => Holder(q[k-1], record.row) # {}
    <3> SUFFICES ASSUME NEW h \in Ids, p[k-1][h] # None,
                        Key(p[k-1][h]) = Key(record.row)
                 PROVE  h \in Holder(q[k-1], record.row)
      BY DEF Holder, Present
    <3>1. Retains(p[k-1], p[To(h, k-1)])
      BY <1>4, <2>1, <2>3
    <3>2. p[To(h, k-1)][h] # None /\ Key(p[To(h, k-1)][h]) = Key(p[k-1][h])
      BY <3>1 DEF Retains
    <3>3. q[k-1][h] # None /\ Key(q[k-1][h]) = Key(record.row)
      BY <2>2, <3>2
    <3> QED  BY <3>3 DEF Holder, Present
  <2>5. ASSUME NEW id \in Ids PROVE q[k][id] = p[To(id, k)][id]
    <3>1. CASE q[k-1][id] # None /\ mode # "database" /\ Key(q[k-1][id]) = Key(record.row)
      <4>1. q[k][id] = Join(q[k-1][id], record)
        BY <2>1, <3>1 DEF Takes
      <4>2. CASE at[id] < k
        <5>1. q[k-1][id] = p[k-1][id] /\ To(id, k) = k
          BY <2>2, <2>3, <4>2
        <5>2. p[k][id] = Join(p[k-1][id], record)
          BY <2>1, <3>1, <5>1 DEF Takes
        <5> QED  BY <4>1, <5>1, <5>2
      <4>3. CASE k <= at[id]
        <5>1. q[k-1][id] = p[at[id]][id] /\ To(id, k) = at[id] /\ at[id] \in k..n
          BY <1>1, <2>2, <2>3, <4>3
        <5>2. Join(p[at[id]][id], record) = p[at[id]][id]
          <6>1. \A i \in 1..n : \A m \in i..n : \A x \in Ids :
                  p[m][x] # None /\ Key(p[m][x]) = Key(records[i].row)
                    => Join(p[m][x], records[i]) = p[m][x]
            BY <3>1, Absorbs
          <6>2. \A m \in k..n :
                  p[m][id] # None /\ Key(p[m][id]) = Key(record.row)
                    => Join(p[m][id], record) = p[m][id]
            BY <6>1 DEF record
          <6> QED  BY <3>1, <5>1, <6>2
        <5> QED  BY <4>1, <5>1, <5>2
      <4> QED  BY <1>1, <2>3, <4>2, <4>3
    <3>2. CASE q[k-1][id] # None /\ (mode = "database" \/ Key(q[k-1][id]) # Key(record.row))
      <4>1. q[k][id] = q[k-1][id]
        BY <2>1, <3>2 DEF Takes
      <4>2. CASE at[id] < k
        <5>1. q[k-1][id] = p[k-1][id] /\ To(id, k) = k
          BY <2>2, <2>3, <4>2
        <5>2. p[k][id] = p[k-1][id]
          BY <2>1, <3>2, <5>1 DEF Takes
        <5> QED  BY <4>1, <5>1, <5>2
      <4>3. CASE k <= at[id]
        BY <2>2, <2>3, <4>1, <4>3
      <4> QED  BY <1>1, <2>3, <4>2, <4>3
    <3>3. CASE q[k-1][id] = None /\ id # record.id
      <4>1. q[k][id] = None
        BY <2>1, <3>3 DEF Takes
      <4>2. CASE at[id] < k
        <5>1. p[k-1][id] = None /\ To(id, k) = k
          BY <2>2, <2>3, <3>3, <4>2
        <5>2. p[k][id] = None
          BY <2>1, <3>3, <5>1 DEF Takes
        <5> QED  BY <4>1, <5>1, <5>2
      <4>3. CASE k <= at[id]
        BY <2>2, <2>3, <3>3, <4>1, <4>3
      <4> QED  BY <1>1, <2>3, <4>2, <4>3
    <3>4. CASE q[k-1][id] = None /\ id = record.id
      <4>1. CASE k <= at[id]
        <5>1. p[at[id]][id] = None /\ To(id, k) = at[id]
          BY <2>2, <2>3, <3>4, <4>1
        <5>2. p[k][id] = None /\ p[k-1][id] = None
          <6>1. Retains(p[k], p[at[id]]) /\ Retains(p[k-1], p[at[id]])
            BY <1>4, <2>1, <2>3, <4>1
          <6> QED  BY <5>1, <6>1 DEF Retains
        <5>3. Holder(p[k-1], record.row) # {}
          <6>1. record.row # None
            BY <2>1, AnnotationsAssumption
          <6> QED  BY <2>1, <3>4, <5>2, <6>1 DEF Takes
        <5>4. q[k][id] = None
          BY <2>1, <2>4, <3>4, <5>3 DEF Takes
        <5> QED  BY <5>1, <5>4
      <4>2. CASE at[id] < k
        <5>1. p[k-1][id] = None /\ To(id, k) = k
          BY <2>2, <2>3, <3>4, <4>2
        <5>2. CASE Holder(p[k-1], record.row) # {}
          <6>1. p[k][id] = None /\ q[k][id] = None
            BY <2>1, <2>4, <3>4, <5>1, <5>2 DEF Takes
          <6> QED  BY <5>1, <6>1
        <5>3. CASE Holder(p[k-1], record.row) = {}
          <6>1. Holder(q[k-1], record.row) = {}
            <7> SUFFICES ASSUME NEW h \in Ids, q[k-1][h] # None,
                                Key(q[k-1][h]) = Key(record.row)
                         PROVE  FALSE
              BY DEF Holder, Present
            <7>1. p[To(h, k-1)][h] # None /\ Key(p[To(h, k-1)][h]) = Key(record.row)
              BY <2>2
            <7>2. p[k-1][h] = None
              <8> SUFFICES ASSUME p[k-1][h] # None PROVE FALSE
                OBVIOUS
              <8>1. Retains(p[k-1], p[To(h, k-1)])
                BY <1>4, <2>1, <2>3
              <8>2. Key(p[k-1][h]) = Key(record.row)
                BY <7>1, <8>1 DEF Retains
              <8>3. h \in Holder(p[k-1], record.row)
                BY <8>2 DEF Holder, Present
              <8> QED  BY <5>3, <8>3
            <7>3. Arises(records, p, k-1, To(h, k-1), h)
              BY <2>1, <2>3, <7>1, <7>2, TakenIds
            <7>4. PICK j \in 1..n :
                    /\ k - 1 < j /\ j <= To(h, k-1) /\ records[j].id = h
                    /\ p[j-1][h] = None /\ p[j][h] = records[j].row
                    /\ Holder(p[j-1], records[j].row) = {}
              BY <7>3 DEF Arises
            <7>5. Key(records[j].row) = Key(record.row)
              <8>1. j \in 0..n /\ Retains(p[j], p[To(h, k-1)])
                BY <1>1, <1>4, <2>3, <7>4
              <8>2. records[j].row # None
                BY <1>1, AnnotationsAssumption
              <8>3. Key(p[To(h, k-1)][h]) = Key(p[j][h])
                BY <7>4, <8>1, <8>2 DEF Retains
              <8> QED  BY <7>1, <7>4, <8>3
            <7>6. j # k
              <8> SUFFICES ASSUME j = k PROVE FALSE
                OBVIOUS
              <8>1. h = id
                BY <3>4, <7>4 DEF record
              <8> QED  BY <2>3, <3>4, <4>2, <8>1
            <7>7. k <= j - 1 /\ j - 1 \in k..n
              BY <1>1, <7>4, <7>6
            <7>8. Holder(p[j-1], record.row) # {} \/ rows[record.id] # None
              BY <7>7, Held DEF record
            <7>9. rows[record.id] = None
              <8>2. k - 1 \in 0..(k-1)
                BY <2>1
              <8>1. Own(rows, records, p, k)
                BY OwnId
              <8>3. p[k-1][record.id] # None <=> rows[record.id] # None
                BY <8>1, <8>2 DEF Own, record
              <8> QED  BY <3>4, <5>1, <8>3
            <7>10. Holder(p[j-1], record.row) = Holder(p[j-1], records[j].row)
              BY <7>5 DEF Holder
            <7> QED  BY <7>4, <7>8, <7>9, <7>10
          <6>2. p[k][id] = record.row /\ q[k][id] = record.row
            BY <2>1, <3>4, <5>1, <5>3, <6>1 DEF Takes
          <6> QED  BY <5>1, <6>2
        <5> QED  BY <5>2, <5>3
      <4> QED  BY <1>1, <2>3, <4>1, <4>2
    <3> QED  BY <3>1, <3>2, <3>3, <3>4
  <2> QED  BY <2>1, <2>5
<1>6. 0..n \subseteq S
  <2> HIDE DEF S
  <2> QED  BY <1>1, <1>3, <1>5, UpTo
<1>7. Good(n)
  BY <1>1, <1>6
<1>8. \A id \in Ids : q[n][id] = p[n][id]
  <2>1. \A id \in Ids : To(id, n) = n
    BY <1>1, <1>2
  <2> HIDE DEF To
  <2> QED  BY <1>7, <2>1
<1>9. q[n] \in Stores /\ p[n] \in Stores
  BY <1>1
<1>10. q[n] = p[n]
  <2> HIDE DEF n
  <2> QED  BY <1>8, <1>9 DEF Stores
<1> QED  BY <1>10

-----------------------------------------------------------------------------
(* A batch.                                                                *)

\* The records of a batch that are inserted, and those that are merged.
New(rows, batch) ==
  {i \in 1..Len(batch) : /\ IsFirst(batch, i)
                         /\ Holder(rows, batch[i].row) = {}
                         /\ rows[batch[i].id] = None}

Merging(rows, batch) ==
  {i \in 1..Len(batch) : ~IsFirst(batch, i) \/ Holder(rows, batch[i].row) # {}}

\* What is inserted is the new records.
Inserts(rows, batch, after) ==
  /\ \A i \in New(rows, batch) : after[batch[i].id] = batch[i].row
  /\ \A id \in Ids : (\A i \in New(rows, batch) : batch[i].id # id)
                       => after[id] = rows[id]

\* Insert makes a store of them, and keeps what there was.
LEMMA InsertIs ==
  ASSUME NEW rows \in Stores, NEW batch \in Seq(Record), Distinct(batch)
  PROVE  /\ Insert(rows, batch) \in Stores
         /\ Inserts(rows, batch, Insert(rows, batch))
         /\ Retains(rows, Insert(rows, batch))
<1> DEFINE new == New(rows, batch)
           The(id) == CHOOSE i \in new : batch[i].id = id
<1>1. /\ DOMAIN batch = 1..Len(batch)
      /\ \A i \in 1..Len(batch) : /\ batch[i] \in Record /\ batch[i].id \in Ids
                                  /\ batch[i].row \in Row
  <2>1. /\ DOMAIN batch = 1..Len(batch)
        /\ \A i \in 1..Len(batch) : batch[i] \in Record
    BY LenProperties
  <2>2. \A record \in Record : record.id \in Ids /\ record.row \in Row
    BY DEF Record
  <2> QED  BY <2>1, <2>2
<1>2. Insert(rows, batch) =
        [id \in Ids |-> IF \E i \in new : batch[i].id = id
                        THEN batch[The(id)].row ELSE rows[id]]
  BY <1>1 DEF Insert, New
<1>3. \A i \in new : i \in 1..Len(batch) /\ rows[batch[i].id] = None
  BY DEF New
<1> HIDE DEF new
<1>4. \A i \in new : The(batch[i].id) = i
  <2> SUFFICES ASSUME NEW i \in new PROVE The(batch[i].id) = i
    OBVIOUS
  <2>1. The(batch[i].id) \in new /\ batch[The(batch[i].id)].id = batch[i].id
    OBVIOUS
  <2> HIDE DEF The
  <2> QED  BY <1>3, <2>1 DEF Distinct
<1> HIDE DEF The
<1>5. ASSUME NEW i \in new PROVE Insert(rows, batch)[batch[i].id] = batch[i].row
  BY <1>1, <1>2, <1>3, <1>4
<1>6. ASSUME NEW id \in Ids, \A i \in new : batch[i].id # id
      PROVE  Insert(rows, batch)[id] = rows[id]
  BY <1>2, <1>6
<1>7. ASSUME NEW id \in Ids PROVE Insert(rows, batch)[id] \in Row \cup {None}
  <2>1. CASE \E i \in new : batch[i].id = id
    BY <1>1, <1>3, <1>5, <2>1
  <2>2. CASE \A i \in new : batch[i].id # id
    BY <1>6, <2>2 DEF Stores
  <2> QED  BY <2>1, <2>2
<1>8. Insert(rows, batch) \in Stores
  <2> DEFINE after == Insert(rows, batch)
  <2>1. after = [id \in Ids |-> after[id]]
    BY <1>2
  <2>2. \A id \in Ids : after[id] \in Row \cup {None}
    BY <1>7
  <2> HIDE DEF after
  <2>3. after \in [Ids -> Row \cup {None}]
    BY <2>1, <2>2
  <2> QED  BY <2>3 DEF after, Stores
<1>9. Inserts(rows, batch, Insert(rows, batch))
  BY <1>5, <1>6 DEF Inserts, new
<1>10. \A id \in Ids : rows[id] # None => Insert(rows, batch)[id] = rows[id]
  BY <1>3, <1>6
<1>11. Retains(rows, Insert(rows, batch))
  BY <1>10 DEF Retains
<1> QED  BY <1>8, <1>9, <1>11

\* The duplicates are listed by their places, and those of one content in
\* their order.
Orders(rows, batch, s) ==
  /\ s \in Seq(1..Len(batch))
  /\ \A i \in 1..Len(batch) :
       i \in Merging(rows, batch) <=> \E j \in 1..Len(s) : s[j] = i
  /\ \A i, j \in 1..Len(s) :
       i < j /\ Key(batch[s[i]].row) = Key(batch[s[j]].row) => s[i] < s[j]
  /\ \A i, j \in 1..Len(s) : s[i] = s[j] => i = j

\* Duplicates lists them so: those of rows first, then those of records of
\* the batch, of which the first one with the content is none.
LEMMA DuplicatesAre ==
  ASSUME NEW rows \in Stores, NEW batch \in Seq(Record)
  PROVE  \E s : /\ Orders(rows, batch, s)
                /\ Duplicates(rows, batch) \in Seq(Record)
                /\ Len(Duplicates(rows, batch)) = Len(s)
                /\ \A j \in 1..Len(s) : Duplicates(rows, batch)[j] = batch[s[j]]
<1> DEFINE n == Len(batch)
           first == {i \in DOMAIN batch : IsFirst(batch, i)}
           inStore == {i \in first : Holder(rows, batch[i].row) # {}}
           again == DOMAIN batch \ first
           one == Picked(batch, inStore)
           two == Picked(batch, again)
<1>1. Duplicates(rows, batch) = one \o two
  BY DEF Duplicates
<1>2. DOMAIN batch = 1..n /\ n \in Nat
  BY LenProperties
<1>3. \A i \in 1..n : /\ i \in inStore <=> IsFirst(batch, i) /\ Holder(rows, batch[i].row) # {}
                      /\ i \in again <=> ~IsFirst(batch, i)
  BY <1>2
<1> HIDE DEF first, inStore, again
<1>4. PICK f : /\ Lists(f, n, inStore) /\ one \in Seq(Record) /\ Len(one) = Len(f)
               /\ \A j \in 1..Len(f) : one[j] = batch[f[j]]
  BY PickedIs
<1>5. PICK g : /\ Lists(g, n, again) /\ two \in Seq(Record) /\ Len(two) = Len(g)
               /\ \A j \in 1..Len(g) : two[j] = batch[g[j]]
  BY PickedIs
<1> HIDE DEF one, two
<1>6. /\ f \in Seq(1..n) /\ g \in Seq(1..n) /\ Len(f) \in Nat /\ Len(g) \in Nat
      /\ \A j \in 1..Len(f) : f[j] \in 1..n /\ f[j] \in inStore
      /\ \A j \in 1..Len(g) : g[j] \in 1..n /\ g[j] \in again
  <2>1. f \in Seq(1..n) /\ g \in Seq(1..n)
    BY <1>4, <1>5 DEF Lists
  <2>2. /\ Len(f) \in Nat /\ Len(g) \in Nat
        /\ \A j \in 1..Len(f) : f[j] \in 1..n
        /\ \A j \in 1..Len(g) : g[j] \in 1..n
    BY <2>1, LenProperties
  <2>3. \A j \in 1..Len(f) : f[j] \in inStore
    BY <1>4, <2>2 DEF Lists
  <2>4. \A j \in 1..Len(g) : g[j] \in again
    BY <1>5, <2>2 DEF Lists
  <2> QED  BY <2>1, <2>2, <2>3, <2>4
<1> DEFINE s == f \o g
<1>7. /\ s \in Seq(1..n) /\ Len(s) = Len(f) + Len(g)
      /\ \A j \in 1..Len(s) : s[j] = IF j <= Len(f) THEN f[j] ELSE g[j - Len(f)]
  BY <1>6, ConcatProperties
<1>8. /\ one \o two \in Seq(Record) /\ Len(one \o two) = Len(f) + Len(g)
      /\ \A j \in 1..(Len(f) + Len(g)) :
           (one \o two)[j] = IF j <= Len(f) THEN one[j] ELSE two[j - Len(f)]
  <2>1. /\ one \o two \in Seq(Record) /\ Len(one \o two) = Len(one) + Len(two)
        /\ \A j \in 1..(Len(one) + Len(two)) :
             (one \o two)[j] = IF j <= Len(one) THEN one[j] ELSE two[j - Len(one)]
    <3>1. one \in Seq(Record) /\ two \in Seq(Record)
      BY <1>4, <1>5
    <3> QED  BY <3>1, ConcatProperties
  <2> QED  BY <1>4, <1>5, <2>1
<1> HIDE DEF s, n
<1>9. ASSUME NEW j \in 1..Len(s)
      PROVE  \/ j \in 1..Len(f) /\ s[j] = f[j]
             \/ /\ j > Len(f) /\ j - Len(f) \in 1..Len(g) /\ s[j] = g[j - Len(f)]
  BY <1>6, <1>7
<1>10. \A j \in 1..Len(s) : (one \o two)[j] = batch[s[j]]
  <2> SUFFICES ASSUME NEW j \in 1..Len(s) PROVE (one \o two)[j] = batch[s[j]]
    OBVIOUS
  <2>1. CASE j <= Len(f)
    <3>1. j \in 1..Len(f) /\ s[j] = f[j] /\ (one \o two)[j] = one[j]
      BY <1>6, <1>7, <1>8, <2>1
    <3> QED  BY <1>4, <3>1
  <2>2. CASE j > Len(f)
    <3>1. j - Len(f) \in 1..Len(g)
      BY <1>6, <1>7, <2>2
    <3>2. s[j] = g[j - Len(f)] /\ (one \o two)[j] = two[j - Len(f)]
      BY <1>6, <1>7, <1>8, <2>2
    <3> QED  BY <1>5, <3>1, <3>2
  <2>3. Len(f) \in Nat /\ Len(s) \in Nat
    BY <1>6, <1>7
  <2>4. j <= Len(f) \/ j > Len(f)
    BY <2>3
  <2> QED  BY <2>1, <2>2, <2>4
<1>11. ASSUME NEW i \in 1..n
       PROVE  i \in Merging(rows, batch) <=> \E j \in 1..Len(s) : s[j] = i
  <2>1. i \in Merging(rows, batch) <=> i \in inStore \/ i \in again
    BY <1>3 DEF Merging, n
  <2>2. ASSUME NEW j \in 1..Len(s), s[j] = i PROVE i \in inStore \/ i \in again
    BY <1>6, <1>9, <2>2
  <2>3. ASSUME i \in inStore PROVE \E j \in 1..Len(s) : s[j] = i
    <3>1. PICK j \in 1..Len(f) : f[j] = i
      BY <1>4, <2>3 DEF Lists
    <3>2. j \in 1..Len(s) /\ s[j] = f[j]
      BY <1>6, <1>7
    <3> QED  BY <3>1, <3>2
  <2>4. ASSUME i \in again PROVE \E j \in 1..Len(s) : s[j] = i
    <3>1. PICK j \in 1..Len(g) : g[j] = i
      BY <1>5, <2>4 DEF Lists
    <3>2. Len(f) + j \in 1..Len(s) /\ s[Len(f) + j] = g[j]
      <4>1. Len(f) + j \in 1..Len(s) /\ ~(Len(f) + j <= Len(f))
            /\ (Len(f) + j) - Len(f) = j
        BY <1>6, <1>7
      <4> QED  BY <1>7, <4>1
    <3> QED  BY <3>1, <3>2
  <2> QED  BY <2>1, <2>2, <2>3, <2>4
<1>12. ASSUME NEW i \in 1..Len(s), NEW j \in 1..Len(s), i < j
       PROVE  /\ s[i] # s[j]
              /\ Key(batch[s[i]].row) = Key(batch[s[j]].row) => s[i] < s[j]
  <2>1. CASE j <= Len(f)
    <3>1. i \in 1..Len(f) /\ j \in 1..Len(f) /\ s[i] = f[i] /\ s[j] = f[j]
          /\ f[i] \in 1..n /\ f[j] \in 1..n
      BY <1>6, <1>7, <1>12, <2>1
    <3>2. f[i] < f[j]
      BY <1>4, <1>12, <3>1 DEF Lists
    <3> QED  BY <3>1, <3>2, <1>2
  <2>2. CASE i > Len(f)
    <3> DEFINE a == i - Len(f)
               b == j - Len(f)
    <3>1. /\ a \in 1..Len(g) /\ b \in 1..Len(g) /\ a < b
          /\ s[i] = g[a] /\ s[j] = g[b]
      BY <1>6, <1>7, <1>12, <2>2
    <3> HIDE DEF a, b
    <3>2. g[a] < g[b] /\ g[a] \in 1..n /\ g[b] \in 1..n
      BY <1>5, <1>6, <3>1 DEF Lists
    <3> QED  BY <3>1, <3>2, <1>2
  <2>3. CASE i <= Len(f) /\ j > Len(f)
    <3>1. i \in 1..Len(f) /\ s[i] = f[i] /\ j - Len(f) \in 1..Len(g)
          /\ s[j] = g[j - Len(f)]
      BY <1>6, <1>7, <2>3
    <3>2. s[i] \in 1..n /\ s[i] \in inStore /\ s[j] \in 1..n /\ s[j] \in again
      BY <1>6, <3>1
    <3>3. IsFirst(batch, s[i]) /\ ~IsFirst(batch, s[j])
      BY <1>3, <3>2
    <3>4. Key(batch[s[i]].row) = Key(batch[s[j]].row) => ~(s[j] < s[i])
      BY <1>2, <3>2, <3>3 DEF IsFirst
    <3>5. s[i] # s[j]
      BY <3>3
    <3> QED  BY <1>2, <3>2, <3>4, <3>5
  <2> QED  BY <1>6, <2>1, <2>2, <2>3
<1>13. Orders(rows, batch, s)
  <2>1. \A i, j \in 1..Len(s) : s[i] = s[j] => i = j
    <3> SUFFICES ASSUME NEW i \in 1..Len(s), NEW j \in 1..Len(s), s[i] = s[j], i # j
                 PROVE  FALSE
      OBVIOUS
    <3>1. i < j \/ j < i
      BY <1>6, <1>7
    <3> QED  BY <1>12, <3>1
  <2> QED  BY <1>7, <1>11, <1>12, <2>1 DEF Orders, n
<1>14. Len(one \o two) = Len(s)
  BY <1>7, <1>8
<1> QED  BY <1>1, <1>8, <1>10, <1>13, <1>14

\* No record between two steps is merged into the row.
Idle(mode, records, t, k, m, id) ==
  mode = "database" \/
  \A i \in 1..Len(records) :
    k < i /\ i <= m => Key(records[i].row) # Key(t[k][id])

\* Such a row is the same at both.
LEMMA Stays ==
  ASSUME NEW mode, NEW rows \in Stores, NEW records \in Seq(Record), NEW t,
         TakesBy(mode, rows, records, t), NEW k \in 0..Len(records), NEW id \in Ids,
         t[k][id] # None
  PROVE  \A m \in k..Len(records) :
           Idle(mode, records, t, k, m, id) => t[m][id] = t[k][id]
<1> DEFINE n == Len(records)
           S == {m \in 0..n : k <= m /\ Idle(mode, records, t, k, m, id)
                                => t[m][id] = t[k][id]}
<1>1. n \in Nat
  BY TakesIs
<1>2. 0 \in S
  BY <1>1
<1>3. ASSUME NEW m \in 1..n, m - 1 \in S PROVE m \in S
  <2> SUFFICES ASSUME k <= m, Idle(mode, records, t, k, m, id)
               PROVE  t[m][id] = t[k][id]
    BY <1>1
  <2>1. CASE k = m
    BY <2>1
  <2>2. CASE k < m
    <3>1. k <= m - 1 /\ m - 1 \in 0..n
      BY <1>1, <2>2
    <3>2. Idle(mode, records, t, k, m - 1, id)
      BY <1>1 DEF Idle
    <3>3. t[m-1][id] = t[k][id]
      BY <1>3, <3>1, <3>2
    <3>4. Takes(mode, t[m-1], records[m], t[m])
      BY TakesIs
    <3>5. mode = "database" \/ Key(records[m].row) # Key(t[k][id])
      BY <1>1, <2>2 DEF Idle
    <3>6. t[m][id] = t[m-1][id]
      BY <3>3, <3>4, <3>5 DEF Takes
    <3> QED  BY <3>3, <3>6
  <2> QED  BY <1>1, <2>1, <2>2
<1>4. 0..n \subseteq S
  <2> HIDE DEF S
  <2> QED  BY <1>1, <1>2, <1>3, UpTo
<1>5. \A m \in k..n : m \in S /\ k <= m
  BY <1>1, <1>4
<1> QED  BY <1>5

\* The step after which the row is what was inserted for the batch.
Loaded(rows, batch, q, id, k) ==
  /\ k \in 0..Len(batch) /\ q[k][id] = Insert(rows, batch)[id]
  /\ k = 0 \/ (k \in New(rows, batch) /\ batch[k].id = id)

\* A batch inserts what goes in when its records are taken one by one.
LEMMA Loads ==
  ASSUME NEW mode, NEW rows \in Stores, NEW batch \in Seq(Record),
         NEW q, TakesBy(mode, rows, batch, q), Distinct(batch),
         Unshadowed(rows, batch), NEW id \in Ids
  PROVE  /\ Insert(rows, batch)[id] # None
              => \E k \in 0..Len(batch) : Loaded(rows, batch, q, id, k)
         /\ Insert(rows, batch)[id] = None => q[Len(batch)][id] = None
<1> DEFINE b == Len(batch)
           after == Insert(rows, batch)
<1>1. /\ b \in Nat /\ q[0] = rows /\ 0 \in 0..b /\ b \in 0..b
      /\ \A i \in 1..b : /\ batch[i] \in Record /\ batch[i].id \in Ids
                         /\ batch[i].row \in Row /\ i \in 0..b /\ i - 1 \in 0..b
                         /\ Takes(mode, q[i-1], batch[i], q[i])
  <2>1. /\ b \in Nat /\ q[0] = rows
        /\ \A i \in 1..b : /\ batch[i] \in Record /\ batch[i].id \in Ids
                           /\ batch[i].row \in Row /\ i \in 0..b /\ i - 1 \in 0..b
                           /\ Takes(mode, q[i-1], batch[i], q[i])
    BY TakesIs
  <2> QED  BY <2>1
<1>2. Inserts(rows, batch, after)
  BY InsertIs
<1> HIDE DEF after
<1>4. ASSUME NEW i \in New(rows, batch)
      PROVE  q[i][batch[i].id] = batch[i].row
  <2>1. /\ i \in 1..b /\ IsFirst(batch, i) /\ Holder(rows, batch[i].row) = {}
        /\ rows[batch[i].id] = None
    BY DEF New
  <2>2. q[i-1][batch[i].id] = None
    <3>1. Own(rows, batch, q, i)
      BY <2>1, OwnId
    <3>2. i - 1 \in 0..(i-1)
      BY <1>1, <2>1
    <3> QED  BY <2>1, <3>1, <3>2 DEF Own
  <2>3. Holder(q[i-1], batch[i].row) = {}
    <3> SUFFICES ASSUME NEW h \in Ids, q[i-1][h] # None,
                        Key(q[i-1][h]) = Key(batch[i].row)
                 PROVE  FALSE
      BY DEF Holder, Present
    <3>1. CASE rows[h] # None
      <4>1. Retains(q[0], q[i-1])
        <5>1. i - 1 \in 0..b /\ 0 <= i - 1 /\ 0 \in 0..b
          BY <1>1, <2>1
        <5> QED  BY <5>1, TakesRetain
      <4>2. Key(rows[h]) = Key(batch[i].row)
        BY <1>1, <3>1, <4>1 DEF Retains
      <4>3. h \in Holder(rows, batch[i].row)
        BY <3>1, <4>2 DEF Holder, Present
      <4> QED  BY <2>1, <4>3
    <3>2. CASE rows[h] = None
      <4>1. Arises(batch, q, 0, i - 1, h)
        <5>1. i - 1 \in 0..b /\ 0 <= i - 1 /\ 0 \in 0..b /\ q[0][h] = None
          BY <1>1, <2>1, <3>2
        <5> QED  BY <5>1, TakenIds
      <4>2. PICK j \in 1..b : /\ j <= i - 1 /\ q[j][h] = batch[j].row
        BY <4>1 DEF Arises
      <4>3. Retains(q[j], q[i-1])
        BY <1>1, <2>1, <4>2, TakesRetain
      <4>4. q[j][h] # None
        BY <1>1, <4>2, AnnotationsAssumption
      <4>5. Key(batch[j].row) = Key(batch[i].row)
        BY <4>2, <4>3, <4>4 DEF Retains
      <4>6. j < i /\ j \in DOMAIN batch
        <5>1. DOMAIN batch = 1..b
          BY LenProperties
        <5> QED  BY <1>1, <2>1, <4>2, <5>1
      <4> QED  BY <2>1, <4>5, <4>6 DEF IsFirst
    <3> QED  BY <3>1, <3>2
  <2> QED  BY <1>1, <2>1, <2>2, <2>3 DEF Takes
<1>5. ASSUME rows[id] = None, q[b][id] # None
      PROVE  \E j \in New(rows, batch) : batch[j].id = id
  <2>1. Arises(batch, q, 0, b, id)
    <3>1. 0 <= b /\ q[0][id] = None
      BY <1>1, <1>5
    <3> QED  BY <1>1, <1>5, <3>1, TakenIds
  <2>2. PICK j \in 1..b : /\ batch[j].id = id /\ q[j-1][id] = None
                          /\ Holder(q[j-1], batch[j].row) = {}
    BY <2>1 DEF Arises
  <2>3. Holder(rows, batch[j].row) = {}
    <3> SUFFICES ASSUME Holder(rows, batch[j].row) # {} PROVE FALSE
      OBVIOUS
    <3>1. Retains(q[0], q[j-1])
      <4>1. j - 1 \in 0..b /\ 0 <= j - 1 /\ 0 \in 0..b
        BY <1>1
      <4> QED  BY <4>1, TakesRetain
    <3>2. Holder(q[j-1], batch[j].row) # {}
      BY <1>1, <3>1, HeldStays
    <3> QED  BY <2>2, <3>2
  <2>4. IsFirst(batch, j)
    <3> SUFFICES ASSUME NEW i \in 1..b, i < j,
                        Key(batch[i].row) = Key(batch[j].row)
                 PROVE  FALSE
      <4>1. DOMAIN batch = 1..b
        BY LenProperties
      <4> QED  BY <4>1 DEF IsFirst
    <3>1. j - 1 \in i..b
      BY <1>1
    <3>2. Holder(q[j-1], batch[i].row) # {} \/ rows[batch[i].id] # None
      BY <3>1, Held
    <3>3. rows[batch[i].id] = None
      BY DEF Unshadowed
    <3>4. Holder(q[j-1], batch[i].row) = Holder(q[j-1], batch[j].row)
      BY DEF Holder
    <3> QED  BY <2>2, <3>2, <3>3, <3>4
  <2> QED  BY <1>5, <2>2, <2>3, <2>4 DEF New
<1>6. CASE \E i \in New(rows, batch) : batch[i].id = id
  <2>1. PICK i \in New(rows, batch) : batch[i].id = id
    BY <1>6
  <2>2. i \in 1..b /\ i \in 0..b /\ batch[i].row # None
    BY <1>1, AnnotationsAssumption DEF New
  <2>3. after[id] = batch[i].row /\ q[i][id] = batch[i].row
    BY <1>2, <1>4, <2>1 DEF Inserts
  <2>4. Loaded(rows, batch, q, id, i)
    BY <2>1, <2>2, <2>3 DEF Loaded, after
  <2> QED  BY <2>2, <2>3, <2>4 DEF after
<1>7. CASE \A i \in New(rows, batch) : batch[i].id # id
  <2>1. after[id] = rows[id]
    BY <1>2, <1>7 DEF Inserts
  <2>2. Loaded(rows, batch, q, id, 0)
    BY <1>1, <2>1 DEF Loaded, after
  <2>3. after[id] = None => q[b][id] = None
    BY <1>5, <1>7, <2>1
  <2> QED  BY <1>1, <2>2, <2>3 DEF after
<1> QED  BY <1>6, <1>7

\* Without merges that is all.
LEMMA InsertEnds ==
  ASSUME NEW rows \in Stores, NEW batch \in Seq(Record),
         NEW q, TakesBy("database", rows, batch, q), Distinct(batch),
         Unshadowed(rows, batch)
  PROVE  Insert(rows, batch) = q[Len(batch)]
<1> DEFINE b == Len(batch)
           after == Insert(rows, batch)
<1>1. b \in Nat /\ b \in 0..b /\ q[b] \in Stores
  <2>1. b \in Nat /\ \A k \in 0..b : q[k] \in Stores
    BY TakesIs
  <2> QED  BY <2>1
<1>2. after \in Stores
  BY InsertIs
<1>3. ASSUME NEW id \in Ids PROVE after[id] = q[b][id]
  <2>1. CASE after[id] = None
    BY <2>1, Loads
  <2>2. CASE after[id] # None
    <3>1. PICK k \in 0..b : Loaded(rows, batch, q, id, k)
      BY <2>2, Loads
    <3>2. q[k][id] = after[id]
      BY <3>1 DEF Loaded
    <3>3. b \in k..b /\ Idle("database", batch, q, k, b, id)
      BY <1>1 DEF Idle
    <3>4. q[b][id] = q[k][id]
      BY <2>2, <3>2, <3>3, Stays
    <3> QED  BY <3>2, <3>4
  <2> QED  BY <2>1, <2>2
<1> HIDE DEF after, b
<1>4. after = q[b]
  BY <1>1, <1>2, <1>3 DEF Stores
<1> QED  BY <1>4 DEF after, b

\* After some merges a row is as it is after some record, whose duplicates
\* are those that were merged.
Reached(rows, batch, q, s, r, j, id, k) ==
  /\ k \in 0..Len(batch) /\ r[j][id] = q[k][id] /\ q[k][id] # None
  /\ \A i \in Merging(rows, batch) :
       Key(batch[i].row) = Key(Insert(rows, batch)[id]) =>
         (i <= k <=> \E l \in 1..j : s[l] = i)
  /\ \A i \in 1..Len(batch) :
       i > k /\ Key(batch[i].row) = Key(Insert(rows, batch)[id])
         => i \in Merging(rows, batch)
  /\ Key(q[k][id]) = Key(Insert(rows, batch)[id])

\* The merges of a batch do to a row what its records do one by one.
LEMMA Merges ==
  ASSUME NEW mode, mode # "database", NEW rows \in Stores,
         NEW batch \in Seq(Record),
         NEW q, TakesBy(mode, rows, batch, q), Distinct(batch),
         Unshadowed(rows, batch),
         NEW s, Orders(rows, batch, s),
         NEW merging \in Seq(Record), Len(merging) <= Len(s),
         \A j \in 1..Len(merging) : merging[j] = batch[s[j]],
         NEW r, MergesBy(Insert(rows, batch), merging, r),
         NEW id \in Ids, Insert(rows, batch)[id] # None
  PROVE  \A j \in 0..Len(merging) :
           \E k \in 0..Len(batch) : Reached(rows, batch, q, s, r, j, id, k)
<1> DEFINE b == Len(batch)
           e == Len(merging)
           d == Len(s)
           after == Insert(rows, batch)
           Dup == Merging(rows, batch)
           Good(j) == \E k \in 0..b : Reached(rows, batch, q, s, r, j, id, k)
           S == {j \in 0..e : Good(j)}
<1>1. /\ b \in Nat /\ q[0] = rows
      /\ \A k \in 0..b : q[k] \in Stores
      /\ \A i \in 1..b : /\ batch[i] \in Record /\ batch[i].id \in Ids
                         /\ batch[i].row \in Row /\ i \in 0..b /\ i - 1 \in 0..b
                         /\ Takes(mode, q[i-1], batch[i], q[i])
  <2>1. b \in Nat /\ q[0] = rows
    BY LenProperties DEF TakesBy
  <2>3. \A k \in 0..b : q[k] \in Stores
    BY TakesIs
  <2>2. \A i \in 1..b : /\ batch[i] \in Record /\ batch[i].id \in Ids
                         /\ batch[i].row \in Row /\ i \in 0..b /\ i - 1 \in 0..b
                         /\ Takes(mode, q[i-1], batch[i], q[i])
    BY TakesIs
  <2> QED  BY <2>1, <2>2, <2>3
<1>2. e \in Nat /\ d \in Nat /\ \A j \in 1..d : s[j] \in 1..b
  BY LenProperties DEF Orders
<1>3. after \in Stores /\ \A j \in 0..e : r[j] \in Stores /\ r[0] = after
  <2>1. after \in Stores
    BY InsertIs
  <2> QED  BY <2>1 DEF MergesBy
<1>4. \A i \in Dup : i \in 1..b
  BY DEF Merging
<1>5. Good(0)
  <2>1. PICK k \in 0..b : Loaded(rows, batch, q, id, k)
    BY Loads
  <2>2. q[k][id] = after[id] /\ (k = 0 \/ (k \in New(rows, batch) /\ batch[k].id = id))
    BY <2>1 DEF Loaded
  <2>3. CASE k = 0
    <3>1. rows[id] # None /\ Key(rows[id]) = Key(after[id])
      BY <1>1, <2>2, <2>3
    <3>2. ASSUME NEW i \in 1..b, Key(batch[i].row) = Key(after[id])
          PROVE  i \in Dup
      <4>1. id \in Holder(rows, batch[i].row)
        BY <3>1, <3>2 DEF Holder, Present
      <4> QED  BY <4>1 DEF Merging
    <3>3. \A i \in Dup : ~(i <= k) /\ ~\E l \in 1..0 : s[l] = i
      BY <1>4, <2>3
    <3> HIDE DEF Dup
    <3>4. Reached(rows, batch, q, s, r, 0, id, k)
      BY <1>2, <1>3, <2>2, <3>2, <3>3 DEF Reached, Dup
    <3> QED  BY <3>4
  <2>4. CASE k # 0
    <3>1. /\ k \in 1..b /\ IsFirst(batch, k) /\ Holder(rows, batch[k].row) = {}
          /\ batch[k].id = id /\ k \in New(rows, batch)
      BY <2>2, <2>4 DEF New
    <3>2. after[id] = batch[k].row
      <4>1. Inserts(rows, batch, after)
        BY InsertIs
      <4> QED  BY <3>1, <4>1 DEF Inserts
    <3>3. DOMAIN batch = 1..b
      BY LenProperties
    <3>4. ASSUME NEW i \in 1..b, i > k, Key(batch[i].row) = Key(after[id])
          PROVE  i \in Dup
      <4>1. ~IsFirst(batch, i)
        BY <3>1, <3>2, <3>3, <3>4 DEF IsFirst
      <4> QED  BY <4>1 DEF Merging
    <3>5. ASSUME NEW i \in Dup, Key(batch[i].row) = Key(after[id])
          PROVE  ~(i <= k)
      <4>1. Holder(rows, batch[i].row) = Holder(rows, batch[k].row)
        BY <3>2, <3>5 DEF Holder
      <4>2. i \in 1..b /\ ~IsFirst(batch, i)
        BY <3>1, <4>1 DEF Merging
      <4>3. i # k
        BY <3>1, <4>2
      <4>4. ~(i < k)
        BY <3>1, <3>2, <3>3, <3>5, <4>2 DEF IsFirst
      <4> QED  BY <3>1, <4>2, <4>3, <4>4
    <3> HIDE DEF Dup
    <3>6. Reached(rows, batch, q, s, r, 0, id, k)
      BY <1>2, <1>3, <2>2, <3>4, <3>5 DEF Reached, Dup
    <3> QED  BY <3>6
  <2> QED  BY <2>3, <2>4
<1>6. ASSUME NEW j \in 1..e, j - 1 \in S PROVE j \in S
  <2>1. PICK k \in 0..b : Reached(rows, batch, q, s, r, j - 1, id, k)
    BY <1>6
  <2> DEFINE K == Key(after[id])
             i == s[j]
  <2>2. /\ r[j-1][id] = q[k][id] /\ q[k][id] # None /\ Key(q[k][id]) = K
        /\ \A m \in Dup : Key(batch[m].row) = K =>
             (m <= k <=> \E l \in 1..(j-1) : s[l] = m)
        /\ \A m \in 1..b : m > k /\ Key(batch[m].row) = K => m \in Dup
    BY <2>1 DEF Reached
  <2>3. /\ j \in 0..e /\ j - 1 \in 0..e /\ j \in 1..d /\ i \in 1..b
        /\ merging[j] = batch[i] /\ batch[i] \in Record /\ r[j-1] \in Stores
    BY <1>1, <1>2, <1>3
  <2>4. /\ r[j-1][id] # None /\ Key(r[j-1][id]) # Key(batch[i].row)
             => r[j][id] = r[j-1][id]
        /\ r[j-1][id] # None /\ Key(r[j-1][id]) = Key(batch[i].row)
             => r[j][id] = Join(r[j-1][id], batch[i])
    <3>1. r[j] = MergeInto(r[j-1], batch[i])
      BY <2>3 DEF MergesBy
    <3>2. /\ r[j-1][id] # None /\ Key(r[j-1][id]) # Key(batch[i].row)
               => MergeInto(r[j-1], batch[i])[id] = r[j-1][id]
          /\ r[j-1][id] # None /\ Key(r[j-1][id]) = Key(batch[i].row)
               => MergeInto(r[j-1], batch[i])[id] = Join(r[j-1][id], batch[i])
      BY <2>3, MergeIntoIs
    <3> QED  BY <3>1, <3>2
  <2>5. /\ i \in Dup
        /\ \A m \in Dup : \E l \in 1..d : s[l] = m
        /\ \A l, m \in 1..d :
             l < m /\ Key(batch[s[l]].row) = Key(batch[s[m]].row) => s[l] < s[m]
        /\ \A l, m \in 1..d : s[l] = s[m] => l = m
    BY <1>4, <2>3 DEF Orders
  <2>6. \A l \in 1..j : l = j \/ l \in 1..(j-1)
    BY <2>3, <1>2
  <2>7. \A l \in 1..(j-1) : l \in 1..j /\ l \in 1..d /\ l < j
    BY <2>3, <1>2
  <2> HIDE DEF K, i, Dup, after, b, e, d
  <2>8. CASE Key(batch[i].row) # K
    <3>1. r[j][id] = q[k][id]
      BY <2>2, <2>4, <2>8
    <3>2. ASSUME NEW m \in Dup, Key(batch[m].row) = K
          PROVE  m <= k <=> \E l \in 1..j : s[l] = m
      <4>1. (\E l \in 1..j : s[l] = m) <=> \E l \in 1..(j-1) : s[l] = m
        BY <2>6, <2>7, <2>8, <3>2 DEF i
      <4> QED  BY <2>2, <3>2, <4>1
    <3>3. Reached(rows, batch, q, s, r, j, id, k)
      BY <2>2, <3>1, <3>2 DEF Reached, K, after, Dup, b
    <3> QED  BY <2>3, <3>3
  <2>9. CASE Key(batch[i].row) = K
    <3>1. ~(i <= k)
      <4> SUFFICES ASSUME i <= k PROVE FALSE
        OBVIOUS
      <4>1. PICK l \in 1..(j-1) : s[l] = i
        BY <2>2, <2>5, <2>9
      <4> QED  BY <2>3, <2>5, <2>7, <4>1 DEF i
    <3>2. ASSUME NEW m \in Dup, Key(batch[m].row) = K, m < i
          PROVE  \E l \in 1..(j-1) : s[l] = m
      <4>1. PICK l \in 1..d : s[l] = m
        BY <2>5
      <4>2. l # j
        BY <1>1, <1>4, <2>3, <3>2, <4>1 DEF i
      <4>3. ~(j < l)
        <5> SUFFICES ASSUME j < l PROVE FALSE
          OBVIOUS
        <5>1. i < m
          BY <2>3, <2>5, <2>9, <3>2, <4>1 DEF i
        <5> QED  BY <1>1, <1>4, <2>3, <3>2, <5>1
      <4>4. l \in 1..(j-1)
        BY <1>2, <2>3, <4>2, <4>3
      <4> QED  BY <4>1, <4>4
    <3>3. q[i-1][id] = q[k][id]
      <4>1. i - 1 \in k..b
        BY <1>1, <2>3, <3>1
      <4>2. Idle(mode, batch, q, k, i - 1, id)
        <5> SUFFICES ASSUME NEW m \in 1..b, k < m, m <= i - 1, Key(batch[m].row) = K
                     PROVE  FALSE
          BY <2>2 DEF Idle, b
        <5>1. m \in Dup /\ m < i
          <6>1. m \in Dup
            <7>1. m > k
              BY <1>1
            <7> QED  BY <2>2, <7>1
          <6>2. m \in Int /\ i \in Int
            BY <1>1, <2>3
          <6> QED  BY <6>1, <6>2
        <5>2. m <= k
          BY <2>2, <3>2, <5>1
        <5> QED  BY <1>1, <5>2
      <4> QED  BY <2>2, <4>1, <4>2, Stays DEF b
    <3>4. q[i][id] = Join(q[k][id], batch[i])
      BY <1>1, <2>2, <2>3, <2>9, <3>3 DEF Takes
    <3>5. r[j][id] = q[i][id]
      BY <2>2, <2>4, <2>9, <3>4
    <3>6. q[i][id] # None /\ Key(q[i][id]) = K
      <4>1. q[k][id] \in Row
        BY <1>1, <2>2 DEF Stores
      <4>2. Join(q[k][id], batch[i]) \in Row
            /\ Key(Join(q[k][id], batch[i])) = Key(q[k][id])
        BY <2>3, <4>1, JoinIs
      <4> QED  BY <2>2, <3>4, <4>2, AnnotationsAssumption
    <3>7. ASSUME NEW m \in Dup, Key(batch[m].row) = K
          PROVE  m <= i <=> \E l \in 1..j : s[l] = m
      <4>1. ASSUME m <= i PROVE \E l \in 1..j : s[l] = m
        <5>1. CASE m = i
          BY <2>3, <5>1, j \in 1..j DEF i
        <5>2. CASE m < i
          BY <2>7, <3>2, <3>7, <5>2
        <5> QED  BY <1>1, <1>4, <2>3, <4>1, <5>1, <5>2
      <4>2. ASSUME NEW l \in 1..j, s[l] = m PROVE m <= i
        <5>1. CASE l = j
          BY <1>1, <2>3, <4>2, <5>1 DEF i
        <5>2. CASE l \in 1..(j-1)
          <6>1. s[l] < s[j]
            BY <2>3, <2>5, <2>7, <2>9, <3>7, <4>2, <5>2 DEF i
          <6> QED  BY <1>1, <1>4, <2>3, <4>2, <6>1 DEF i
        <5> QED  BY <2>6, <5>1, <5>2
      <4> QED  BY <4>1, <4>2
    <3>8. \A m \in 1..b : m > i /\ Key(batch[m].row) = K => m \in Dup
      BY <1>1, <2>2, <2>3, <3>1
    <3>9. Reached(rows, batch, q, s, r, j, id, i)
      <4>1. i \in 0..b
        BY <1>1, <2>3
      <4> QED  BY <3>5, <3>6, <3>7, <3>8, <4>1 DEF Reached, K, after, Dup, b
    <3>10. i \in 0..b
      BY <1>1, <2>3
    <3> QED  BY <2>3, <3>9, <3>10
  <2> QED  BY <2>8, <2>9
<1>7. 0..e \subseteq S
  <2>1. 0 \in S
    BY <1>2, <1>5
  <2> HIDE DEF S
  <2> QED  BY <1>2, <1>6, <2>1, UpTo
<1>8. \A j \in 0..e : Good(j)
  BY <1>7
<1> QED  BY <1>8

\* A flush does what its records do one by one.
LEMMA FlushEnds ==
  ASSUME NEW mode, NEW rows \in Stores, NEW batch \in Seq(Record),
         NEW q, TakesBy(mode, rows, batch, q), Distinct(batch),
         Unshadowed(rows, batch)
  PROVE  Flush(mode, rows, batch) = q[Len(batch)]
<1> DEFINE b == Len(batch)
           after == Insert(rows, batch)
           dups == Duplicates(rows, batch)
<1>1. b \in Nat /\ b \in 0..b /\ q[b] \in Stores
  <2>1. b \in Nat /\ \A k \in 0..b : q[k] \in Stores
    BY TakesIs
  <2> QED  BY <2>1
<1>2. after \in Stores
  BY InsertIs
<1>3. CASE mode = "database"
  <2>1. Flush(mode, rows, batch) = after
    BY <1>3 DEF Flush
  <2>2. TakesBy("database", rows, batch, q)
    BY <1>3
  <2> QED  BY <2>1, <2>2, InsertEnds
<1>4. CASE mode # "database"
  <2>1. PICK s : /\ Orders(rows, batch, s) /\ dups \in Seq(Record)
                 /\ Len(dups) = Len(s)
                 /\ \A j \in 1..Len(s) : dups[j] = batch[s[j]]
    BY DuplicatesAre
  <2>2. PICK r : MergesBy(after, dups, r) /\ MergeAll(after, dups) = r[Len(dups)]
    BY <1>2, <2>1, MergeAllSteps
  <2>3. Len(dups) \in Nat /\ Len(dups) <= Len(s) /\ Len(dups) \in 0..Len(dups)
    BY <2>1, LenProperties
  <2>4. ASSUME NEW id \in Ids PROVE r[Len(dups)][id] = q[b][id]
    <3>1. CASE after[id] = None
      <4>1. q[b][id] = None
        BY <3>1, Loads
      <4>2. r[Len(dups)][id] = None
        BY <1>2, <2>1, <2>2, <2>3, <3>1, MergesRetain
      <4> QED  BY <4>1, <4>2
    <3>2. CASE after[id] # None
      <4>1. \A j \in 0..Len(dups) :
              \E k \in 0..b : Reached(rows, batch, q, s, r, j, id, k)
        BY <1>4, <2>1, <2>2, <2>3, <3>2, Merges
      <4>2. PICK k \in 0..b : Reached(rows, batch, q, s, r, Len(dups), id, k)
        BY <2>3, <4>1
      <4>3. /\ r[Len(dups)][id] = q[k][id] /\ q[k][id] # None
            /\ \A i \in Merging(rows, batch) :
                 Key(batch[i].row) = Key(after[id]) =>
                   (i <= k <=> \E l \in 1..Len(dups) : s[l] = i)
            /\ \A i \in 1..b : i > k /\ Key(batch[i].row) = Key(after[id])
                                 => i \in Merging(rows, batch)
            /\ Key(q[k][id]) = Key(after[id])
        BY <4>2 DEF Reached
      <4>4. Idle(mode, batch, q, k, b, id)
        <5> SUFFICES ASSUME NEW i \in 1..b, k < i, Key(batch[i].row) = Key(after[id])
                     PROVE  FALSE
          BY <4>3 DEF Idle
        <5>1. i \in Merging(rows, batch)
          BY <1>1, <4>3
        <5>2. \E l \in 1..Len(dups) : s[l] = i
          BY <2>1, <5>1 DEF Orders
        <5>3. i <= k
          BY <4>3, <5>1, <5>2
        <5> QED  BY <1>1, <5>3
      <4>5. b \in k..b
        BY <1>1
      <4>6. q[b][id] = q[k][id]
        BY <4>3, <4>4, <4>5, Stays
      <4> QED  BY <4>3, <4>6
    <3> QED  BY <3>1, <3>2
  <2>5. r[Len(dups)] \in Stores
    BY <1>2, <2>1, <2>2, <2>3, MergesRetain
  <2> HIDE DEF after, dups, b
  <2>6. r[Len(dups)] = q[b]
    BY <1>1, <2>4, <2>5 DEF Stores
  <2>7. Flush(mode, rows, batch) = MergeAll(after, dups)
    BY <1>4 DEF Flush, after, dups
  <2> QED  BY <2>2, <2>6, <2>7 DEF b
<1> QED  BY <1>3, <1>4

\* A flush keeps what the store has,
LEMMA FlushRetains ==
  ASSUME NEW mode, NEW rows \in Stores, NEW batch \in Seq(Record), Distinct(batch)
  PROVE  Flush(mode, rows, batch) \in Stores /\ Retains(rows, Flush(mode, rows, batch))
<1> DEFINE after == Insert(rows, batch)
           dups == Duplicates(rows, batch)
<1>1. after \in Stores /\ Retains(rows, after)
  BY InsertIs
<1>2. dups \in Seq(Record)
  BY DuplicatesAre
<1>3. PICK r : MergesBy(after, dups, r) /\ MergeAll(after, dups) = r[Len(dups)]
  BY <1>1, <1>2, MergeAllSteps
<1>4. r[Len(dups)] \in Stores /\ Retains(after, r[Len(dups)])
  <2>1. Len(dups) \in 0..Len(dups)
    BY <1>2, LenProperties
  <2> QED  BY <1>1, <1>2, <1>3, <2>1, MergesRetain
<1>5. Retains(rows, r[Len(dups)])
  BY <1>1, <1>4, RetainsTransitive
<1>6. Flush(mode, rows, batch) = after \/ Flush(mode, rows, batch) = MergeAll(after, dups)
  BY DEF Flush
<1> HIDE DEF after, dups
<1> QED  BY <1>1, <1>3, <1>4, <1>5, <1>6

\* and so does one that is cut off.  Each row is then as it is after some of
\* the records.
LEMMA CutOffIs ==
  ASSUME NEW mode, NEW rows \in Stores, NEW batch \in Seq(Record), Distinct(batch),
         NEW later \in CutOff(mode, rows, batch)
  PROVE  /\ later \in Stores /\ Retains(rows, later)
         /\ \A q : TakesBy(mode, rows, batch, q) /\ Unshadowed(rows, batch)
                     => Among(later, Len(batch), q)
<1> DEFINE after == Insert(rows, batch)
           dups == Duplicates(rows, batch)
           b == Len(batch)
<1>1. CASE mode # "plain"
  <2>1. later = rows
    BY <1>1 DEF CutOff
  <2>2. Retains(rows, rows)
    BY DEF Retains
  <2>3. ASSUME NEW q, TakesBy(mode, rows, batch, q) PROVE Among(rows, b, q)
    <3>1. q[0] = rows /\ b \in Nat
      BY <2>3, TakesIs
    <3>2. 0 \in 0..b
      BY <3>1
    <3> QED  BY <3>1, <3>2 DEF Among
  <2> QED  BY <2>1, <2>2, <2>3
<1>2. CASE mode = "plain"
  <2>1. PICK e \in 0..Len(dups) : later = MergeAll(after, SubSeq(dups, 1, e))
    BY <1>2 DEF CutOff
  <2>2. after \in Stores /\ Retains(rows, after)
    BY InsertIs
  <2>3. PICK s : /\ Orders(rows, batch, s) /\ dups \in Seq(Record)
                 /\ Len(dups) = Len(s)
                 /\ \A j \in 1..Len(s) : dups[j] = batch[s[j]]
    BY DuplicatesAre
  <2> DEFINE merging == SubSeq(dups, 1, e)
  <2>4. /\ merging \in Seq(Record) /\ Len(merging) = e /\ e \in Nat /\ e <= Len(s)
        /\ \A j \in 1..e : merging[j] = dups[j]
    <3>1. Len(dups) \in Nat
      BY <2>3, LenProperties
    <3> HIDE DEF dups
    <3>2. e \in Nat /\ e <= Len(dups) /\ \A j \in 1..e : 1 + j - 1 = j
      BY <3>1
    <3>3. \A i \in 1..e : dups[i] \in Record
      BY <2>3, <3>1, <3>2, LenProperties
    <3> QED  BY <2>3, <3>1, <3>2, <3>3
  <2>5. \A j \in 1..Len(merging) : merging[j] = batch[s[j]]
    BY <2>3, <2>4
  <2> HIDE DEF merging, dups, after, b
  <2>6. PICK r : MergesBy(after, merging, r) /\ MergeAll(after, merging) = r[Len(merging)]
    BY <2>2, <2>4, MergeAllSteps
  <2>7. later = r[e]
    BY <2>1, <2>4, <2>6 DEF merging
  <2>8. e \in 0..Len(merging)
    BY <2>4
  <2>9. /\ r[e] \in Stores /\ Retains(after, r[e])
        /\ \A id \in Ids : after[id] = None => r[e][id] = None
    BY <2>2, <2>4, <2>6, <2>8, MergesRetain
  <2>10. Retains(rows, r[e])
    BY <2>2, <2>9, RetainsTransitive
  <2>11. ASSUME NEW q, TakesBy(mode, rows, batch, q), Unshadowed(rows, batch)
         PROVE  Among(later, b, q)
    <3> SUFFICES ASSUME NEW id \in Ids PROVE \E k \in 0..b : later[id] = q[k][id]
      BY DEF Among
    <3>1. CASE after[id] = None
      <4>1. q[b][id] = None
        BY <2>11, <3>1, Loads DEF b, after
      <4>2. b \in 0..b
        <5>1. b \in Nat
          BY LenProperties DEF b
        <5> QED  BY <5>1
      <4> QED  BY <2>7, <2>9, <3>1, <4>1, <4>2
    <3>2. CASE after[id] # None
      <4>1. mode # "database"
        BY <1>2
      <4>2. \A j \in 0..Len(merging) :
              \E k \in 0..b : Reached(rows, batch, q, s, r, j, id, k)
        BY <2>3, <2>4, <2>5, <2>6, <2>11, <3>2, <4>1, Merges DEF b, after
      <4>3. PICK k \in 0..b : Reached(rows, batch, q, s, r, e, id, k)
        BY <2>8, <4>2
      <4> QED  BY <2>7, <4>3 DEF Reached
    <3> QED  BY <3>1, <3>2
  <2> QED  BY <2>7, <2>9, <2>10, <2>11 DEF b
<1> QED  BY <1>1, <1>2

\* A batch is the beginning of what is left.
LEMMA NextBatchIs ==
  ASSUME NEW mode, NEW records \in Seq(Record), records # <<>>, NEW n
  PROVE  \E k \in 1..Len(records) :
           NextBatch(mode, records, n) = SubSeq(records, 1, k)
<1> DEFINE Counts(i) == mode = "database" \/ IsFirst(records, i)
           Full(k)   == Cardinality({i \in 1 .. k : Counts(i)}) = n
           ends      == {k \in DOMAIN records : Full(k)} \cup {Len(records)}
           end       == CHOOSE k \in ends : \A j \in ends : k <= j
<1>1. /\ DOMAIN records = 1..Len(records) /\ Len(records) \in Nat
      /\ Len(records) # 0
  BY LenProperties, EmptySeq
<1>2. NextBatch(mode, records, n) = SubSeq(records, 1, end)
  BY DEF NextBatch
<1>3. ends \subseteq 1..Len(records) /\ ends # {}
  <2> HIDE DEF Full
  <2> QED  BY <1>1
<1> HIDE DEF ends
<1>4. \E k \in ends : \A j \in ends : k <= j
  <2>1. ends \in SUBSET Nat
    BY <1>1, <1>3
  <2> QED  BY <1>3, <2>1, LeastOf
<1>5. end \in ends
  BY <1>4
<1> HIDE DEF end
<1> QED  BY <1>2, <1>3, <1>5

\* What is left of some records after m of them.
Remains(m, records, left) ==
  /\ m \in 0..Len(records) /\ left \in Seq(Record)
  /\ Len(left) = Len(records) - m
  /\ \A i \in 1..Len(left) : left[i] = records[m + i]

\* A batch of what is left, and what is left after it.
LEMMA RemainsAfter ==
  ASSUME NEW records \in Seq(Record), NEW m, NEW left, Remains(m, records, left),
         left # <<>>, NEW k \in 1..Len(left)
  PROVE  /\ SubSeq(left, 1, k) \in Seq(Record) /\ Len(SubSeq(left, 1, k)) = k
         /\ m + k \in 0..Len(records)
         /\ \A i \in 1..k : SubSeq(left, 1, k)[i] = records[m + i]
         /\ Remains(m + k, records, SubSeq(left, k + 1, Len(left)))
<1>1. /\ Len(records) \in Nat /\ Len(left) \in Nat /\ m \in Nat /\ k \in Nat
      /\ m + Len(left) = Len(records) /\ k <= Len(left)
      /\ \A i \in 1..Len(left) : left[i] \in Record
  BY LenProperties DEF Remains
<1> DEFINE batch == SubSeq(left, 1, k)
           rest == SubSeq(left, k + 1, Len(left))
<1>2. batch \in Seq(Record) /\ Len(batch) = k /\ \A i \in 1..k : batch[i] = left[i]
  BY <1>1 DEF Remains
<1>3. rest \in Seq(Record) /\ Len(rest) = Len(left) - k
      /\ \A i \in 1..(Len(left) - k) : rest[i] = left[k + i]
  <2>1. rest \in Seq(Record)
    <3>1. \A i \in k+1..Len(left) : left[i] \in Record
      BY <1>1
    <3> QED  BY <1>1, <3>1, SubSeqProperties DEF Remains
  <2>2. Len(rest) = Len(left) - k
    BY <1>1
  <2>3. \A i \in 1..(Len(left) - k) : rest[i] = left[k + i]
    BY <1>1
  <2> QED  BY <2>1, <2>2, <2>3
<1> HIDE DEF batch, rest
<1>4. m + k \in 0..Len(records)
  BY <1>1
<1>5. \A i \in 1..k : batch[i] = records[m + i]
  <2>1. \A i \in 1..k : i \in 1..Len(left)
    BY <1>1
  <2> QED  BY <1>2, <2>1 DEF Remains
<1>6. Remains(m + k, records, rest)
  <2>1. Len(rest) = Len(records) - (m + k)
    BY <1>1, <1>3
  <2>2. ASSUME NEW i \in 1..Len(rest) PROVE rest[i] = records[(m + k) + i]
    <3>1. k + i \in 1..Len(left) /\ i \in 1..(Len(left) - k)
      BY <1>1, <1>3
    <3>2. left[k + i] = records[m + (k + i)]
      BY <3>1 DEF Remains
    <3>3. m + (k + i) = (m + k) + i
      BY <1>1
    <3> QED  BY <1>3, <3>1, <3>2, <3>3
  <2> QED  BY <1>3, <1>4, <2>1, <2>2 DEF Remains
<1> QED  BY <1>2, <1>4, <1>5, <1>6 DEF batch, rest

\* A part of the records goes through a part of the steps.
Part(mode, p, m, batch) ==
  \E q : /\ TakesBy(mode, p[m], batch, q)
         /\ Distinct(batch) /\ Unshadowed(p[m], batch)
         /\ \A k \in 0..Len(batch) : q[k] = p[m + k]

\* The steps of a part of the records, from where it begins, are steps of
\* all of them; distinct ids and no shadow hold of the part as well.
LEMMA PartOf ==
  ASSUME NEW mode, NEW rows \in Stores, NEW records \in Seq(Record),
         NEW p, TakesBy(mode, rows, records, p), Distinct(records),
         Unshadowed(rows, records),
         NEW m \in 0..Len(records), NEW batch \in Seq(Record),
         m + Len(batch) \in 0..Len(records),
         \A i \in 1..Len(batch) : batch[i] = records[m + i]
  PROVE  Part(mode, p, m, batch)
<1> DEFINE n == Len(records)
           b == Len(batch)
           q == [k \in 0..b |-> p[m + k]]
<1>1. n \in Nat /\ b \in Nat /\ m \in Nat
  BY LenProperties
<1>2. /\ \A k \in 0..b : m + k \in 0..n
      /\ \A i \in 1..b : m + i \in 1..n /\ (m + i) - 1 = m + (i - 1) /\ i - 1 \in 0..b
  BY <1>1
<1>3. TakesBy(mode, p[m], batch, q)
  <2>1. q \in [0..b -> Stores]
    BY <1>2 DEF TakesBy
  <2>2. q[0] = p[m]
    BY <1>1
  <2>3. ASSUME NEW i \in 1..b PROVE q[i] = One(mode, q[i-1], batch[i])
    <3>1. p[m + i] = One(mode, p[(m + i) - 1], records[m + i])
      BY <1>2 DEF TakesBy
    <3>2. q[i] = p[m + i] /\ q[i-1] = p[m + (i - 1)]
      BY <1>1, <1>2
    <3>3. (m + i) - 1 = m + (i - 1) /\ batch[i] = records[m + i]
      BY <1>2
    <3> HIDE DEF q
    <3> QED  BY <3>1, <3>2, <3>3
  <2> HIDE DEF q
  <2> QED  BY <2>1, <2>2, <2>3 DEF TakesBy
<1>4. Distinct(batch)
  <2> SUFFICES ASSUME NEW i \in 1..b, NEW j \in 1..b, batch[i].id = batch[j].id
               PROVE  i = j
    BY DEF Distinct
  <2>0. /\ records[m + i].id = records[m + j].id
        /\ m + i \in 1..Len(records) /\ m + j \in 1..Len(records)
    BY <1>2
  <2>1. m + i = m + j
    BY <2>0 DEF Distinct
  <2> QED  BY <1>1, <2>1
<1>5. Unshadowed(p[m], batch)
  <2> SUFFICES ASSUME NEW k \in 1..b, NEW l \in 1..b, k < l,
                      Key(batch[k].row) = Key(batch[l].row)
               PROVE  p[m][batch[k].id] = None
    BY DEF Unshadowed
  <2>1. /\ m + k < m + l /\ m + k \in 1..n /\ m + l \in 1..n
        /\ batch[k] = records[m + k] /\ batch[l] = records[m + l]
        /\ m \in 0..((m + k) - 1)
    BY <1>1, <1>2
  <2>2. rows[records[m + k].id] = None
    BY <2>1 DEF Unshadowed
  <2>3. Own(rows, records, p, m + k)
    BY <2>1, OwnId
  <2>4. p[m][records[m + k].id] = None
    BY <2>1, <2>2, <2>3 DEF Own
  <2> QED  BY <2>1, <2>4
<1>6. \A k \in 0..b : q[k] = p[m + k]
  OBVIOUS
<1> HIDE DEF q
<1> QED  BY <1>3, <1>4, <1>5, <1>6 DEF Part

\* InOrder of the first m records is the m-th step.
LEMMA InOrderOf ==
  ASSUME NEW mode, NEW rows \in Stores, NEW records \in Seq(Record),
         NEW p, TakesBy(mode, rows, records, p), NEW m \in 0..Len(records)
  PROVE  InOrder(mode, rows, SubSeq(records, 1, m)) = p[m]
<1> DEFINE first == SubSeq(records, 1, m)
<1>1. Len(records) \in Nat /\ m \in Nat /\ m <= Len(records)
      /\ \A i \in 1..m : records[i] \in Record /\ i \in 1..Len(records)
  BY LenProperties
<1>2. first \in Seq(Record) /\ Len(first) = m /\ \A i \in 1..m : first[i] = records[i]
  BY <1>1
<1> HIDE DEF first
<1>3. PICK t : TakesBy(mode, rows, first, t) /\ InOrder(mode, rows, first) = t[Len(first)]
  BY <1>2, InOrderSteps
<1> DEFINE S == {k \in 0..m : t[k] = p[k]}
<1>4. 0 \in S
  BY <1>1, <1>3 DEF TakesBy
<1>5. ASSUME NEW k \in 1..m, k - 1 \in S PROVE k \in S
  <2>1. t[k] = One(mode, t[k-1], first[k])
    BY <1>2, <1>3 DEF TakesBy
  <2>2. p[k] = One(mode, p[k-1], records[k])
    BY <1>1 DEF TakesBy
  <2>3. first[k] = records[k] /\ t[k-1] = p[k-1] /\ k \in 0..m
    BY <1>1, <1>2, <1>5
  <2> QED  BY <2>1, <2>2, <2>3
<1>6. 0..m \subseteq S
  <2> HIDE DEF S
  <2> QED  BY <1>1, <1>4, <1>5, UpTo
<1>7. t[m] = p[m]
  BY <1>1, <1>6
<1> QED  BY <1>2, <1>3, <1>7 DEF first

\* What is imported is records, each under an id of its own.
LEMMA AcceptedIs ==
  ASSUME NEW mode, NEW rows, NEW file \in Files, NEW ns \in Namespaces \cup {None}
  PROVE  /\ Accepted(mode, rows, file, ns) \in Seq(Record)
         /\ Distinct(Accepted(mode, rows, file, ns))
<1> DEFINE n == Len(file)
           placed == [i \in DOMAIN file |-> Placed(file[i], ns)]
           known  == Known(mode, rows, file)
           Fit(record) == Sound(record.row) /\ Valid(record.row, known)
           places == {i \in DOMAIN file : Fit(placed[i])}
           fit == Picked(placed, places)
<1>1. /\ file \in Seq(Record) /\ DOMAIN file = 1..n /\ n \in Nat
      /\ \A i \in 1..n : file[i] \in Record
      /\ \A i, j \in 1..n : file[i].id = file[j].id => i = j
  <2>1. file \in Seq(Record)
    BY AnnotationsAssumption
  <2>2. DOMAIN file = 1..n /\ n \in Nat /\ \A i \in 1..n : file[i] \in Record
    BY <2>1, LenProperties
  <2>3. \A i, j \in DOMAIN file : file[i].id = file[j].id => i = j
    BY AnnotationsAssumption
  <2> QED  BY <2>1, <2>2, <2>3
<1>2. \A record \in Record : Placed(record, ns) \in Record
                             /\ Placed(record, ns).id = record.id
  BY DEF Placed, Record, Row
<1>3. \A row \in Row : Copied(row) \in Row /\ Normalized(row) \in Row
  BY DEF Copied, Normalized, Row, Column
<1>4. placed \in Seq(Record) /\ Len(placed) = n /\ DOMAIN placed = 1..n
      /\ \A i, j \in 1..n : placed[i].id = placed[j].id => i = j
  <2>1. /\ placed \in [1..n -> Record]
        /\ \A i \in 1..n : placed[i].id = file[i].id
    BY <1>1, <1>2
  <2>2. placed \in Seq(Record)
    BY <1>1, <2>1, SeqDef
  <2> HIDE DEF placed
  <2>3. Len(placed) = n /\ DOMAIN placed = 1..n
    BY <1>1, <2>1, <2>2, LenProperties
  <2> QED  BY <1>1, <2>1, <2>2, <2>3
<1> HIDE DEF placed, places
<1>5. CASE mode = "database"
  <2> DEFINE copied == [i \in DOMAIN placed |-> [placed[i] EXCEPT !.row = Copied(@)]]
  <2>1. Accepted(mode, rows, file, ns) = copied
    BY <1>5 DEF Accepted, placed
  <2>2. \A i \in 1..n : placed[i] \in Record
    BY <1>4, LenProperties
  <2>3. copied \in [1..n -> Record] /\ \A i \in 1..n : copied[i].id = placed[i].id
    BY <1>3, <1>4, <2>2 DEF Record
  <2> HIDE DEF copied
  <2>4. copied \in Seq(Record)
    BY <1>1, <2>3, SeqDef
  <2>5. Len(copied) = n
    BY <1>1, <2>3, <2>4, LenProperties
  <2>6. Distinct(copied)
    BY <1>4, <2>3, <2>5 DEF Distinct
  <2> QED  BY <2>1, <2>4, <2>6
<1>6. CASE mode # "database"
  <2> DEFINE normal == [i \in DOMAIN fit |-> [fit[i] EXCEPT !.row = Normalized(@)]]
  <2>1. Accepted(mode, rows, file, ns) = normal
    BY <1>6 DEF Accepted, placed, places
  <2>2. PICK h : /\ Lists(h, n, places) /\ fit \in Seq(Record) /\ Len(fit) = Len(h)
                 /\ \A j \in 1..Len(h) : fit[j] = placed[h[j]]
    BY <1>4, PickedIs
  <2> HIDE DEF fit
  <2>3. /\ Len(fit) \in Nat /\ DOMAIN fit = 1..Len(fit)
        /\ \A j \in 1..Len(fit) : fit[j] \in Record
    BY <2>2, LenProperties
  <2>4. \A j \in 1..Len(h) : h[j] \in 1..n
    BY <2>2, LenProperties DEF Lists
  <2>5. ASSUME NEW i \in 1..Len(fit), NEW j \in 1..Len(fit), fit[i].id = fit[j].id
        PROVE  i = j
    <3>1. h[i] = h[j]
      BY <1>4, <2>2, <2>4, <2>5
    <3>2. ~(i < j) /\ ~(j < i)
      BY <1>1, <2>2, <2>4, <3>1 DEF Lists
    <3> QED  BY <2>3, <3>2
  <2>6. /\ normal \in [1..Len(fit) -> Record]
        /\ \A j \in 1..Len(fit) : normal[j].id = fit[j].id
    BY <1>3, <2>3 DEF Record
  <2> HIDE DEF normal
  <2>7. normal \in Seq(Record)
    BY <2>3, <2>6, SeqDef
  <2>8. Len(normal) = Len(fit)
    BY <2>3, <2>6, <2>7, LenProperties
  <2>9. Distinct(normal)
    BY <2>5, <2>6, <2>8 DEF Distinct
  <2> QED  BY <2>1, <2>7, <2>9
<1> QED  BY <1>5, <1>6

-----------------------------------------------------------------------------
(* The inductive invariant.                                                *)

Imports == [mode : Modes, size : BatchSizes, left : Seq(Record), staged : Stores,
            from : Stores, all : Seq(Record)]

\* How many of its records an import has flushed.
Done == Len(import.all) - Len(import.left)

\* The records that are left are the last ones, and what the import has made
\* of the store so far is what the ones before them make of it in their
\* order.
InStep ==
  /\ Remains(Done, import.all, import.left)
  /\ Unshadowed(import.from, import.all) =>
       import.staged = InOrder(import.mode, import.from,
                               SubSeq(import.all, 1, Done))

\* A transaction leaves the store as it was, others commit what they made.
Committed(mode, rows, from, staged) ==
  (mode = "whole" => rows = from) /\ (mode # "whole" => rows = staged)

ImportInvariant ==
  /\ store \in Stores
  /\ import # None =>
       /\ import \in Imports /\ Distinct(import.all) /\ InStep
       /\ Retains(import.from, import.staged)
       /\ Committed(import.mode, store, import.from, import.staged)

\* Shadowed, of the records of an import.
LEMMA ShadowedIs ==
  ASSUME import \in Imports
  PROVE  ~Shadowed <=> Unshadowed(import.from, import.all)
<1>1. DOMAIN import.all = 1..Len(import.all)
  BY LenProperties DEF Imports
<1> QED  BY <1>1 DEF Shadowed, Unshadowed

\* What a flush of the next batch does, from the steps of the records.
Flushed(batch, after, k) ==
  /\ batch \in Seq(Record) /\ Len(batch) = k /\ k \in 1..Len(import.left)
  /\ Distinct(batch) /\ Done + k \in 0..Len(import.all)
  /\ \A i \in 1..k : batch[i] = import.all[Done + i]
  /\ Remains(Done + k, import.all, SubSeq(import.left, k + 1, Len(import.left)))
  /\ after \in Stores /\ Retains(import.staged, after)
  /\ Unshadowed(import.from, import.all) =>
       after = InOrder(import.mode, import.from, SubSeq(import.all, 1, Done + k))

\* The next batch brings the import to a later step.
LEMMA FlushSteps ==
  ASSUME ImportInvariant, import # None, import.left # <<>>
  PROVE  LET batch == NextBatch(import.mode, import.left, import.size)
             after == Flush(import.mode, import.staged, batch)
         IN  \E k \in 1..Len(import.left) : Flushed(batch, after, k)
<1> DEFINE batch == NextBatch(import.mode, import.left, import.size)
           after == Flush(import.mode, import.staged, batch)
           all == import.all
           left == import.left
           m == Done
<1>1. /\ all \in Seq(Record) /\ left \in Seq(Record) /\ import.staged \in Stores
      /\ import.from \in Stores /\ Distinct(all) /\ Remains(m, all, left)
      /\ Unshadowed(import.from, all) =>
           import.staged = InOrder(import.mode, import.from, SubSeq(all, 1, m))
  BY DEF ImportInvariant, InStep, Imports
<1>2. PICK k \in 1..Len(left) : batch = SubSeq(left, 1, k)
  BY <1>1, NextBatchIs
<1> HIDE DEF batch, all, left, m
<1>3. /\ batch \in Seq(Record) /\ Len(batch) = k
      /\ m + k \in 0..Len(all)
      /\ \A i \in 1..k : batch[i] = all[m + i]
      /\ Remains(m + k, all, SubSeq(left, k + 1, Len(left)))
  <2>1. left # <<>>
    BY DEF left
  <2> QED  BY <1>1, <1>2, <2>1, RemainsAfter
<1>4. m \in 0..Len(all) /\ k \in Nat
  BY <1>1, <1>2 DEF Remains
<1>5. PICK p : TakesBy(import.mode, import.from, all, p)
  BY <1>1, InOrderSteps
<1>6. Distinct(batch)
  <2> SUFFICES ASSUME NEW i \in 1..k, NEW j \in 1..k, batch[i].id = batch[j].id
               PROVE  i = j
    BY <1>3 DEF Distinct
  <2>0. Len(all) \in Nat
    BY <1>1, LenProperties
  <2>1. /\ all[m + i].id = all[m + j].id
        /\ m + i \in 1..Len(all) /\ m + j \in 1..Len(all)
    BY <1>3, <1>4, <2>0
  <2>2. m + i = m + j
    BY <1>1, <2>1 DEF Distinct
  <2> QED  BY <1>4, <2>2
<1>7. after \in Stores /\ Retains(import.staged, after)
  BY <1>1, <1>3, <1>6, FlushRetains
<1>8. ASSUME Unshadowed(import.from, all)
      PROVE  after = InOrder(import.mode, import.from, SubSeq(all, 1, m + k))
  <2>1. import.staged = p[m]
    BY <1>1, <1>4, <1>5, <1>8, InOrderOf
  <2>9. Part(import.mode, p, m, batch)
    <3>1. /\ m + Len(batch) \in 0..Len(all) /\ import.from \in Stores
          /\ \A i \in 1..Len(batch) : batch[i] = all[m + i]
      BY <1>1, <1>3
    <3> QED  BY <1>1, <1>3, <1>4, <1>5, <1>8, <3>1, PartOf
  <2>2. PICK q : /\ TakesBy(import.mode, p[m], batch, q)
                 /\ Unshadowed(p[m], batch)
                 /\ \A i \in 0..Len(batch) : q[i] = p[m + i]
    BY <2>9 DEF Part
  <2>3. after = q[k]
    BY <1>1, <1>3, <1>6, <2>1, <2>2, FlushEnds
  <2>4. q[k] = p[m + k]
    BY <1>3, <1>4, <2>2
  <2>5. InOrder(import.mode, import.from, SubSeq(all, 1, m + k)) = p[m + k]
    BY <1>1, <1>3, <1>5, InOrderOf
  <2> QED  BY <2>3, <2>4, <2>5
<1> HIDE DEF after
<1>9. Flushed(batch, after, k)
  BY <1>2, <1>3, <1>6, <1>7, <1>8 DEF Flushed, all, left, m
<1>10. k \in 1..Len(import.left)
  BY <1>2 DEF left
<1> QED  BY <1>9, <1>10 DEF batch, after

\* It holds at first.
LEMMA InvariantInit == Init => ImportInvariant
BY DEF Init, ImportInvariant, Stores

\* The store of a committed flush, and what is left of the import.
LEMMA FlushKeeps ==
  ASSUME ImportInvariant, FlushBatch
  PROVE  /\ ImportInvariant' /\ import'.from = import.from
         /\ import'.all = import.all /\ import'.mode = import.mode
<1> DEFINE batch == NextBatch(import.mode, import.left, import.size)
           after == Flush(import.mode, import.staged, batch)
<1>1. import # None /\ import.left # <<>> /\ import \in Imports
      /\ Distinct(import.all) /\ Retains(import.from, import.staged)
      /\ Committed(import.mode, store, import.from, import.staged)
      /\ store \in Stores /\ import.from \in Stores /\ import.all \in Seq(Record)
      /\ import.left \in Seq(Record)
  <2>1. import # None /\ import.left # <<>>
    BY DEF FlushBatch
  <2>2. /\ import \in Imports /\ Distinct(import.all)
        /\ Retains(import.from, import.staged) /\ store \in Stores
        /\ Committed(import.mode, store, import.from, import.staged)
    BY <2>1 DEF ImportInvariant
  <2>3. /\ import.from \in Stores /\ import.all \in Seq(Record)
        /\ import.left \in Seq(Record)
    BY <2>2 DEF Imports
  <2> QED  BY <2>1, <2>2, <2>3
<1>2. PICK k \in 1..Len(import.left) : Flushed(batch, after, k)
  BY <1>1, FlushSteps
<1>3. /\ import' = [import EXCEPT !.left = SubSeq(import.left, Len(batch) + 1,
                                                 Len(import.left)),
                                  !.staged = after]
      /\ store' = IF import.mode = "whole" THEN store ELSE after
  BY DEF FlushBatch
<1> HIDE DEF batch, after
<1> DEFINE rest == SubSeq(import.left, k + 1, Len(import.left))
<1>4. /\ Len(batch) = k /\ after \in Stores /\ Retains(import.staged, after)
      /\ Done + k \in 0..Len(import.all) /\ Remains(Done + k, import.all, rest)
      /\ Unshadowed(import.from, import.all) =>
           after = InOrder(import.mode, import.from,
                           SubSeq(import.all, 1, Done + k))
  BY <1>2 DEF Flushed
<1>5. rest \in Seq(Record) /\ Len(rest) = Len(import.all) - (Done + k)
  BY <1>4 DEF Remains
<1>6. import' = [import EXCEPT !.left = rest, !.staged = after]
  BY <1>3, <1>4
<1> HIDE DEF rest
<1>7. /\ import' \in Imports
      /\ import'.mode = import.mode /\ import'.from = import.from
      /\ import'.all = import.all /\ import'.left = rest /\ import'.staged = after
  BY <1>1, <1>4, <1>5, <1>6 DEF Imports
<1>8. Done' = Done + k
  <2>1. Len(import.all) \in Nat /\ Done + k \in Nat
    <3>1. Len(import.all) \in Nat
      BY <1>1, LenProperties
    <3> QED  BY <1>4, <3>1
  <2>2. Done' = Len(import.all) - Len(rest)
    BY <1>7 DEF Done
  <2> QED  BY <1>5, <2>1, <2>2
<1>9. InStep'
  BY <1>4, <1>7, <1>8 DEF InStep
<1>10. Retains(import.from, after)
  BY <1>1, <1>4, RetainsTransitive
<1>11. store' \in Stores
       /\ Committed(import.mode, store', import.from, after)
  <2>1. CASE import.mode = "whole"
    BY <1>1, <1>3, <2>1 DEF Committed
  <2>2. CASE import.mode # "whole"
    BY <1>3, <1>4, <2>2 DEF Committed
  <2> QED  BY <2>1, <2>2
<1>12. Distinct(import'.all) /\ Retains(import'.from, import'.staged)
       /\ Committed(import'.mode, store', import'.from, import'.staged)
  BY <1>1, <1>7, <1>10, <1>11
<1> QED  BY <1>7, <1>9, <1>11, <1>12 DEF ImportInvariant

\* An import that starts has flushed nothing.
LEMMA StartKeeps ==
  ASSUME ImportInvariant, NEW mode \in Modes, NEW file \in Files,
         NEW ns \in Namespaces \cup {None}, NEW size \in BatchSizes,
         Start(mode, file, ns, size)
  PROVE  ImportInvariant'
<1> DEFINE accepted == Accepted(mode, store, file, ns)
<1>1. accepted \in Seq(Record) /\ Distinct(accepted)
  BY AcceptedIs
<1>2. /\ import' = [mode |-> mode, size |-> size, left |-> accepted,
                    staged |-> store, from |-> store, all |-> accepted]
      /\ store' = store /\ store \in Stores
  BY DEF Start, ImportInvariant
<1> HIDE DEF accepted
<1>3. /\ import' \in Imports /\ import'.left = accepted /\ import'.all = accepted
      /\ import'.from = store /\ import'.staged = store /\ import'.mode = mode
  BY <1>1, <1>2 DEF Imports
<1>4. Len(accepted) \in Nat /\ Done' = 0
  <2>1. Len(accepted) \in Nat
    BY <1>1, LenProperties
  <2> QED  BY <1>3, <2>1 DEF Done
<1>5. Remains(0, accepted, accepted)
  BY <1>1, <1>4 DEF Remains
<1>6. InOrder(mode, store, SubSeq(accepted, 1, 0)) = store
  <2>1. PICK p : TakesBy(mode, store, accepted, p)
    BY <1>1, <1>2, InOrderSteps
  <2>2. 0 \in 0..Len(accepted) /\ p[0] = store
    BY <1>4, <2>1 DEF TakesBy
  <2> QED  BY <1>1, <1>2, <2>1, <2>2, InOrderOf
<1>7. InStep'
  <2>1. Remains(Done', import'.all, import'.left)
    BY <1>3, <1>4, <1>5
  <2>2. import'.staged = InOrder(import'.mode, import'.from, SubSeq(import'.all, 1, Done'))
    BY <1>3, <1>4, <1>6
  <2> QED  BY <2>1, <2>2 DEF InStep
<1>8. Retains(store, store)
  BY DEF Retains
<1> QED  BY <1>1, <1>2, <1>3, <1>7, <1>8 DEF ImportInvariant, Committed

\* An import that ends leaves a store that keeps what it found.
LEMMA EndKeeps ==
  ASSUME ImportInvariant, Finish \/ ImportFails
  PROVE  ImportInvariant' /\ Retains(store, store')
<1>1. /\ import # None /\ import' = None /\ import \in Imports /\ store \in Stores
      /\ import.staged \in Stores /\ Retains(import.from, import.staged)
      /\ Committed(import.mode, store, import.from, import.staged)
  BY DEF ImportInvariant, Imports, Finish, ImportFails
<1>2. Retains(store, store) /\ Retains(import.staged, import.staged)
  BY DEF Retains
<1>3. CASE Finish
  <2>1. store' = import.staged
    BY <1>3 DEF Finish
  <2>2. Retains(store, import.staged)
    BY <1>1, <1>2 DEF Committed
  <2>3. ImportInvariant'
    BY <1>1, <2>1 DEF ImportInvariant
  <2> QED  BY <2>1, <2>2, <2>3
<1>4. CASE UNCHANGED store
  BY <1>1, <1>2, <1>4 DEF ImportInvariant
<1>5. CASE /\ import.left # <<>>
           /\ store' \in CutOff(import.mode, store,
                           NextBatch(import.mode, import.left, import.size))
  <2> DEFINE batch == NextBatch(import.mode, import.left, import.size)
  <2>1. PICK k \in 1..Len(import.left) :
          Flushed(batch, Flush(import.mode, import.staged, batch), k)
    BY <1>1, <1>5, FlushSteps
  <2>2. batch \in Seq(Record) /\ Distinct(batch)
    BY <2>1 DEF Flushed
  <2>3. store' \in Stores /\ Retains(store, store')
    <3>1. store' \in CutOff(import.mode, store, batch)
      BY <1>5
    <3> HIDE DEF batch
    <3> QED  BY <1>1, <2>2, <3>1, CutOffIs
  <2> QED  BY <1>1, <2>3 DEF ImportInvariant
<1> QED  BY <1>3, <1>4, <1>5 DEF ImportFails
\* Callers write between imports only.
LEMMA CallersKeep ==
  ASSUME ImportInvariant, NEW id \in Ids,
         Delete(id) \/ \E notes \in Envelopes : Annotate(id, notes)
  PROVE  ImportInvariant'
<1>1. store \in Stores /\ import = None /\ import' = None
  BY DEF ImportInvariant, Delete, Annotate
<1>2. CASE Delete(id)
  BY <1>1, <1>2 DEF ImportInvariant, Delete, Stores
<1>3. CASE \E notes \in Envelopes : Annotate(id, notes)
  <2>1. PICK notes \in Envelopes : Annotate(id, notes)
    BY <1>3
  <2>2. notes \in Envelope /\ store[id] \in Row
    BY <1>1, <2>1, AnnotationsAssumption DEF Annotate, Stores
  <2>3. [store[id] EXCEPT !.notes = notes] \in Row
    BY <2>2 DEF Row
  <2>4. store' = [store EXCEPT ![id] = [store[id] EXCEPT !.notes = notes]]
    BY <2>1 DEF Annotate
  <2>5. store' \in Stores
    BY <1>1, <2>3, <2>4 DEF Stores
  <2> QED  BY <1>1, <2>5 DEF ImportInvariant
<1> QED  BY <1>2, <1>3

\* Every step keeps it.
LEMMA InvariantNext ==
  ASSUME ImportInvariant, [Next]_vars PROVE ImportInvariant'
<1>1. CASE UNCHANGED vars
  BY <1>1 DEF vars, ImportInvariant, InStep, Done
<1>2. ASSUME NEW mode \in Modes, NEW file \in Files, NEW ns \in Namespaces \cup {None},
             NEW size \in BatchSizes, Start(mode, file, ns, size)
      PROVE  ImportInvariant'
  BY <1>2, StartKeeps
<1>3. CASE FlushBatch
  BY <1>3, FlushKeeps
<1>4. CASE Finish \/ ImportFails
  BY <1>4, EndKeeps
<1>5. ASSUME NEW id \in Ids, Delete(id) \/ \E notes \in Envelopes : Annotate(id, notes)
      PROVE  ImportInvariant'
  BY <1>5, CallersKeep
<1> QED  BY <1>1, <1>2, <1>3, <1>4, <1>5 DEF Next

\* It always holds.
LEMMA InvariantHolds == Spec => []ImportInvariant
<1>1. Init => ImportInvariant
  BY InvariantInit
<1>2. ImportInvariant /\ [Next]_vars => ImportInvariant'
  BY InvariantNext
<1> QED  BY <1>1, <1>2, PTL DEF Spec

-----------------------------------------------------------------------------
(* The properties.                                                         *)

\* Batches are invisible: where an import ends the store is as if its
\* records had been taken one by one, whatever the batches were.
THEOREM BatchesAreInvisible == Spec => []BatchesInvisible
<1>1. ImportInvariant => BatchesInvisible
  <2> SUFFICES ASSUME ImportInvariant, import # None, import.left = <<>>, ~Shadowed
               PROVE  import.staged = InOrder(import.mode, import.from, import.all)
    BY DEF BatchesInvisible
  <2>1. import \in Imports /\ import.all \in Seq(Record) /\ InStep
    BY DEF ImportInvariant, Imports
  <2>2. Unshadowed(import.from, import.all)
    BY <2>1, ShadowedIs
  <2>3. Done = Len(import.all)
    BY <2>1, LenProperties DEF Done
  <2>4. SubSeq(import.all, 1, Len(import.all)) = import.all
    BY <2>1
  <2> QED  BY <2>1, <2>2, <2>3, <2>4 DEF InStep
<1> QED  BY <1>1, InvariantHolds, PTL

\* An import changes no content that the store has, and no annotation.
THEOREM TargetIsRetained == Spec => TargetRetained
<1> DEFINE Kept ==
      import # None =>
        \A id \in Present(store) :
          /\ store'[id] # None /\ Key(store'[id]) = Key(store[id])
          /\ \A item \in DOMAIN store[id].notes :
               /\ item \in DOMAIN store'[id].notes
               /\ store'[id].notes[item] = store[id].notes[item]
<1>1. Retains(store, store') => Kept
  BY DEF Retains, Present
<1> HIDE DEF Kept
<1>2. ImportInvariant /\ [Next]_vars => [Kept]_vars
  <2> SUFFICES ASSUME ImportInvariant, Next PROVE Kept
    OBVIOUS
  <2>1. CASE import = None
    BY <2>1 DEF Kept
  <2>2. CASE FlushBatch
    <3> DEFINE batch == NextBatch(import.mode, import.left, import.size)
               after == Flush(import.mode, import.staged, batch)
    <3>1. import # None /\ import.left # <<>>
          /\ store' = IF import.mode = "whole" THEN store ELSE after
      BY <2>2 DEF FlushBatch
    <3>2. PICK k \in 1..Len(import.left) : Flushed(batch, after, k)
      BY <3>1, FlushSteps
    <3>3. Retains(import.staged, after)
      BY <3>2 DEF Flushed
    <3>4. Retains(store, store) /\ (import.mode # "whole" => store = import.staged)
      BY <3>1 DEF Retains, ImportInvariant, Committed
    <3> HIDE DEF after
    <3>5. Retains(store, store')
      BY <3>1, <3>3, <3>4
    <3> QED  BY <1>1, <3>5
  <2>3. CASE Finish \/ ImportFails
    BY <1>1, <2>3, EndKeeps
  <2> QED  BY <2>1, <2>2, <2>3 DEF Next, Start, Delete, Annotate
<1>3. Spec => [][Kept]_vars
  BY <1>2, InvariantHolds, PTL DEF Spec
<1>4. TargetRetained <=> [][Kept]_vars
  BY DEF TargetRetained, Kept
<1> QED  BY <1>3, <1>4

\* Where a step leaves the rows that an import that commits batch by batch
\* writes: each is as it is after some of the records.
LEMMA EndsAmong ==
  ASSUME ImportInvariant, Next, import # None, import.mode # "whole", ~Shadowed,
         NEW p, TakesBy(import.mode, import.from, import.all, p)
  PROVE  store' \in Stores /\ Among(store', Len(import.all), p)
<1> DEFINE all == import.all
           n == Len(all)
           batch == NextBatch(import.mode, import.left, import.size)
           after == Flush(import.mode, import.staged, batch)
           m == Done
<1>1. /\ import \in Imports /\ all \in Seq(Record) /\ import.from \in Stores
      /\ import.staged \in Stores /\ Distinct(all) /\ InStep /\ store = import.staged
      /\ Remains(m, all, import.left) /\ m \in 0..n
  <2>1. /\ import \in Imports /\ Distinct(all) /\ InStep /\ store = import.staged
    BY DEF ImportInvariant, Committed
  <2>2. /\ all \in Seq(Record) /\ import.from \in Stores /\ import.staged \in Stores
    BY <2>1 DEF Imports
  <2>3. Remains(m, all, import.left) /\ m \in 0..n
    BY <2>1 DEF InStep, Remains
  <2> QED  BY <2>1, <2>2, <2>3
<1>2. Unshadowed(import.from, all)
  BY <1>1, ShadowedIs
<1>3. n \in Nat /\ \A k \in 0..n : p[k] \in Stores
  BY <1>1, LenProperties DEF TakesBy
<1> HIDE DEF all, n, batch, after, m
<1>4. import.staged = p[m]
  <2>1. import.staged = InOrder(import.mode, import.from, SubSeq(all, 1, m))
    BY <1>1, <1>2 DEF InStep, all, m
  <2> QED  BY <1>1, <2>1, InOrderOf DEF all, n
<1>5. ASSUME NEW k \in 0..n PROVE Among(p[k], n, p)
  BY DEF Among
<1>6. ASSUME store' = import.staged PROVE store' \in Stores /\ Among(store', n, p)
  BY <1>1, <1>4, <1>5, <1>6
<1>7. CASE FlushBatch
  <2>1. import.left # <<>> /\ store' = after
    BY <1>7 DEF FlushBatch, after, batch
  <2>2. PICK k \in 1..Len(import.left) : Flushed(batch, after, k)
    BY <2>1, FlushSteps DEF after, batch
  <2>3. /\ m + k \in 0..n /\ after \in Stores
        /\ after = InOrder(import.mode, import.from, SubSeq(all, 1, m + k))
    BY <1>2, <2>2 DEF Flushed, all, n, m
  <2>4. after = p[m + k]
    BY <1>1, <2>3, InOrderOf DEF all, n
  <2>5. Among(store', n, p)
    BY <1>5, <2>1, <2>3, <2>4
  <2> QED  BY <2>1, <2>3, <2>5 DEF n, all
<1>8. CASE Finish
  BY <1>6, <1>8 DEF Finish, n, all
<1>9. CASE ImportFails
  <2>1. CASE UNCHANGED store
    BY <1>1, <1>6, <2>1 DEF n, all
  <2>2. CASE import.left # <<>> /\ store' \in CutOff(import.mode, store, batch)
    <3>1. PICK k \in 1..Len(import.left) : Flushed(batch, after, k)
      BY <2>2, FlushSteps DEF after, batch
    <3>2. /\ batch \in Seq(Record) /\ Len(batch) = k /\ Distinct(batch)
          /\ m + k \in 0..n /\ k \in Nat
      BY <3>1 DEF Flushed, m, n, all
    <3>3. /\ \A i \in 1..Len(batch) : batch[i] = all[m + i]
          /\ m + Len(batch) \in 0..n
      BY <3>1, <3>2 DEF Flushed, m, all
    <3>7. Part(import.mode, p, m, batch)
      BY <1>1, <1>2, <3>2, <3>3, PartOf DEF all, n
    <3>4. PICK q : /\ TakesBy(import.mode, p[m], batch, q)
                   /\ Unshadowed(p[m], batch)
                   /\ \A i \in 0..Len(batch) : q[i] = p[m + i]
      BY <3>7 DEF Part
    <3>5. store' \in Stores /\ Among(store', Len(batch), q)
      BY <1>1, <1>4, <2>2, <3>2, <3>4, CutOffIs
    <3>6. Among(store', n, p)
      <4> SUFFICES ASSUME NEW id \in Ids PROVE \E i \in 0..n : store'[id] = p[i][id]
        BY DEF Among
      <4>1. PICK i \in 0..k : store'[id] = q[i][id]
        BY <3>2, <3>5 DEF Among
      <4>2. q[i] = p[m + i] /\ m + i \in 0..n
        BY <1>1, <1>3, <3>2, <3>4, <4>1
      <4> QED  BY <4>1, <4>2
    <3> QED  BY <3>5, <3>6 DEF n, all
  <2> QED  BY <1>9, <2>1, <2>2 DEF ImportFails, batch
<1> QED  BY <1>7, <1>8, <1>9 DEF Next, Start, Delete, Annotate

\* A plain import that was cut off and is begun again ends where it would
\* have ended.
THEOREM RestartsDoConverge == Spec => RestartsConverge
<1> DEFINE Converges ==
      import # None /\ import' = None /\ import.mode # "whole" /\ ~Shadowed =>
        InOrder(import.mode, store', import.all)
          = InOrder(import.mode, import.from, import.all)
<1>1. ImportInvariant /\ [Next]_vars => [Converges]_vars
  <2> SUFFICES ASSUME ImportInvariant, Next, import # None,
                      import.mode # "whole", ~Shadowed
               PROVE  InOrder(import.mode, store', import.all)
                        = InOrder(import.mode, import.from, import.all)
    OBVIOUS
  <2>1. /\ import \in Imports /\ import.all \in Seq(Record) /\ import.from \in Stores
        /\ Distinct(import.all)
    BY DEF ImportInvariant, Imports
  <2>2. PICK p : /\ TakesBy(import.mode, import.from, import.all, p)
                 /\ InOrder(import.mode, import.from, import.all) = p[Len(import.all)]
    BY <2>1, InOrderSteps
  <2>3. store' \in Stores /\ Among(store', Len(import.all), p)
    BY <2>2, EndsAmong
  <2>4. PICK q : /\ TakesBy(import.mode, store', import.all, q)
                 /\ InOrder(import.mode, store', import.all) = q[Len(import.all)]
    BY <2>1, <2>3, InOrderSteps
  <2>5. Unshadowed(import.from, import.all)
    BY <2>1, ShadowedIs
  <2>6. q[Len(import.all)] = p[Len(import.all)]
    BY <2>1, <2>2, <2>3, <2>4, <2>5, Resumes
  <2> QED  BY <2>2, <2>4, <2>6
<1> HIDE DEF Converges
<1>2. Spec => [][Converges]_vars
  BY <1>1, InvariantHolds, PTL DEF Spec
<1>3. RestartsConverge <=> [][Converges]_vars
  BY DEF RestartsConverge, Converges
<1> QED  BY <1>2, <1>3
==============================================================================
