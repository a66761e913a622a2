----------------------------- MODULE AccessProofs -----------------------------
(* The access policy, for any callers, approvals, files and threads.       *)
EXTENDS Access, TLAPS, SequenceTheorems, WellFoundedInduction

USE AccessAssumption DEF Live

-----------------------------------------------------------------------------
(* Types.                                                                  *)

Item == [row : Nat, as : Actions]

Job ==
  [op : Operations \cup {"revoke", "reload"}, caller : Callers, policy : 1..Live,
   pin : Namespaces \cup Callers \cup ShareIds \cup {None},
   session : Sessions \cup {None},
   step : Operations \cup {"scan", "count", "emit", "commit", "revoke",
                           "revoking", "store", "reload", "install"},
   next : Nat \ {0}, upto : 0..Len(rows),
   mayExport : BOOLEAN, passed : SUBSET (1..Len(rows)),
   counted : SUBSET Item, out : SUBSET Item,
   left : SUBSET Callers, shares : Seq(ShareApproval)]

StoreTyped ==
  /\ file \in 1..Len(Files)
  /\ policies \in Seq([Callers -> Credential]) /\ 1 <= Live
  /\ rows \in Seq(Row)
  /\ slot \in Threads \cup {None}

\* A request that is being served.
JobTyped(t) ==
  job[t] # None =>
    /\ job[t] \in Job
    /\ job[t].step = "commit" =>
         job[t].pin \in Namespaces /\ job[t].session \in Sessions
    /\ job[t].step = "install" => job[t].next \in 1..Len(Files)

JobShape == job = [t \in Threads |-> job[t]]

TypeInv == StoreTyped /\ JobShape /\ \A t \in Threads : JobTyped(t)

-----------------------------------------------------------------------------
(* A step concerns the request of one thread.                              *)

LEMMA OneThread ==
  ASSUME JobShape, NEW t \in Threads, NEW j, job' = [job EXCEPT ![t] = j]
  PROVE  /\ JobShape' /\ job'[t] = j
         /\ \A u \in Threads \ {t} : job'[u] = job[u]
BY DEF JobShape

\* Policies are added and rows are appended, so what was typed stays typed.
LEMMA JobStays ==
  ASSUME TypeInv, Live' \in Nat, Live <= Live',
         Len(rows') \in Nat, Len(rows) <= Len(rows')
  PROVE  Job \subseteq Job'
<1>1. 1..Live \subseteq 1..Live' /\ 0..Len(rows) \subseteq 0..Len(rows')
  BY DEF TypeInv, StoreTyped
<1> QED
  BY <1>1 DEF Job

LEMMA StepTyped ==
  ASSUME TypeInv, StoreTyped', NEW t \in Threads, NEW j,
         job' = [job EXCEPT ![t] = j],
         Live <= Live', Len(rows) <= Len(rows'),
         j = None \/ (/\ j \in Job'
                      /\ j.step = "commit" => /\ j.pin \in Namespaces
                                              /\ j.session \in Sessions
                      /\ j.step = "install" => j.next \in 1..Len(Files))
  PROVE  TypeInv'
<1>1. /\ JobShape' /\ job'[t] = j
      /\ \A u \in Threads \ {t} : job'[u] = job[u]
  BY OneThread DEF TypeInv
<1>2. Job \subseteq Job'
  BY JobStays DEF StoreTyped
<1>3. \A u \in Threads : JobTyped(u)'
  BY <1>1, <1>2 DEF TypeInv, JobTyped
<1> QED
  BY <1>1, <1>3 DEF TypeInv

\* A step that leaves policies and rows alone.
LEMMA QuietStepTyped ==
  ASSUME TypeInv, NEW t \in Threads, NEW j, job' = [job EXCEPT ![t] = j],
         UNCHANGED <<file, policies, rows>>, slot' \in {slot, t, None},
         j = None \/ (/\ j \in Job
                      /\ j.step = "commit" => /\ j.pin \in Namespaces
                                              /\ j.session \in Sessions
                      /\ j.step = "install" => j.next \in 1..Len(Files))
  PROVE  TypeInv'
<1>1. StoreTyped' /\ Live <= Live' /\ Len(rows) <= Len(rows')
  BY DEF TypeInv, StoreTyped
<1>2. Job' = Job
  BY DEF Job
<1> QED
  BY <1>1, <1>2, StepTyped

\* What is known of a request at a step.
LEMMA JobAt ==
  ASSUME TypeInv, NEW t \in Threads, NEW step, At(t, step)
  PROVE  /\ job[t] # None /\ job[t].step = step /\ job[t] \in Job
         /\ rows \in Seq(Row) /\ Len(rows) \in Nat /\ Live \in Nat
BY DEF At, TypeInv, JobTyped, StoreTyped

-----------------------------------------------------------------------------
(* Types.                                                                  *)

LEMMA TypeInit == Init => TypeInv
<1> SUFFICES ASSUME Init PROVE TypeInv
  OBVIOUS
<1>1. 1 \in 1..Len(Files) /\ Files[1] \in [Callers -> Credential]
  BY EmptySeq, ElementOfSeq, LenProperties
<1> QED
  BY <1>1 DEF Init, TypeInv, StoreTyped, JobShape, JobTyped

LEMMA TypeResolve ==
  ASSUME TypeInv, NEW t \in Threads, NEW caller \in Callers,
         NEW op \in Operations \cup {"revoke", "reload"},
         NEW pin \in Pins \cup {None},
         NEW session \in Sessions \cup {None}, Resolve(t, caller, op, pin, session)
  PROVE  TypeInv'
<1> DEFINE j == [op |-> op, caller |-> caller, policy |-> Live, pin |-> pin,
                 session |-> session, step |-> op, next |-> 1, upto |-> 0,
                 mayExport |-> FALSE, passed |-> {}, counted |-> {},
                 out |-> {}, left |-> {}, shares |-> <<>>]
<1>1. Live \in 1..Live /\ Len(rows) \in Nat
  BY DEF TypeInv, StoreTyped
<1>2. j \in Job /\ j.step \notin {"commit", "install"}
  BY <1>1 DEF Job, Operations
<1> QED
  BY <1>2, QuietStepTyped DEF Resolve

LEMMA TypeReply ==
  ASSUME TypeInv, NEW t \in Threads, Answer(t) \/ Publish(t) \/ Fail(t)
  PROVE  TypeInv'
<1>1. /\ job' = [job EXCEPT ![t] = None] /\ UNCHANGED <<file, policies, rows>>
      /\ slot' \in {slot, None}
  BY DEF Answer, Publish, Fail, Reply
<1> QED
  BY <1>1, QuietStepTyped

\* A nonempty set of naturals has a least element.
LEMMA LeastOf ==
  ASSUME NEW S \in SUBSET Nat, S # {} PROVE \E m \in S : \A i \in S : m <= i
<1>1. PICK m \in S : \A i \in S : <<i, m>> \notin OpToRel(<, Nat)
  BY NatLessThanWellFounded, WFMin
<1>2. \A i \in S : ~(i < m)
  BY <1>1 DEF OpToRel
<1> QED
  BY <1>2

\* The approvals of a credential that speak of a row.
LEMMA MatchingShares ==
  ASSUME NEW cred \in Credential, NEW caller, NEW ns, NEW op
  PROVE  \A i \in Matching(cred, caller, ns, op) :
           i \in Nat /\ cred.shares[i] \in ShareApproval
BY ElementOfSeq, LenProperties DEF Matching, Credential

LEMMA LeastIn ==
  ASSUME NEW M \in SUBSET Nat, M # {} PROVE Least(M) \in M
<1>1. \E i \in M : \A j \in M : i <= j
  BY LeastOf
<1> QED
  BY <1>1 DEF Least

\* What becomes of a row is one of the actions.
LEMMA DisclosureTyped ==
  ASSUME NEW cred \in Credential, NEW caller, NEW row \in Row, NEW op
  PROVE  Disclosure(cred, caller, row, op) \in Actions
<1> DEFINE M       == Matching(cred, caller, row.ns, op)
           ofShare == IF M = {} THEN None ELSE cred.shares[Least(M)][row.kind]
<1>1. CASE row.kind = "plain"
  BY <1>1 DEF Disclosure, Actions
<1>2. CASE row.kind # "plain"
  <2>1. row.kind \in {"secret", "private"}
    BY <1>2 DEF Row
  <2>2. cred[row.kind] \in Actions \cup {None} /\ Defaults[row.kind] \in Actions
    BY <2>1 DEF Credential
  <2>3. ofShare \in Actions \cup {None}
    <3>1. CASE M # {}
      <4>1. M \in SUBSET Nat
        BY MatchingShares
      <4>2. cred.shares[Least(M)] \in ShareApproval
        BY <3>1, <4>1, LeastIn, MatchingShares
      <4> QED
        BY <3>1, <2>1, <4>2 DEF ShareApproval
    <3> QED
      BY <3>1
  <2>4. Disclosure(cred, caller, row, op) =
          IF ofShare # None THEN ofShare
          ELSE IF cred[row.kind] # None THEN cred[row.kind]
          ELSE IF M # {} /\ ~Direct(cred, row.ns, op) THEN Defaults[row.kind]
          ELSE "allow"
    BY <1>2 DEF Disclosure
  <2> HIDE DEF M, ofShare
  <2> QED
    BY <2>2, <2>3, <2>4 DEF Actions
<1> QED
  BY <1>1, <1>2

\* The credential a request holds.
LEMMA HeldTyped ==
  ASSUME TypeInv, NEW t \in Threads, job[t] # None
  PROVE  Held(t) \in Credential /\ job[t].policy \in 1..Live /\ job[t].caller \in Callers
<1>1. job[t].policy \in 1..Live /\ job[t].caller \in Callers
  BY DEF TypeInv, JobTyped, Job
<1>2. policies[job[t].policy] \in [Callers -> Credential]
  BY <1>1, ElementOfSeq DEF TypeInv, StoreTyped
<1> QED
  BY <1>1, <1>2 DEF Held

\* What the three steps that look at a row do.
LEMMA AskExportEffect ==
  ASSUME TypeInv, NEW t \in Threads, AskExport(t)
  PROVE  /\ job[t] \in Job /\ job[t].step \in {"count", "emit"}
         /\ job[t].next \in 1..job[t].upto /\ job[t].next \in 1..Len(rows)
         /\ job[t].passed = {} /\ ~job[t].mayExport
         /\ job' = [job EXCEPT ![t] = job'[t]]
         /\ \/ /\ Permitted(t, "export")
               /\ job'[t] = [job[t] EXCEPT !.mayExport = TRUE]
            \/ /\ ~Permitted(t, "export")
               /\ job'[t] = [job[t] EXCEPT !.next = job[t].next + 1]
         /\ UNCHANGED <<file, policies, rows, slot, revoked>>
<1>1. job[t] \in Job /\ Len(rows) \in Nat /\ JobShape
  BY LenProperties DEF AskExport, Exporting, TypeInv, StoreTyped, JobTyped
<1>2. /\ job[t].next \in 1..job[t].upto /\ job[t].next \in 1..Len(rows)
      /\ job[t].step \in {"count", "emit"}
      /\ job[t].passed = {} /\ ~job[t].mayExport
  BY <1>1 DEF AskExport, Exporting, Job
<1> DEFINE j == IF Permitted(t, "export")
                THEN [job[t] EXCEPT !.mayExport = TRUE]
                ELSE [job[t] EXCEPT !.next = job[t].next + 1]
<1>3. job' = [job EXCEPT ![t] = j]
  BY DEF AskExport
<1> HIDE DEF j
<1>4. job'[t] = j
  BY <1>1, <1>3 DEF JobShape
<1>5. job' = [job EXCEPT ![t] = job'[t]]
  BY <1>3, <1>4
<1> QED
  BY <1>1, <1>2, <1>4, <1>5 DEF AskExport, j

LEMMA AskReadEffect ==
  ASSUME TypeInv, NEW t \in Threads, AskRead(t)
  PROVE  /\ job[t] \in Job
         /\ job[t].step = "scan" \/ (job[t].step \in {"count", "emit"} /\ job[t].mayExport)
         /\ job[t].next \in 1..job[t].upto /\ job[t].next \in 1..Len(rows)
         /\ job' = [job EXCEPT ![t] = job'[t]]
         /\ job'[t].passed = IF Permitted(t, "read")
                             THEN job[t].passed \cup {job[t].next} ELSE job[t].passed
         /\ job'[t] = [job[t] EXCEPT !.next = job[t].next + 1, !.mayExport = FALSE,
                                     !.passed = job'[t].passed]
         /\ UNCHANGED <<file, policies, rows, slot, revoked>>
<1>1. job[t] \in Job /\ Len(rows) \in Nat /\ JobShape
  BY LenProperties DEF AskRead, At, Exporting, TypeInv, StoreTyped, JobTyped
<1>2. /\ job[t].next \in 1..job[t].upto /\ job[t].next \in 1..Len(rows)
      /\ job[t].step = "scan" \/ (job[t].step \in {"count", "emit"} /\ job[t].mayExport)
  BY <1>1 DEF AskRead, At, Exporting, Job
<1> DEFINE p == IF Permitted(t, "read")
                THEN job[t].passed \cup {job[t].next} ELSE job[t].passed
           j == [job[t] EXCEPT !.next = job[t].next + 1, !.mayExport = FALSE,
                               !.passed = p]
<1>3. job' = [job EXCEPT ![t] = j]
  BY DEF AskRead
<1>4. job'[t] = j /\ j.passed = p
  BY <1>1, <1>3 DEF JobShape, Job
<1> HIDE DEF j
<1>5. job' = [job EXCEPT ![t] = job'[t]]
  BY <1>3, <1>4
<1> QED
  BY <1>1, <1>2, <1>4, <1>5 DEF AskRead, j

LEMMA DiscloseEffect ==
  ASSUME TypeInv, NEW t \in Threads, Disclose(t)
  PROVE  \E n \in job[t].passed, what \in Actions \ {"fail"} :
         /\ job[t] \in Job /\ n \in 1..Len(rows)
         /\ job[t].step \in {"count", "emit"}
              \/ (job[t].step = "scan" /\ job[t].next > job[t].upto)
         /\ what = Disclosure(Held(t), job[t].caller, rows[n], job[t].op)
         /\ job' = [job EXCEPT ![t] = job'[t]]
         /\ job'[t].counted = IF job[t].step = "count"
                              THEN job[t].counted \cup {[row |-> n, as |-> what]}
                              ELSE job[t].counted
         /\ job'[t].out = IF job[t].step = "count" \/ what = "omit" THEN job[t].out
                          ELSE job[t].out \cup {[row |-> n, as |-> what]}
         /\ job'[t] = [job[t] EXCEPT !.passed = job[t].passed \ {n},
                                     !.counted = job'[t].counted,
                                     !.out = job'[t].out]
         /\ UNCHANGED <<file, policies, rows, slot, revoked>>
<1> DEFINE n    == Least(job[t].passed)
           what == Disclosure(Held(t), job[t].caller, rows[n], job[t].op)
           item == [row |-> n, as |-> what]
           cs   == IF job[t].step = "count" THEN job[t].counted \cup {item}
                   ELSE job[t].counted
           os   == IF job[t].step = "count" \/ what = "omit" THEN job[t].out
                   ELSE job[t].out \cup {item}
           j    == [job[t] EXCEPT !.passed = job[t].passed \ {n}, !.counted = cs,
                                  !.out = os]
<1>1. /\ job[t] \in Job /\ job[t] # None /\ Len(rows) \in Nat /\ JobShape
      /\ rows \in Seq(Row)
  BY LenProperties DEF Disclose, At, Exporting, TypeInv, StoreTyped, JobTyped
<1>2. job[t].passed \in SUBSET (1..Len(rows)) /\ job[t].passed # {}
  BY <1>1 DEF Disclose, Job
<1>3. n \in job[t].passed /\ n \in 1..Len(rows)
  <2> DEFINE M == job[t].passed
  <2>1. M \in SUBSET Nat /\ M # {}
    BY <1>1, <1>2
  <2> HIDE DEF M
  <2>2. Least(M) \in M
    BY <2>1, LeastIn
  <2> QED
    BY <1>2, <2>2 DEF M
<1>4. rows[n] \in Row
  BY <1>1, <1>3, ElementOfSeq
<1>5. what \in Actions \ {"fail"}
  BY <1>1, <1>4, HeldTyped, DisclosureTyped DEF Disclose
<1>6. job[t].step \in {"count", "emit"}
        \/ (job[t].step = "scan" /\ job[t].next > job[t].upto)
  BY DEF Disclose, At, Exporting
<1>7. job' = [job EXCEPT ![t] = j]
  BY <1>1 DEF Disclose, At
<1> HIDE DEF n, what, cs, os
<1>8. job'[t] = j /\ j.counted = cs /\ j.out = os
  BY <1>1, <1>7 DEF JobShape, Job
<1> HIDE DEF j
<1>9. job' = [job EXCEPT ![t] = job'[t]]
  BY <1>7, <1>8
<1>10. job'[t] = [job[t] EXCEPT !.passed = job[t].passed \ {n},
                                !.counted = job'[t].counted, !.out = job'[t].out]
  BY <1>8 DEF j
<1>11. UNCHANGED <<file, policies, rows, slot, revoked>>
  BY DEF Disclose
<1>12. what = Disclosure(Held(t), job[t].caller, rows[n], job[t].op)
  BY DEF what
<1> QED
  BY <1>1, <1>3, <1>5, <1>6, <1>8, <1>9, <1>10, <1>11, <1>12 DEF cs, os

\* They change where the request is, and what it has, in its pass.
LEMMA RowStepOf ==
  ASSUME TypeInv, NEW t \in Threads, AskExport(t) \/ AskRead(t) \/ Disclose(t)
  PROVE  /\ job'[t] \in Job /\ job[t] \in Job /\ job[t] # None
         /\ job' = [job EXCEPT ![t] = job'[t]]
         /\ job'[t].step = job[t].step /\ job[t].step \in {"scan", "count", "emit"}
         /\ job'[t].op = job[t].op /\ job'[t].caller = job[t].caller
         /\ job'[t].policy = job[t].policy /\ job'[t].pin = job[t].pin
         /\ job'[t].upto = job[t].upto /\ job'[t].shares = job[t].shares
         /\ UNCHANGED <<file, policies, rows, slot, revoked>>
<1>0. job[t] # None
  BY DEF AskExport, AskRead, Disclose, At, Exporting
<1>1. CASE AskExport(t)
  <2>1. /\ job[t] \in Job /\ job[t].next \in Nat \ {0}
        /\ job[t].step \in {"count", "emit"}
        /\ job' = [job EXCEPT ![t] = job'[t]]
        /\ \/ job'[t] = [job[t] EXCEPT !.mayExport = TRUE]
           \/ job'[t] = [job[t] EXCEPT !.next = job[t].next + 1]
        /\ UNCHANGED <<file, policies, rows, slot, revoked>>
    BY <1>1, AskExportEffect DEF Job
  <2>2. CASE job'[t] = [job[t] EXCEPT !.mayExport = TRUE]
    <3> DEFINE j == [job[t] EXCEPT !.mayExport = TRUE]
    <3>1. j \in Job
      BY <2>1 DEF Job
    <3>2. /\ j.step = job[t].step /\ j.op = job[t].op /\ j.caller = job[t].caller
          /\ j.policy = job[t].policy /\ j.pin = job[t].pin
          /\ j.upto = job[t].upto /\ j.shares = job[t].shares
      BY <2>1 DEF Job
    <3>3. job'[t] = j
      BY <2>2
    <3> HIDE DEF j
    <3> QED
      BY <1>0, <2>1, <3>1, <3>2, <3>3
  <2>3. CASE job'[t] = [job[t] EXCEPT !.next = job[t].next + 1]
    <3>1. job[t].next + 1 \in Nat \ {0}
      BY <2>1
    <3> DEFINE m == job[t].next + 1
               j == [job[t] EXCEPT !.next = m]
    <3>2. job'[t] = j
      BY <2>3
    <3> HIDE DEF m
    <3>3. j \in Job
      BY <2>1, <3>1 DEF Job, m
    <3>4. /\ j.step = job[t].step /\ j.op = job[t].op /\ j.caller = job[t].caller
          /\ j.policy = job[t].policy /\ j.pin = job[t].pin
          /\ j.upto = job[t].upto /\ j.shares = job[t].shares
      BY <2>1 DEF Job
    <3> HIDE DEF j
    <3> QED
      BY <1>0, <2>1, <3>2, <3>3, <3>4
  <2> QED
    BY <2>1, <2>2, <2>3
<1>2. CASE AskRead(t)
  <2>1. /\ job[t] \in Job /\ job[t].next \in 1..Len(rows)
        /\ job[t].step \in {"scan", "count", "emit"}
        /\ job' = [job EXCEPT ![t] = job'[t]]
        /\ job'[t].passed \in {job[t].passed, job[t].passed \cup {job[t].next}}
        /\ job'[t] = [job[t] EXCEPT !.next = job[t].next + 1, !.mayExport = FALSE,
                                    !.passed = job'[t].passed]
        /\ UNCHANGED <<file, policies, rows, slot, revoked>>
    BY <1>2, AskReadEffect
  <2>6. job[t].next + 1 \in Nat \ {0}
    BY <2>1 DEF Job
  <2>7. job[t].passed \in SUBSET (1..Len(rows))
    BY <2>1 DEF Job
  <2>2. job[t].next + 1 \in Nat \ {0} /\ job'[t].passed \in SUBSET (1..Len(rows))
    BY <2>1, <2>6, <2>7
  <2> DEFINE p == job'[t].passed
             m == job[t].next + 1
             j == [job[t] EXCEPT !.next = m, !.mayExport = FALSE, !.passed = p]
  <2>3. job'[t] = j
    BY <2>1
  <2> HIDE DEF p, m
  <2>4. j \in Job
    BY <2>1, <2>2 DEF Job, p, m
  <2>5. /\ j.step = job[t].step /\ j.op = job[t].op /\ j.caller = job[t].caller
        /\ j.policy = job[t].policy /\ j.pin = job[t].pin
        /\ j.upto = job[t].upto /\ j.shares = job[t].shares
    BY <2>1 DEF Job
  <2> HIDE DEF j
  <2> QED
    BY <1>0, <2>1, <2>3, <2>4, <2>5
<1>3. CASE Disclose(t)
  <2>1. PICK n \in job[t].passed, what \in Actions \ {"fail"} :
        /\ job[t] \in Job /\ n \in 1..Len(rows)
        /\ job[t].step \in {"count", "emit"} \/ job[t].step = "scan"
        /\ job' = [job EXCEPT ![t] = job'[t]]
        /\ job'[t].counted \in {job[t].counted,
                                job[t].counted \cup {[row |-> n, as |-> what]}}
        /\ job'[t].out \in {job[t].out, job[t].out \cup {[row |-> n, as |-> what]}}
        /\ job'[t] = [job[t] EXCEPT !.passed = job[t].passed \ {n},
                                    !.counted = job'[t].counted,
                                    !.out = job'[t].out]
        /\ UNCHANGED <<file, policies, rows, slot, revoked>>
    BY <1>3, DiscloseEffect
  <2>2. [row |-> n, as |-> what] \in Item
    BY <2>1 DEF Item
  <2>3. /\ job'[t].counted \in SUBSET Item /\ job'[t].out \in SUBSET Item
        /\ job[t].passed \ {n} \in SUBSET (1..Len(rows))
    BY <2>1, <2>2 DEF Job
  <2> DEFINE p == job[t].passed \ {n}
             c == job'[t].counted
             o == job'[t].out
             j == [job[t] EXCEPT !.passed = p, !.counted = c, !.out = o]
  <2>4. job'[t] = j
    BY <2>1
  <2> HIDE DEF p, c, o
  <2>5. j \in Job
    BY <2>1, <2>3 DEF Job, p, c, o
  <2> QED
    BY <1>0, <2>1, <2>4, <2>5, SMTT(60) DEF Job
<1> QED
  BY <1>1, <1>2, <1>3

\* The same, field by field.
LEMMA AskExportFields ==
  ASSUME TypeInv, NEW t \in Threads, AskExport(t)
  PROVE  /\ job[t].step \in {"count", "emit"} /\ job[t].passed = {} /\ ~job[t].mayExport
         /\ job[t].next \in 1..job[t].upto /\ job[t].next \in 1..Len(rows)
         /\ job'[t].passed = job[t].passed
         /\ job'[t].counted = job[t].counted /\ job'[t].out = job[t].out
         /\ \/ Permitted(t, "export") /\ job'[t].mayExport
               /\ job'[t].next = job[t].next
            \/ ~Permitted(t, "export") /\ ~job'[t].mayExport
               /\ job'[t].next = job[t].next + 1
<1>1. /\ job[t] \in Job /\ job[t].step \in {"count", "emit"} /\ job[t].passed = {}
      /\ ~job[t].mayExport
      /\ job[t].next \in 1..job[t].upto /\ job[t].next \in 1..Len(rows)
  BY AskExportEffect
<1>2. CASE Permitted(t, "export") /\ job'[t] = [job[t] EXCEPT !.mayExport = TRUE]
  BY <1>1, <1>2 DEF Job
<1>3. CASE ~Permitted(t, "export") /\ job'[t] = [job[t] EXCEPT !.next = job[t].next + 1]
  BY <1>1, <1>3 DEF Job
<1> QED
  BY <1>2, <1>3, AskExportEffect

LEMMA AskReadFields ==
  ASSUME TypeInv, NEW t \in Threads, AskRead(t)
  PROVE  /\ job[t].step = "scan" \/ (job[t].step \in {"count", "emit"} /\ job[t].mayExport)
         /\ job[t].next \in 1..job[t].upto /\ job[t].next \in 1..Len(rows)
         /\ job'[t].passed = IF Permitted(t, "read")
                             THEN job[t].passed \cup {job[t].next} ELSE job[t].passed
         /\ job'[t].next = job[t].next + 1 /\ ~job'[t].mayExport
         /\ job'[t].counted = job[t].counted /\ job'[t].out = job[t].out
<1> DEFINE p == job'[t].passed
           m == job[t].next + 1
<1>1. /\ job[t] \in Job
      /\ job[t].step = "scan" \/ (job[t].step \in {"count", "emit"} /\ job[t].mayExport)
      /\ job[t].next \in 1..job[t].upto /\ job[t].next \in 1..Len(rows)
      /\ p = IF Permitted(t, "read")
             THEN job[t].passed \cup {job[t].next} ELSE job[t].passed
      /\ job'[t] = [job[t] EXCEPT !.next = m, !.mayExport = FALSE, !.passed = p]
  BY AskReadEffect
<1> HIDE DEF p, m
<1>2. /\ job'[t].next = m /\ ~job'[t].mayExport
      /\ job'[t].counted = job[t].counted /\ job'[t].out = job[t].out
  BY <1>1 DEF Job
<1> QED
  BY <1>1, <1>2 DEF p, m

LEMMA DiscloseFields ==
  ASSUME TypeInv, NEW t \in Threads, Disclose(t)
  PROVE  \E n \in job[t].passed, what \in Actions \ {"fail"} :
         /\ n \in 1..Len(rows) /\ job[t].step \in {"scan", "count", "emit"}
         /\ what = Disclosure(Held(t), job[t].caller, rows[n], job[t].op)
         /\ job'[t].passed = job[t].passed \ {n}
         /\ job'[t].next = job[t].next /\ job'[t].mayExport = job[t].mayExport
         /\ job'[t].counted = IF job[t].step = "count"
                              THEN job[t].counted \cup {[row |-> n, as |-> what]}
                              ELSE job[t].counted
         /\ job'[t].out = IF job[t].step = "count" \/ what = "omit" THEN job[t].out
                          ELSE job[t].out \cup {[row |-> n, as |-> what]}
<1> DEFINE c == job'[t].counted
           o == job'[t].out
<1>1. PICK n \in job[t].passed, what \in Actions \ {"fail"} :
         /\ job[t] \in Job /\ n \in 1..Len(rows)
         /\ job[t].step \in {"scan", "count", "emit"}
         /\ what = Disclosure(Held(t), job[t].caller, rows[n], job[t].op)
         /\ c = IF job[t].step = "count"
                THEN job[t].counted \cup {[row |-> n, as |-> what]}
                ELSE job[t].counted
         /\ o = IF job[t].step = "count" \/ what = "omit" THEN job[t].out
                ELSE job[t].out \cup {[row |-> n, as |-> what]}
         /\ job'[t] = [job[t] EXCEPT !.passed = job[t].passed \ {n},
                                     !.counted = c, !.out = o]
  BY DiscloseEffect
<1> DEFINE p == job[t].passed \ {n}
<1>2. job'[t] = [job[t] EXCEPT !.passed = p, !.counted = c, !.out = o]
  BY <1>1
<1> HIDE DEF p, c, o
<1>3. /\ job'[t].passed = p
      /\ job'[t].next = job[t].next /\ job'[t].mayExport = job[t].mayExport
  BY <1>1, <1>2 DEF Job
<1> QED
  BY <1>1, <1>3 DEF p, c, o

LEMMA TypeRowStep ==
  ASSUME TypeInv, NEW t \in Threads, AskExport(t) \/ AskRead(t) \/ Disclose(t)
  PROVE  TypeInv'
<1>1. /\ job'[t] \in Job /\ job'[t].step \in {"scan", "count", "emit"}
      /\ job' = [job EXCEPT ![t] = job'[t]]
      /\ UNCHANGED <<file, policies, rows, slot>>
  BY RowStepOf
<1> DEFINE j == job'[t]
<1>2. /\ j \in Job /\ j.step \notin {"commit", "install"}
      /\ job' = [job EXCEPT ![t] = j]
  BY <1>1
<1> HIDE DEF j
<1> QED
  BY <1>1, <1>2, QuietStepTyped

LEMMA TypeStartRead ==
  ASSUME TypeInv, NEW t \in Threads, StartRead(t)
  PROVE  TypeInv'
<1> DEFINE j == [job[t] EXCEPT !.step = "scan", !.upto = Len(rows)]
<1>1. job[t] \in Job /\ Len(rows) \in 0..Len(rows)
  BY JobAt DEF StartRead
<1>2. job' = [job EXCEPT ![t] = j]
  BY DEF StartRead
<1>3. j \in Job /\ j.step = "scan"
  BY <1>1 DEF Job
<1> QED
  BY <1>2, <1>3, QuietStepTyped DEF StartRead

LEMMA TypeStartExport ==
  ASSUME TypeInv, NEW t \in Threads, StartExport(t)
  PROVE  TypeInv'
<1> DEFINE held == Held(t).shares
           j == [job[t] EXCEPT !.step = "count", !.upto = Len(rows), !.shares = held]
<1>1. job[t] \in Job /\ Len(rows) \in 0..Len(rows) /\ job[t] # None
  BY JobAt DEF StartExport
<1>2. held \in Seq(ShareApproval)
  BY <1>1, HeldTyped DEF Credential
<1>3. job' = [job EXCEPT ![t] = j]
  BY DEF StartExport
<1> HIDE DEF held
<1>4. j \in Job /\ j.step = "count"
  BY <1>1, <1>2 DEF Job
<1> QED
  BY <1>3, <1>4, QuietStepTyped DEF StartExport

LEMMA TypeStartWriting ==
  ASSUME TypeInv, NEW t \in Threads, StartWriting(t)
  PROVE  TypeInv'
<1> DEFINE j == [job[t] EXCEPT !.step = "emit", !.next = 1, !.upto = Len(rows)]
<1>1. job[t] \in Job /\ Len(rows) \in 0..Len(rows)
  BY JobAt DEF StartWriting
<1>2. 1 \in Nat \ {0}
  OBVIOUS
<1>3. j \in Job
  BY <1>1, <1>2 DEF Job
<1>4. j.step = "emit"
  BY <1>1 DEF Job
<1>5. job' = [job EXCEPT ![t] = j] /\ UNCHANGED <<file, policies, rows, slot>>
  BY DEF StartWriting
<1> HIDE DEF j
<1> QED
  BY <1>3, <1>4, <1>5, QuietStepTyped

LEMMA TypeValidate ==
  ASSUME TypeInv, NEW t \in Threads, NEW ns \in Namespaces,
         NEW session \in Sessions, Validate(t, ns, session)
  PROVE  TypeInv'
<1> DEFINE j == [job[t] EXCEPT !.step = "commit", !.pin = ns, !.session = session]
<1>1. job[t] \in Job
  BY JobAt DEF Validate
<1>2. /\ j \in Job /\ j.step = "commit" /\ j.pin \in Namespaces
      /\ j.session \in Sessions
  BY <1>1 DEF Job
<1>3. job' = [job EXCEPT ![t] = j] /\ UNCHANGED <<file, policies, rows, slot>>
  BY DEF Validate
<1> QED
  BY <1>2, <1>3, QuietStepTyped

LEMMA TypeCommit ==
  ASSUME TypeInv, NEW t \in Threads, NEW kind \in Kinds, Commit(t, kind)
  PROVE  TypeInv' /\ Len(rows') = Len(rows) + 1
<1> DEFINE row == [ns |-> job[t].pin, kind |-> kind,
                   by |-> job[t].caller, session |-> job[t].session]
<1>1. job[t].pin \in Namespaces /\ job[t].session \in Sessions /\ job[t].caller \in Callers
  BY JobAt DEF Commit, TypeInv, JobTyped, At, Job
<1>2. row \in Row /\ rows \in Seq(Row) /\ rows' = Append(rows, row)
  BY <1>1 DEF Row, TypeInv, StoreTyped, Commit
<1>3. rows' \in Seq(Row) /\ Len(rows') = Len(rows) + 1
  BY <1>2, AppendProperties
<1>4. StoreTyped' /\ Live <= Live' /\ Len(rows) <= Len(rows')
  BY <1>2, <1>3 DEF TypeInv, StoreTyped, Commit
<1>5. job' = [job EXCEPT ![t] = None]
  BY DEF Commit, Reply
<1> QED
  BY <1>3, <1>4, <1>5, StepTyped

LEMMA TypeQuietManager ==
  ASSUME TypeInv, NEW t \in Threads,
         \/ \E name \in Callers \cup ShareIds : StartRevoke(t, name)
         \/ AnswerRevoke(t) \/ LoadFile(t)
  PROVE  TypeInv'
<1>1. CASE \E name \in Callers \cup ShareIds : StartRevoke(t, name)
  <2>1. PICK name \in Callers \cup ShareIds : StartRevoke(t, name)
    BY <1>1
  <2> DEFINE j == [job[t] EXCEPT !.step = "revoking", !.policy = Live,
                                 !.pin = name, !.left = Callers]
  <2>2. job[t] \in Job /\ Live \in Nat
    BY <2>1, JobAt DEF StartRevoke
  <2>5. Live \in 1..Live
    BY <2>2 DEF TypeInv, StoreTyped
  <2>3. j \in Job /\ j.step = "revoking"
    BY <2>2, <2>5 DEF Job
  <2>4. job' = [job EXCEPT ![t] = j] /\ UNCHANGED <<file, policies, rows, slot>>
    BY <2>1 DEF StartRevoke, Holders
  <2> HIDE DEF j
  <2> QED
    BY <2>3, <2>4, QuietStepTyped
<1>2. CASE AnswerRevoke(t)
  <2>1. job' = [job EXCEPT ![t] = None] /\ UNCHANGED <<file, policies, rows, slot>>
    BY <1>2 DEF AnswerRevoke, Reply
  <2> QED
    BY <2>1, QuietStepTyped
<1>3. CASE LoadFile(t)
  <2> DEFINE j == [job[t] EXCEPT !.step = "install", !.next = file]
  <2>1. job[t] \in Job /\ file \in 1..Len(Files) /\ Len(Files) \in Nat
    BY <1>3, JobAt, LenProperties DEF LoadFile, TypeInv, StoreTyped
  <2>5. file \in Nat \ {0} /\ job[t] \in Job
    BY <2>1
  <2>2. j \in Job
    BY <2>5 DEF Job
  <2>4. j.step = "install" /\ j.next = file
    BY <2>1 DEF Job
  <2>3. job' = [job EXCEPT ![t] = j] /\ UNCHANGED <<file, policies, rows, slot>>
    BY <1>3 DEF LoadFile
  <2> HIDE DEF j
  <2> QED
    BY <2>1, <2>2, <2>3, <2>4, QuietStepTyped
<1> QED
  BY <1>1, <1>2, <1>3

\* One credential is changed.
LEMMA CredentialChanged ==
  ASSUME NEW files \in Seq([Callers -> Credential]), NEW p \in 1..Len(files),
         NEW c \in Callers, NEW cred \in Credential,
         NEW changed, changed = [files EXCEPT ![p] = [files[p] EXCEPT ![c] = cred]]
  PROVE  /\ changed \in Seq([Callers -> Credential]) /\ Len(changed) = Len(files)
         /\ \A q \in 1..Len(files), d \in Callers :
              changed[q][d] = IF q = p /\ d = c THEN cred ELSE files[q][d]
<1> DEFINE new == [files[p] EXCEPT ![c] = cred]
<1>2. files[p] \in [Callers -> Credential]
  BY ElementOfSeq
<1>3. new \in [Callers -> Credential]
      /\ \A d \in Callers : new[d] = IF d = c THEN cred ELSE files[p][d]
  BY <1>2
<1> HIDE DEF new
<1>4. /\ changed \in Seq([Callers -> Credential]) /\ Len(changed) = Len(files)
      /\ \A q \in 1..Len(files) : changed[q] = IF q = p THEN new ELSE files[q]
  BY <1>3, ExceptSeq DEF new
<1> QED
  BY <1>3, <1>4

\* Marking keeps everything of an approval but its revoked flag.
LEMMA MarkedTyped ==
  ASSUME NEW shares \in Seq(ShareApproval), NEW name
  PROVE  Marked(shares, name) \in Seq(ShareApproval)
<1>1. \A i \in 1..Len(shares) : shares[i] \in ShareApproval
  BY ElementOfSeq
<1> DEFINE e(i) == [shares[i] EXCEPT !.revoked = @ \/ Concerns(shares[i], name)]
<1>2. \A i \in 1..Len(shares) : e(i) \in ShareApproval
  <2> SUFFICES ASSUME NEW i \in 1..Len(shares) PROVE e(i) \in ShareApproval
    OBVIOUS
  <2>1. shares[i] \in ShareApproval
    BY <1>1
  <2>2. e(i) = [shares[i] EXCEPT !.revoked = e(i).revoked]
    BY <2>1 DEF ShareApproval
  <2>3. e(i).revoked \in BOOLEAN
    BY <2>1 DEF ShareApproval
  <2> HIDE DEF e
  <2>4. [shares[i] EXCEPT !.revoked = e(i).revoked] \in ShareApproval
    BY <2>1, <2>3 DEF ShareApproval
  <2> QED
    BY <2>2, <2>4
<1> HIDE DEF e
<1>3. [i \in 1..Len(shares) |-> e(i)] \in Seq(ShareApproval)
  BY <1>2, LenProperties
<1> QED
  BY <1>3, LenProperties DEF Marked, e

\* What the two halves of a revocation do to the policies.
LEMMA ReadSharesEffect ==
  ASSUME TypeInv, NEW t \in Threads, NEW c \in Callers, ReadShares(t, c)
  PROVE  /\ job[t] \in Job /\ c \in job[t].left /\ job[t].policy \in 1..Live
         /\ policies[job[t].policy][c] \in Credential
         /\ policies' \in Seq([Callers -> Credential]) /\ Live' = Live
         /\ policies'[job[t].policy][c] =
              [policies[job[t].policy][c] EXCEPT !.revoked = @ \/ c = job[t].pin]
         /\ \A q \in 1..Live, d \in Callers :
              (q = job[t].policy /\ d = c) \/ policies'[q][d] = policies[q][d]
<1> DEFINE p    == job[t].policy
           old  == policies[p][c]
           cred == [old EXCEPT !.revoked = @ \/ c = job[t].pin]
<1>1. job[t] \in Job /\ job[t] # None /\ c \in job[t].left
  BY JobAt DEF ReadShares
<1>2. p \in 1..Live
  BY <1>1 DEF Job
<1>3. old \in Credential
  BY <1>2, ElementOfSeq DEF TypeInv, StoreTyped
<1>4. cred \in Credential
  <2>1. cred = [old EXCEPT !.revoked = cred.revoked] /\ cred.revoked \in BOOLEAN
    BY <1>3 DEF Credential
  <2> QED
    BY <1>3, <2>1 DEF Credential
<1>5. policies' = [policies EXCEPT ![p] = [policies[p] EXCEPT ![c] = cred]]
  BY DEF ReadShares
<1>7. policies \in Seq([Callers -> Credential])
  BY DEF TypeInv, StoreTyped
<1> HIDE DEF p, old, cred
<1>6. /\ policies' \in Seq([Callers -> Credential]) /\ Live' = Live
      /\ \A q \in 1..Live, d \in Callers :
           policies'[q][d] = IF q = p /\ d = c THEN cred ELSE policies[q][d]
  BY <1>2, <1>4, <1>5, <1>7, CredentialChanged
<1> QED
  BY <1>1, <1>2, <1>3, <1>6 DEF p, old, cred

LEMMA StoreSharesEffect ==
  ASSUME TypeInv, NEW t \in Threads, StoreShares(t)
  PROVE  /\ job[t] \in Job
         /\ job[t].policy \in 1..Live /\ job[t].caller \in Callers
         /\ policies[job[t].policy][job[t].caller] \in Credential
         /\ policies' \in Seq([Callers -> Credential]) /\ Live' = Live
         /\ policies'[job[t].policy][job[t].caller] =
              [policies[job[t].policy][job[t].caller] EXCEPT !.shares = job[t].shares]
         /\ \A q \in 1..Live, d \in Callers :
              (q = job[t].policy /\ d = job[t].caller) \/ policies'[q][d] = policies[q][d]
<1> DEFINE p    == job[t].policy
           c    == job[t].caller
           old  == policies[p][c]
           cred == [old EXCEPT !.shares = job[t].shares]
<1>1. job[t] \in Job /\ job[t] # None
  BY JobAt DEF StoreShares
<1>2. p \in 1..Live /\ c \in Callers /\ job[t].shares \in Seq(ShareApproval)
  BY <1>1 DEF Job
<1>3. old \in Credential
  BY <1>2, ElementOfSeq DEF TypeInv, StoreTyped
<1>4. cred \in Credential
  BY <1>2, <1>3 DEF Credential
<1>5. policies' = [policies EXCEPT ![p] = [policies[p] EXCEPT ![c] = cred]]
  BY DEF StoreShares
<1>7. policies \in Seq([Callers -> Credential])
  BY DEF TypeInv, StoreTyped
<1> HIDE DEF p, c, old, cred
<1>6. /\ policies' \in Seq([Callers -> Credential]) /\ Live' = Live
      /\ \A q \in 1..Live, d \in Callers :
           policies'[q][d] = IF q = p /\ d = c THEN cred ELSE policies[q][d]
  BY <1>2, <1>4, <1>5, <1>7, CredentialChanged
<1> QED
  BY <1>1, <1>2, <1>3, <1>6 DEF p, c, old, cred

LEMMA TypeReadShares ==
  ASSUME TypeInv, NEW t \in Threads, NEW c \in Callers, ReadShares(t, c)
  PROVE  TypeInv'
<1> DEFINE shares == policies[job[t].policy][c].shares
           marked == Marked(shares, job[t].pin)
<1>1. /\ job[t] \in Job /\ job[t].policy \in 1..Live
      /\ policies[job[t].policy][c] \in Credential
      /\ policies' \in Seq([Callers -> Credential]) /\ Live' = Live
  BY ReadSharesEffect
<1>2. marked \in Seq(ShareApproval)
  <2>1. shares \in Seq(ShareApproval)
    BY <1>1 DEF Credential
  <2> QED
    BY <2>1, MarkedTyped
<1> HIDE DEF marked
<1>3. PICK s \in {"revoking", "store"} :
        job' = [job EXCEPT ![t] = [job[t] EXCEPT !.step = s, !.caller = c,
                                     !.left = job[t].left \ {c}, !.shares = marked]]
  BY DEF ReadShares, marked
<1> DEFINE j == [job[t] EXCEPT !.step = s, !.caller = c,
                               !.left = job[t].left \ {c}, !.shares = marked]
<1>4. job[t].left \ {c} \in SUBSET Callers
  BY <1>1 DEF Job
<1>5. j \in Job /\ j.step = s
  BY <1>1, <1>2, <1>4 DEF Job
<1>8. UNCHANGED <<file, rows, slot>>
  BY DEF ReadShares
<1>6. Job' = Job
  BY <1>1, <1>8 DEF Job
<1>7. StoreTyped' /\ Live <= Live' /\ Len(rows) <= Len(rows')
  BY <1>1, <1>8 DEF TypeInv, StoreTyped
<1> HIDE DEF j
<1> QED
  BY <1>3, <1>5, <1>6, <1>7, StepTyped DEF j

LEMMA TypeStoreShares ==
  ASSUME TypeInv, NEW t \in Threads, StoreShares(t)
  PROVE  TypeInv'
<1> DEFINE j == [job[t] EXCEPT !.step = "revoking", !.shares = <<>>]
<1>1. /\ job[t] \in Job
      /\ policies' \in Seq([Callers -> Credential]) /\ Live' = Live
  BY StoreSharesEffect
<1>2. job' = [job EXCEPT ![t] = j]
  BY DEF StoreShares
<1>3. j \in Job /\ j.step = "revoking"
  BY <1>1, EmptySeq DEF Job
<1>6. UNCHANGED <<file, rows, slot>>
  BY DEF StoreShares
<1>4. Job' = Job
  BY <1>1, <1>6 DEF Job
<1>5. StoreTyped' /\ Live <= Live' /\ Len(rows) <= Len(rows')
  BY <1>1, <1>6 DEF TypeInv, StoreTyped
<1> HIDE DEF j
<1> QED
  BY <1>2, <1>3, <1>4, <1>5, StepTyped

\* What a reload does: the policies so far are kept.
LEMMA InstallEffect ==
  ASSUME TypeInv, NEW t \in Threads, Install(t)
  PROVE  /\ job[t].next \in 1..Len(Files)
         /\ policies' \in Seq([Callers -> Credential]) /\ Live' = Live + 1
         /\ \A q \in 1..Live : policies'[q] = policies[q]
         /\ policies'[Live'] = Files[job[t].next]
<1>1. job[t].next \in 1..Len(Files)
  BY DEF Install, At, TypeInv, JobTyped
<1>2. Files[job[t].next] \in [Callers -> Credential]
  BY <1>1, ElementOfSeq
<1>3. policies \in Seq([Callers -> Credential])
      /\ policies' = Append(policies, Files[job[t].next])
  BY DEF Install, TypeInv, StoreTyped
<1> QED
  BY <1>1, <1>2, <1>3, AppendProperties

LEMMA TypeInstall ==
  ASSUME TypeInv, NEW t \in Threads, Install(t)
  PROVE  TypeInv'
<1>1. policies' \in Seq([Callers -> Credential]) /\ Live' = Live + 1
  BY InstallEffect
<1>2. Live \in Nat
  BY LenProperties DEF TypeInv, StoreTyped
<1>3. StoreTyped' /\ Live <= Live' /\ Len(rows) <= Len(rows')
  BY <1>1, <1>2 DEF Install, TypeInv, StoreTyped
<1>4. job' = [job EXCEPT ![t] = None]
  BY DEF Install, Reply
<1> QED
  BY <1>3, <1>4, StepTyped

LEMMA TypeStep == TypeInv /\ [Next]_vars => TypeInv'
<1> SUFFICES ASSUME TypeInv, [Next]_vars PROVE TypeInv'
  OBVIOUS
<1>1. CASE UNCHANGED vars
  BY <1>1 DEF vars, TypeInv, StoreTyped, JobShape, JobTyped, Job
<1>2. CASE EditFile
  BY <1>2, LenProperties DEF EditFile, TypeInv, StoreTyped, JobShape, JobTyped, Job
<1>3. ASSUME NEW t \in Workers, Serve(t) PROVE TypeInv'
  BY <1>3, TypeResolve, TypeReply, TypeRowStep, TypeStartRead, TypeStartExport, TypeStartWriting,
     TypeValidate, TypeCommit DEF Serve, Threads, Operations
<1>4. ASSUME NEW t \in Managers, Manage(t) PROVE TypeInv'
  BY <1>4, TypeResolve, TypeReply, TypeQuietManager, TypeReadShares,
     TypeStoreShares, TypeInstall DEF Manage, Threads
<1> QED
  BY <1>1, <1>2, <1>3, <1>4 DEF Next

\* The store, the policies and the requests are well formed.
THEOREM AccessTyped == Spec => []TypeInv
<1> QED
  BY TypeInit, TypeStep, PTL DEF Spec

-----------------------------------------------------------------------------
(* Who changes what.                                                       *)

\* A thread serves its own request only.
LEMMA OthersWait ==
  ASSUME TypeInv, NEW u \in Threads, Serve(u) \/ Manage(u),
         NEW v \in Threads \ {u}
  PROVE  job'[v] = job[v]
<1>1. JobShape
  BY DEF TypeInv
<1>2. CASE \E caller \in Callers, op \in Operations \cup {"revoke", "reload"},
             pin \in Pins \cup {None}, session \in Sessions \cup {None} :
             Resolve(u, caller, op, pin, session)
  BY <1>1, <1>2 DEF Resolve, JobShape
<1>3. CASE StartRead(u) \/ Answer(u) \/ StartExport(u) \/ StartWriting(u)
           \/ Publish(u) \/ Fail(u)
  BY <1>1, <1>3 DEF StartRead, Answer, StartExport, StartWriting, Publish,
     Fail, Reply, JobShape
<1>4. CASE AskExport(u) \/ AskRead(u) \/ Disclose(u)
  BY <1>1, <1>4 DEF AskExport, AskRead, Disclose, JobShape
<1>5. CASE \/ \E ns \in Namespaces, session \in Sessions : Validate(u, ns, session)
           \/ \E kind \in Kinds : Commit(u, kind)
  BY <1>1, <1>5 DEF Validate, Commit, Reply, JobShape
<1>6. CASE \/ \E name \in Callers \cup ShareIds : StartRevoke(u, name)
           \/ AnswerRevoke(u) \/ LoadFile(u) \/ Install(u) \/ StoreShares(u)
  BY <1>1, <1>6 DEF StartRevoke, AnswerRevoke, LoadFile, Install, StoreShares,
     Reply, JobShape
<1>7. CASE \E c \in Callers : ReadShares(u, c)
  BY <1>1, <1>7 DEF ReadShares, JobShape
<1> QED
  BY <1>2, <1>3, <1>4, <1>5, <1>6, <1>7 DEF Serve, Manage, Operations

LEMMA OwnStep ==
  ASSUME TypeInv, [Next]_vars, NEW t \in Threads, job'[t] # job[t]
  PROVE  \/ t \in Workers /\ Serve(t)
         \/ t \in Managers /\ Manage(t)
<1>1. CASE UNCHANGED vars \/ EditFile
  BY <1>1 DEF vars, EditFile
<1>2. ASSUME NEW u \in Workers, Serve(u) PROVE u = t
  BY <1>2, OthersWait DEF Threads
<1>3. ASSUME NEW u \in Managers, Manage(u) PROVE u = t
  BY <1>3, OthersWait DEF Threads
<1> QED
  BY <1>1, <1>2, <1>3 DEF Next

\* Only a revocation or a reload changes the policies, ...
LEMMA PolicyStep ==
  ASSUME [Next]_vars, policies' # policies
  PROVE  \E m \in Managers : \/ \E c \in Callers : ReadShares(m, c)
                             \/ StoreShares(m) \/ Install(m)
<1>1. CASE UNCHANGED vars \/ EditFile
  BY <1>1 DEF vars, EditFile
<1>2. ASSUME NEW t \in Workers, Serve(t) PROVE policies' = policies
  BY <1>2 DEF Serve, Resolve, StartRead, AskExport, AskRead, Disclose, Answer, StartExport,
     StartWriting, Publish, Validate, Commit, Fail
<1>3. ASSUME NEW m \in Managers, Manage(m)
      PROVE  \/ \E c \in Callers : ReadShares(m, c)
             \/ StoreShares(m) \/ Install(m)
  BY <1>3 DEF Manage, Resolve, StartRevoke, AnswerRevoke, LoadFile, Fail
<1> QED
  BY <1>1, <1>2, <1>3 DEF Next

\* ... and only a commit the rows.
LEMMA RowStep ==
  ASSUME [Next]_vars, rows' # rows
  PROVE  \E t \in Workers, kind \in Kinds : Commit(t, kind)
<1>1. CASE UNCHANGED vars \/ EditFile
  BY <1>1 DEF vars, EditFile
<1>2. ASSUME NEW t \in Workers, Serve(t)
      PROVE  \E kind \in Kinds : Commit(t, kind)
  BY <1>2 DEF Serve, Resolve, StartRead, AskExport, AskRead, Disclose, Answer, StartExport,
     StartWriting, Publish, Validate, Fail
<1>3. ASSUME NEW m \in Managers, Manage(m) PROVE rows' = rows
  BY <1>3 DEF Manage, Resolve, StartRevoke, ReadShares, StoreShares,
     AnswerRevoke, LoadFile, Install, Fail
<1> QED
  BY <1>1, <1>2, <1>3 DEF Next

\* The step that a request reaches, and how.
LEMMA NextStepOf ==
  ASSUME TypeInv, NEW t \in Threads, Serve(t) \/ Manage(t), job'[t] # None
  PROVE  \/ job[t] = None /\ job'[t].step \in Operations \cup {"revoke", "reload"}
         \/ StartRead(t) /\ job'[t].step = "scan"
         \/ StartExport(t) /\ job'[t].step = "count"
         \/ StartWriting(t) /\ job'[t].step = "emit"
         \/ /\ AskExport(t) \/ AskRead(t) \/ Disclose(t)
            /\ job'[t].step = job[t].step
            /\ job[t].step \in {"scan", "count", "emit"}
         \/ /\ \E ns \in Namespaces, session \in Sessions : Validate(t, ns, session)
            /\ job'[t].step = "commit"
         \/ /\ \/ \E name \in Callers \cup ShareIds : StartRevoke(t, name)
               \/ StoreShares(t)
            /\ job'[t].step = "revoking"
         \/ /\ \E c \in Callers : ReadShares(t, c)
            /\ job'[t].step \in {"revoking", "store"}
         \/ LoadFile(t) /\ job'[t].step = "install"
<1>1. JobShape
  BY DEF TypeInv
<1>2. job[t] # None => job[t] \in Job
  BY DEF TypeInv, JobTyped
<1>3. ASSUME NEW caller, NEW op \in Operations \cup {"revoke", "reload"}, NEW pin,
             NEW session, Resolve(t, caller, op, pin, session)
      PROVE  job[t] = None /\ job'[t].step = op
  BY <1>1, <1>3 DEF Resolve, JobShape
<1>4. Answer(t) \/ Publish(t) \/ Fail(t) \/ AnswerRevoke(t) \/ Install(t)
        \/ (\E kind \in Kinds : Commit(t, kind)) => FALSE
  BY <1>1 DEF Answer, Publish, Fail, AnswerRevoke, Install, Commit, Reply, JobShape
<1>5. StartRead(t) => job'[t].step = "scan"
  BY <1>1, <1>2 DEF StartRead, At, Job, JobShape
<1>6. StartExport(t) => job'[t].step = "count"
  BY <1>1, <1>2 DEF StartExport, At, Job, JobShape
<1>7. StartWriting(t) => job'[t].step = "emit"
  BY <1>1, <1>2 DEF StartWriting, At, Job, JobShape
<1>8. AskExport(t) \/ AskRead(t) \/ Disclose(t)
        => job'[t].step = job[t].step /\ job[t].step \in {"scan", "count", "emit"}
  BY RowStepOf
<1>12. (\E ns \in Namespaces, session \in Sessions : Validate(t, ns, session))
         => job'[t].step = "commit"
  BY <1>1, <1>2 DEF Validate, At, Job, JobShape
<1>13. (\E name \in Callers \cup ShareIds : StartRevoke(t, name))
         => job'[t].step = "revoking"
  BY <1>1, <1>2 DEF StartRevoke, At, Job, JobShape
<1>14. StoreShares(t) => job'[t].step = "revoking"
  BY <1>1, <1>2 DEF StoreShares, At, Job, JobShape
<1>15. ASSUME NEW c \in Callers, ReadShares(t, c)
       PROVE  job'[t].step \in {"revoking", "store"}
  BY <1>1, <1>2, <1>15 DEF ReadShares, At, Job, JobShape
<1>16. LoadFile(t) => job'[t].step = "install"
  BY <1>1, <1>2 DEF LoadFile, At, Job, JobShape
<1>17. CASE Serve(t)
  <2>1. \/ \E caller \in Callers, op \in Operations,
              pin \in Pins \cup {None}, session \in Sessions \cup {None} :
              Resolve(t, caller, op, pin, session)
        \/ AskExport(t) \/ AskRead(t) \/ Disclose(t)
        \/ StartRead(t) \/ Answer(t)
        \/ StartExport(t) \/ StartWriting(t) \/ Publish(t)
        \/ \E ns \in Namespaces, session \in Sessions : Validate(t, ns, session)
        \/ \E kind \in Kinds : Commit(t, kind)
        \/ Fail(t)
    BY <1>17 DEF Serve, Operations
  <2> QED
    BY <2>1, <1>3, <1>4, <1>5, <1>6, <1>7, <1>8, <1>12
<1>18. CASE Manage(t)
  BY <1>18, <1>3, <1>4, <1>13, <1>14, <1>15, <1>16 DEF Manage
<1> QED
  BY <1>17, <1>18

LEMMA OnlyResolveBegins ==
  ASSUME TypeInv, [Next]_vars, NEW t \in Threads, job[t] = None, job'[t] # None
  PROVE  \E caller \in Callers, op \in Operations \cup {"revoke", "reload"},
            pin \in Pins \cup {None}, session \in Sessions \cup {None} :
            Resolve(t, caller, op, pin, session)
<1>1. \/ t \in Workers /\ Serve(t)
      \/ t \in Managers /\ Manage(t)
  BY OwnStep
<1> QED
  BY <1>1 DEF Serve, Manage, StartRead, AskExport, AskRead, Disclose, Answer, StartExport,
     StartWriting, Publish, Validate, Commit, Fail, StartRevoke,
     ReadShares, StoreShares, AnswerRevoke, LoadFile, Install, At, Exporting, Operations

\* The write slot is taken when it is free and given back by its holder.
LEMMA SlotStep ==
  ASSUME [Next]_vars, slot' # slot
  PROVE  \E t \in Threads : \/ StartExport(t) \/ Publish(t)
                            \/ Fail(t) /\ slot = t
<1>1. CASE UNCHANGED vars \/ EditFile
  BY <1>1 DEF vars, EditFile
<1>2. ASSUME NEW t \in Workers, Serve(t)
      PROVE  \/ StartExport(t) \/ Publish(t)
             \/ Fail(t) /\ slot = t
  BY <1>2 DEF Serve, Resolve, StartRead, AskExport, AskRead, Disclose, Answer,
     StartWriting, Validate, Commit, Fail
<1>3. ASSUME NEW m \in Managers, Manage(m) PROVE Fail(m) /\ slot = m
  BY <1>3 DEF Manage, Resolve, StartRevoke, ReadShares, StoreShares,
     AnswerRevoke, LoadFile, Install, Fail
<1> QED
  BY <1>1, <1>2, <1>3 DEF Next, Threads

-----------------------------------------------------------------------------
(* Sessions.                                                               *)

\* Policies are never taken back, and no step changes their sessions.
LEMMA SessionsStay ==
  ASSUME TypeInv, [Next]_vars
  PROVE  /\ Live \in Nat /\ Live' \in Nat /\ Live <= Live'
         /\ \A p \in 1..Live, c \in Callers :
              policies'[p][c].sessions = policies[p][c].sessions
<1>1. Live \in Nat /\ policies \in Seq([Callers -> Credential])
  BY LenProperties DEF TypeInv, StoreTyped
<1>2. \A p \in 1..Live, c \in Callers : policies[p][c] \in Credential
  BY <1>1, ElementOfSeq
<1>3. CASE policies' = policies
  BY <1>1, <1>3
<1>4. ASSUME NEW m \in Managers, NEW c \in Callers, ReadShares(m, c)
      PROVE  Live' = Live /\ \A p \in 1..Live, d \in Callers :
               policies'[p][d].sessions = policies[p][d].sessions
  <2>1. m \in Threads
    BY DEF Threads
  <2>2. /\ Live' = Live
        /\ policies'[job[m].policy][c] =
             [policies[job[m].policy][c] EXCEPT !.revoked = @ \/ c = job[m].pin]
        /\ \A p \in 1..Live, d \in Callers :
             (p = job[m].policy /\ d = c) \/ policies'[p][d] = policies[p][d]
    BY <1>4, <2>1, ReadSharesEffect
  <2> SUFFICES ASSUME NEW p \in 1..Live, NEW d \in Callers
               PROVE  policies'[p][d].sessions = policies[p][d].sessions
    BY <2>2
  <2>3. policies[p][d] \in Credential
    BY <1>2
  <2>4. \/ policies'[p][d] = policies[p][d]
        \/ policies'[p][d] = [policies[p][d] EXCEPT !.revoked = @ \/ c = job[m].pin]
    BY <2>2
  <2>5. [policies[p][d] EXCEPT !.revoked = @ \/ c = job[m].pin].sessions
          = policies[p][d].sessions
    BY <2>3 DEF Credential
  <2> QED
    BY <2>4, <2>5
<1>5. ASSUME NEW m \in Managers, StoreShares(m)
      PROVE  Live' = Live /\ \A p \in 1..Live, d \in Callers :
               policies'[p][d].sessions = policies[p][d].sessions
  <2>1. m \in Threads
    BY DEF Threads
  <2>2. /\ Live' = Live
        /\ policies'[job[m].policy][job[m].caller] =
             [policies[job[m].policy][job[m].caller] EXCEPT !.shares = job[m].shares]
        /\ \A p \in 1..Live, d \in Callers :
             (p = job[m].policy /\ d = job[m].caller) \/ policies'[p][d] = policies[p][d]
    BY <1>5, <2>1, StoreSharesEffect
  <2> SUFFICES ASSUME NEW p \in 1..Live, NEW d \in Callers
               PROVE  policies'[p][d].sessions = policies[p][d].sessions
    BY <2>2
  <2>3. policies[p][d] \in Credential
    BY <1>2
  <2>4. \/ policies'[p][d] = policies[p][d]
        \/ policies'[p][d] = [policies[p][d] EXCEPT !.shares = job[m].shares]
    BY <2>2
  <2>5. [policies[p][d] EXCEPT !.shares = job[m].shares].sessions
          = policies[p][d].sessions
    BY <2>3 DEF Credential
  <2> QED
    BY <2>4, <2>5
<1>6. ASSUME NEW m \in Managers, Install(m)
      PROVE  Live' = Live + 1 /\ \A p \in 1..Live : policies'[p] = policies[p]
  BY <1>6, InstallEffect DEF Threads
<1> QED
  BY <1>1, <1>3, <1>4, <1>5, <1>6, PolicyStep

\* A write about to be committed was validated against some policy.
Validated(t) ==
  At(t, "commit") => \E p \in job[t].policy .. Live :
    job[t].session \notin ClaimedByOthers(policies[p], job[t].caller)

SessionInv == TypeInv /\ \A t \in Threads : Validated(t)


LEMMA ValidatedStep ==
  ASSUME TypeInv, [Next]_vars, NEW t \in Threads, Validated(t)
  PROVE  Validated(t)'
<1> SUFFICES ASSUME At(t, "commit")'
             PROVE  \E p \in job'[t].policy .. Live' :
                      job'[t].session \notin ClaimedByOthers(policies'[p], job'[t].caller)
  BY DEF Validated
<1>1. /\ Live \in Nat /\ Live' \in Nat /\ Live <= Live'
      /\ \A p \in 1..Live, c \in Callers :
           policies'[p][c].sessions = policies[p][c].sessions
  BY SessionsStay
<1>2. \A p \in 1..Live, c \in Callers :
        ClaimedByOthers(policies'[p], c) = ClaimedByOthers(policies[p], c)
  <2> SUFFICES ASSUME NEW p \in 1..Live, NEW c \in Callers
               PROVE  ClaimedByOthers(policies'[p], c) = ClaimedByOthers(policies[p], c)
    OBVIOUS
  <2>1. \A d \in Callers \ {c} : policies'[p][d].sessions = policies[p][d].sessions
    BY <1>1
  <2>2. {policies'[p][d].sessions : d \in Callers \ {c}}
          = {policies[p][d].sessions : d \in Callers \ {c}}
    BY <2>1
  <2> QED
    BY <2>2 DEF ClaimedByOthers
<1>3. job[t] # None => job[t].policy \in 1..Live /\ job[t].caller \in Callers
  BY HeldTyped
<1>4. CASE job'[t] = job[t]
  <2>1. PICK p \in job[t].policy .. Live :
          job[t].session \notin ClaimedByOthers(policies[p], job[t].caller)
    BY <1>4 DEF Validated, At
  <2>2. p \in 1..Live /\ p \in job[t].policy .. Live' /\ job[t].caller \in Callers
    BY <1>1, <1>3, <1>4, <2>1 DEF At
  <2> QED
    BY <1>2, <1>4, <2>1, <2>2
<1>5. CASE job'[t] # job[t]
  <2>1. PICK ns \in Namespaces, session \in Sessions : Validate(t, ns, session)
    BY <1>5, OwnStep, NextStepOf DEF At, Operations
  <2>2. /\ job'[t].policy = job[t].policy /\ job'[t].caller = job[t].caller
        /\ job'[t].session = session /\ job[t] # None
        /\ session \notin ClaimedByOthers(policies[Live], job[t].caller)
        /\ policies' = policies
    BY <2>1 DEF Validate, At, MayName, TypeInv, JobShape, JobTyped, Job
  <2>3. Live \in 1..Live /\ Live \in job'[t].policy .. Live' /\ job[t].caller \in Callers
    BY <1>1, <1>3, <2>2
  <2> QED
    BY <1>2, <2>2, <2>3
<1> QED
  BY <1>4, <1>5

LEMMA SessionStep == SessionInv /\ [Next]_vars => SessionInv'
BY TypeStep, ValidatedStep DEF SessionInv

\* The row that a commit stores names the session of its request.
LEMMA CommitOwns ==
  ASSUME SessionInv, [Next]_vars, NEW t \in Workers,
         rows' # rows, job[t] # None, job'[t] = None
  PROVE  \E p \in job[t].policy .. Live :
           job[t].session \notin ClaimedByOthers(policies[p], job[t].caller)
<1>1. PICK u \in Workers, kind \in Kinds : Commit(u, kind)
  BY RowStep
<1>2. u = t
  <2>1. u \in Threads /\ t \in Threads /\ Serve(u)
    BY <1>1 DEF Threads, Serve
  <2> QED
    BY <2>1, OthersWait DEF SessionInv
<1> QED
  BY <1>1, <1>2 DEF Commit, SessionInv, Validated, Threads

\* A row names a session that belonged to nobody but its writer.
THEOREM SessionsAreOwn == Spec => OwnSessions
<1>1. Init => SessionInv
  BY TypeInit DEF Init, SessionInv, Validated, At
<1>2. SessionInv /\ [Next]_vars
        => [\A t \in Workers :
              rows' # rows /\ job[t] # None /\ job'[t] = None =>
                \E p \in job[t].policy .. Live :
                  job[t].session \notin ClaimedByOthers(policies[p], job[t].caller)]_vars
  BY CommitOwns
<1> QED
  BY <1>1, <1>2, SessionStep, PTL DEF Spec, OwnSessions

-----------------------------------------------------------------------------
(* Revocation, by one manager at a time: two of them can undo each other's *)
(* changes, see the README.                                                *)

OneManager == \A m1, m2 \in Managers : m1 = m2

\* A revocation has dealt with the credential of a caller.
Done(cred, c, name) ==
  /\ c = name => cred.revoked
  /\ \A i \in DOMAIN cred.shares :
       Concerns(cred.shares[i], name) => cred.shares[i].revoked

\* How far a revocation has come.
Progress(m) ==
  /\ At(m, "revoking") =>
       \A c \in Callers \ job[m].left : Done(policies[job[m].policy][c], c, job[m].pin)
  /\ At(m, "store") =>
       /\ \A c \in Callers \ (job[m].left \cup {job[m].caller}) :
            Done(policies[job[m].policy][c], c, job[m].pin)
       /\ job[m].shares =
            Marked(policies[job[m].policy][job[m].caller].shares, job[m].pin)
       /\ job[m].caller = job[m].pin =>
            policies[job[m].policy][job[m].caller].revoked

\* What was taken away stays away.
RevokedHold ==
  \A p, c, i : <<p, c, i>> \in revoked =>
    /\ p \in 1..Live /\ c \in Callers
    /\ \/ i = 0 /\ policies[p][c].revoked
       \/ i \in DOMAIN policies[p][c].shares /\ policies[p][c].shares[i].revoked

RevocationInv ==
  TypeInv /\ RevokedHold /\ \A m \in Managers : Progress(m)

\* Approvals of which some may have been revoked since.
Older(old, new) ==
  /\ DOMAIN new = DOMAIN old
  /\ \A i \in DOMAIN old :
       /\ old[i].revoked => new[i].revoked
       /\ new[i].id = old[i].id /\ new[i].audience = old[i].audience
       /\ new[i].ns = old[i].ns /\ new[i].ops = old[i].ops
       /\ new[i].secret = old[i].secret /\ new[i].private = old[i].private

\* Revocations are never undone, and nothing else of a credential changes.
Grown(old, new) ==
  /\ old.revoked => new.revoked
  /\ new.ns = old.ns /\ new.ops = old.ops
  /\ new.secret = old.secret /\ new.private = old.private
  /\ Older(old.shares, new.shares)

\* What marking changes.
LEMMA MarkedShare ==
  ASSUME NEW shares \in Seq(ShareApproval), NEW name, NEW i \in DOMAIN shares
  PROVE  LET old == shares[i]
             new == Marked(shares, name)[i]
         IN  /\ new.revoked <=> (old.revoked \/ Concerns(old, name))
             /\ new.id = old.id /\ new.audience = old.audience
             /\ new.ns = old.ns /\ new.ops = old.ops
             /\ new.secret = old.secret /\ new.private = old.private
<1>1. shares[i] \in ShareApproval
  BY ElementOfSeq, LenProperties
<1>2. Marked(shares, name)[i]
        = [shares[i] EXCEPT !.revoked = @ \/ Concerns(shares[i], name)]
  BY DEF Marked
<1> QED
  BY <1>1, <1>2 DEF ShareApproval

LEMMA CredentialTyped ==
  ASSUME TypeInv, NEW p \in 1..Live, NEW c \in Callers
  PROVE  /\ policies[p][c] \in Credential
         /\ policies[p][c].shares \in Seq(ShareApproval)
         /\ policies[p][c].revoked \in BOOLEAN
         /\ 0 \notin DOMAIN policies[p][c].shares
<1>1. policies[p][c] \in Credential
  BY ElementOfSeq DEF TypeInv, StoreTyped
<1>2. policies[p][c].shares \in Seq(ShareApproval) /\ policies[p][c].revoked \in BOOLEAN
  BY <1>1 DEF Credential
<1> QED
  BY <1>1, <1>2, LenProperties

LEMMA PoliciesGrow ==
  ASSUME OneManager, TypeInv, [Next]_vars, \A m \in Managers : Progress(m),
         NEW p \in 1..Live, NEW c \in Callers
  PROVE  Grown(policies[p][c], policies'[p][c])
<1>1. policies[p][c] \in Credential /\ policies[p][c].shares \in Seq(ShareApproval)
  BY CredentialTyped
<1>2. CASE policies'[p][c] = policies[p][c]
  BY <1>2 DEF Grown, Older
<1>3. ASSUME NEW m \in Managers, NEW d \in Callers, ReadShares(m, d)
      PROVE  Grown(policies[p][c], policies'[p][c])
  <2>1. m \in Threads
    BY DEF Threads
  <2>2. \/ policies'[p][c] = policies[p][c]
        \/ policies'[p][c] = [policies[p][c] EXCEPT !.revoked = @ \/ d = job[m].pin]
    <3>1. /\ policies'[job[m].policy][d] = [policies[job[m].policy][d]
                 EXCEPT !.revoked = @ \/ d = job[m].pin]
          /\ (p = job[m].policy /\ c = d) \/ policies'[p][c] = policies[p][c]
      BY <1>3, <2>1, ReadSharesEffect
    <3> QED
      BY <3>1
  <2>3. CASE policies'[p][c] = [policies[p][c] EXCEPT !.revoked = @ \/ d = job[m].pin]
    <3>1. /\ policies'[p][c].shares = policies[p][c].shares
          /\ policies'[p][c].ns = policies[p][c].ns
          /\ policies'[p][c].ops = policies[p][c].ops
          /\ policies'[p][c].secret = policies[p][c].secret
          /\ policies'[p][c].private = policies[p][c].private
          /\ policies[p][c].revoked => policies'[p][c].revoked
      BY <1>1, <2>3 DEF Credential
    <3> QED
      BY <3>1 DEF Grown, Older
  <2> QED
    BY <1>2, <2>2, <2>3
<1>4. ASSUME NEW m \in Managers, StoreShares(m)
      PROVE  Grown(policies[p][c], policies'[p][c])
  <2>1. m \in Threads
    BY DEF Threads
  <2>2. \/ policies'[p][c] = policies[p][c]
        \/ /\ p = job[m].policy /\ c = job[m].caller
           /\ policies'[p][c] = [policies[p][c] EXCEPT !.shares = job[m].shares]
    <3>1. /\ policies'[job[m].policy][job[m].caller] =
               [policies[job[m].policy][job[m].caller] EXCEPT !.shares = job[m].shares]
          /\ \/ p = job[m].policy /\ c = job[m].caller
             \/ policies'[p][c] = policies[p][c]
      BY <1>4, <2>1, StoreSharesEffect
    <3> QED
      BY <3>1
  <2>3. CASE /\ p = job[m].policy /\ c = job[m].caller
             /\ policies'[p][c] = [policies[p][c] EXCEPT !.shares = job[m].shares]
    <3> DEFINE old == policies[p][c].shares
               new == Marked(old, job[m].pin)
    <3>1. job[m].shares = new
      BY <1>4, <2>3 DEF Progress, StoreShares
    <3>2. /\ policies'[p][c].shares = new
          /\ policies'[p][c].revoked = policies[p][c].revoked
          /\ policies'[p][c].ns = policies[p][c].ns
          /\ policies'[p][c].ops = policies[p][c].ops
          /\ policies'[p][c].secret = policies[p][c].secret
          /\ policies'[p][c].private = policies[p][c].private
      BY <1>1, <2>3, <3>1 DEF Credential
    <3>3. DOMAIN new = DOMAIN old
      BY DEF Marked
    <3>4. \A i \in DOMAIN old :
            /\ old[i].revoked => new[i].revoked
            /\ new[i].id = old[i].id /\ new[i].audience = old[i].audience
            /\ new[i].ns = old[i].ns /\ new[i].ops = old[i].ops
            /\ new[i].secret = old[i].secret /\ new[i].private = old[i].private
      <4>1. old \in Seq(ShareApproval)
        BY <1>1
      <4> HIDE DEF old
      <4> QED
        BY <4>1, MarkedShare
    <3> HIDE DEF new
    <3> QED
      BY <3>2, <3>3, <3>4 DEF Grown, Older
  <2> QED
    BY <1>2, <2>2, <2>3
<1>5. ASSUME NEW m \in Managers, Install(m)
      PROVE  Grown(policies[p][c], policies'[p][c])
  <2>1. policies'[p][c] = policies[p][c]
    BY <1>5, InstallEffect DEF Threads
  <2> QED
    BY <1>2, <2>1
<1> QED
  BY <1>2, <1>3, <1>4, <1>5, PolicyStep

LEMMA DoneStays ==
  ASSUME NEW old, NEW new, NEW c, NEW name, Grown(old, new), Done(old, c, name)
  PROVE  Done(new, c, name)
BY DEF Grown, Older, Done, Concerns

LEMMA ProgressStep ==
  ASSUME OneManager, TypeInv, [Next]_vars, \A m \in Managers : Progress(m),
         NEW m \in Managers
  PROVE  Progress(m)'
<1>1. m \in Threads /\ m \notin Workers
  BY DEF Threads
<1>2. \A p \in 1..Live, c \in Callers : Grown(policies[p][c], policies'[p][c])
  BY PoliciesGrow
<1>3. CASE job'[m] = job[m] /\ policies' = policies
  BY <1>3 DEF Progress, At, Done
<1>4. CASE Manage(m)
  <2>1. CASE job'[m] = None
    BY <2>1 DEF Progress, At
  <2>2. CASE \E name \in Callers \cup ShareIds : StartRevoke(m, name)
    <3>1. job[m] \in Job
      BY <1>1, <2>2, JobAt DEF StartRevoke
    <3>2. job'[m].left = Callers /\ job'[m].step = "revoking"
      BY <1>1, <2>2, <3>1 DEF StartRevoke, Holders, TypeInv, JobShape, Job
    <3> QED
      BY <3>2 DEF Progress, At
  <2>3. ASSUME NEW c \in Callers, ReadShares(m, c) PROVE Progress(m)'
    <3> DEFINE p      == job[m].policy
               name   == job[m].pin
               shares == policies[p][c].shares
               marked == Marked(shares, name)
    <3>1. /\ job[m] \in Job /\ c \in job[m].left /\ p \in 1..Live
          /\ policies[p][c] \in Credential
          /\ policies'[p][c] = [policies[p][c] EXCEPT !.revoked = @ \/ c = name]
      BY <1>1, <2>3, ReadSharesEffect
    <3>2. /\ shares \in Seq(ShareApproval)
          /\ policies'[p][c].shares = shares
          /\ c = name => policies'[p][c].revoked
      BY <3>1 DEF Credential
    <3>3. /\ job'[m].policy = p /\ job'[m].pin = name /\ job'[m].caller = c
          /\ job'[m].left = job[m].left \ {c} /\ job'[m].shares = marked
          /\ job'[m].step = IF name \in Callers /\ marked = shares
                            THEN "revoking" ELSE "store"
      BY <1>1, <2>3, <3>1 DEF ReadShares, TypeInv, JobShape, Job
    <3>4. \A d \in Callers \ job[m].left : Done(policies[p][d], d, name)
      BY <2>3 DEF ReadShares, Progress
    <3>5. \A d \in Callers \ job[m].left : Done(policies'[p][d], d, name)
      <4> SUFFICES ASSUME NEW d \in Callers \ job[m].left
                   PROVE  Done(policies'[p][d], d, name)
        OBVIOUS
      <4>1. Done(policies[p][d], d, name)
        BY <3>4
      <4>2. Grown(policies[p][d], policies'[p][d])
        BY <1>2, <3>1
      <4> HIDE DEF p, name
      <4> QED
        BY <4>1, <4>2, DoneStays
    <3>6. marked = shares => Done(policies'[p][c], c, name)
      <4> SUFFICES ASSUME marked = shares, NEW i \in DOMAIN shares,
                          Concerns(shares[i], name)
                   PROVE  shares[i].revoked
        BY <3>2 DEF Done
      <4>1. shares \in Seq(ShareApproval)
        BY <3>2
      <4> HIDE DEF shares
      <4> QED
        BY <4>1, MarkedShare
    <3> QED
      BY <3>2, <3>3, <3>5, <3>6 DEF Progress, At
  <2>4. CASE StoreShares(m)
    <3> DEFINE p    == job[m].policy
               name == job[m].pin
               c    == job[m].caller
               old  == policies[p][c].shares
    <3>1. /\ job[m] \in Job /\ p \in 1..Live /\ c \in Callers
          /\ policies[p][c] \in Credential
          /\ policies'[p][c] = [policies[p][c] EXCEPT !.shares = job[m].shares]
      BY <1>1, <2>4, StoreSharesEffect
    <3>2. /\ job'[m].policy = p /\ job'[m].pin = name /\ job'[m].step = "revoking"
          /\ job'[m].left = job[m].left
      BY <1>1, <2>4, <3>1 DEF StoreShares, TypeInv, JobShape, Job
    <3>3. /\ \A d \in Callers \ (job[m].left \cup {c}) : Done(policies[p][d], d, name)
          /\ job[m].shares = Marked(old, name)
          /\ c = name => policies[p][c].revoked
      BY <2>4 DEF StoreShares, Progress
    <3>4. \A d \in Callers \ (job[m].left \cup {c}) : Done(policies'[p][d], d, name)
      BY <1>2, <3>1, <3>3, DoneStays
    <3>5. /\ policies'[p][c].shares = Marked(old, name)
          /\ c = name => policies'[p][c].revoked
          /\ old \in Seq(ShareApproval)
      BY <3>1, <3>3 DEF Credential
    <3>6. \A i \in DOMAIN Marked(old, name) :
            Concerns(Marked(old, name)[i], name) => Marked(old, name)[i].revoked
      <4>1. old \in Seq(ShareApproval)
        BY <3>5
      <4> HIDE DEF old, name
      <4>2. DOMAIN Marked(old, name) = DOMAIN old
        BY DEF Marked
      <4> SUFFICES ASSUME NEW i \in DOMAIN old,
                          Concerns(Marked(old, name)[i], name)
                   PROVE  Marked(old, name)[i].revoked
        BY <4>2
      <4>3. /\ Marked(old, name)[i].revoked <=> (old[i].revoked \/ Concerns(old[i], name))
            /\ Marked(old, name)[i].id = old[i].id
            /\ Marked(old, name)[i].audience = old[i].audience
        BY <4>1, MarkedShare
      <4> QED
        BY <4>3 DEF Concerns
    <3>7. Done(policies'[p][c], c, name)
      BY <3>5, <3>6 DEF Done
    <3> QED
      BY <3>2, <3>4, <3>7 DEF Progress, At
  <2>5. CASE /\ job'[m] # None
             /\ job'[m].step \notin {"revoking", "store"}
    BY <2>5 DEF Progress, At
  <2> QED
    BY <1>1, <1>4, <2>1, <2>2, <2>3, <2>4, <2>5, NextStepOf DEF Operations
<1>5. CASE policies' # policies
  BY <1>4, <1>5, PolicyStep DEF OneManager, Manage
<1>6. CASE job'[m] # job[m]
  BY <1>1, <1>4, <1>6, OwnStep
<1> QED
  BY <1>3, <1>5, <1>6

\* Answers add what their revocation took away, and nothing else is added.
LEMMA TakenStep ==
  ASSUME [Next]_vars, revoked' # revoked
  PROVE  \E m \in Managers : AnswerRevoke(m)
<1>1. CASE UNCHANGED vars \/ EditFile
  BY <1>1 DEF vars, EditFile
<1>2. ASSUME NEW t \in Workers, Serve(t) PROVE revoked' = revoked
  BY <1>2 DEF Serve, Resolve, StartRead, AskExport, AskRead, Disclose, Answer, StartExport,
     StartWriting, Publish, Validate, Commit, Fail
<1>3. ASSUME NEW m \in Managers, Manage(m) PROVE revoked' = revoked \/ AnswerRevoke(m)
  BY <1>3 DEF Manage, Resolve, StartRevoke, ReadShares, StoreShares, LoadFile,
     Install, Fail
<1> QED
  BY <1>1, <1>2, <1>3 DEF Next

LEMMA TakenStays ==
  ASSUME OneManager, TypeInv, RevokedHold, [Next]_vars,
         \A m \in Managers : Progress(m)
  PROVE  RevokedHold'
<1> SUFFICES ASSUME NEW p, NEW c, NEW i, <<p, c, i>> \in revoked'
             PROVE  /\ p \in 1..Live' /\ c \in Callers
                    /\ \/ i = 0 /\ policies'[p][c].revoked
                       \/ /\ i \in DOMAIN policies'[p][c].shares
                          /\ policies'[p][c].shares[i].revoked
  BY DEF RevokedHold
<1>1. CASE <<p, c, i>> \in revoked
  <2>1. /\ p \in 1..Live /\ c \in Callers
        /\ \/ i = 0 /\ policies[p][c].revoked
           \/ i \in DOMAIN policies[p][c].shares /\ policies[p][c].shares[i].revoked
    BY <1>1 DEF RevokedHold
  <2>2. Grown(policies[p][c], policies'[p][c])
    BY <2>1, PoliciesGrow
  <2>3. p \in 1..Live'
    BY <2>1, SessionsStay
  <2> QED
    BY <2>1, <2>2, <2>3 DEF Grown, Older
<1>2. CASE <<p, c, i>> \notin revoked
  <2>1. PICK m \in Managers : AnswerRevoke(m)
    BY <1>2, TakenStep
  <2>2. m \in Threads /\ job[m] # None
    BY <2>1 DEF Threads, AnswerRevoke, At
  <2>3. <<p, c, i>> \in TakenAway(job[m].policy, job[m].pin)
    BY <1>2, <2>1 DEF AnswerRevoke
  <2>4. /\ p = job[m].policy /\ c \in Callers
        /\ \/ i = 0 /\ c = job[m].pin
           \/ /\ i \in DOMAIN policies[p][c].shares
              /\ Concerns(policies[p][c].shares[i], job[m].pin)
    BY <2>3 DEF TakenAway
  <2>5. p \in 1..Live
    BY <2>2, <2>4, HeldTyped
  <2>6. Done(policies[p][c], c, job[m].pin)
    BY <2>1, <2>4 DEF AnswerRevoke, Progress
  <2>7. policies' = policies
    BY <2>1 DEF AnswerRevoke
  <2> QED
    BY <2>4, <2>5, <2>6, <2>7 DEF Done
<1> QED
  BY <1>1, <1>2

LEMMA RevocationStep ==
  ASSUME OneManager PROVE RevocationInv /\ [Next]_vars => RevocationInv'
BY TypeStep, TakenStays, ProgressStep DEF RevocationInv

\* A right that a request has is one that was not taken away.
LEMMA AccessIsGranted ==
  ASSUME TypeInv, RevokedHold, NEW t \in Threads, job[t] # None,
         NEW ns, NEW op, CanAccess(Held(t), job[t].caller, ns, op)
  PROVE  Granted(t, ns, op)
<1>1. /\ Held(t) = policies[job[t].policy][job[t].caller]
      /\ job[t].policy \in 1..Live /\ job[t].caller \in Callers
  BY HeldTyped DEF Held
<1>2. /\ Held(t).shares \in Seq(ShareApproval)
      /\ 0 \notin DOMAIN Held(t).shares
  BY <1>1, CredentialTyped
<1>3. CASE Direct(Held(t), ns, op)
  BY <1>3 DEF Granted
<1>4. CASE Matching(Held(t), job[t].caller, ns, op) # {}
  <2>1. PICK i \in DOMAIN Held(t).shares : Allows(Held(t).shares[i], job[t].caller, ns, op)
    BY <1>4 DEF Matching
  <2>2. Held(t).shares[i] \in ShareApproval
    BY <1>2, ElementOfSeq, LenProperties
  <2>3. <<job[t].policy, job[t].caller, i>> \notin revoked
    BY <1>1, <1>2, <2>1 DEF RevokedHold, Allows
  <2>4. [Held(t).shares[i] EXCEPT !.revoked = FALSE] = Held(t).shares[i]
    BY <2>1, <2>2 DEF Allows, ShareApproval
  <2> QED
    BY <2>1, <2>3, <2>4 DEF Granted
<1> QED
  BY <1>3, <1>4 DEF CanAccess

\* What RevocationImmediate says of one thread and one step.
Immediate(t) ==
  /\ job[t] = None /\ job'[t] # None
       => <<Live, job'[t].caller, 0>> \notin revoked
  /\ Running(t) =>
       /\ \A n \in job'[t].passed \ job[t].passed : Granted(t, rows[n].ns, "read")
       /\ job'[t].mayExport /\ ~job[t].mayExport
            => Granted(t, rows[job[t].next].ns, "export")
       /\ job[t].step = "write" /\ job'[t].step = "commit"
            => Granted(t, job'[t].pin, "write")

\* A request begins with a credential that is in force.
LEMMA BeginsGranted ==
  ASSUME TypeInv, RevokedHold, [Next]_vars, NEW t \in Threads,
         job[t] = None, job'[t] # None
  PROVE  <<Live, job'[t].caller, 0>> \notin revoked
<1>2. PICK caller \in Callers, op \in Operations \cup {"revoke", "reload"},
           pin \in Pins \cup {None}, session \in Sessions \cup {None} :
           Resolve(t, caller, op, pin, session)
  BY OnlyResolveBegins
<1>3. job'[t].caller = caller /\ ~policies[Live][caller].revoked
  BY <1>2 DEF Resolve, TypeInv, JobShape
<1>4. Live \in 1..Live
  BY LenProperties DEF TypeInv, StoreTyped
<1>5. 0 \notin DOMAIN policies[Live][caller].shares
  BY <1>4, CredentialTyped
<1> QED
  BY <1>3, <1>5 DEF RevokedHold

\* What a running request is given, it has a right to.
LEMMA RunsGranted ==
  ASSUME TypeInv, RevokedHold, [Next]_vars, NEW t \in Threads, Running(t)
  PROVE  /\ \A n \in job'[t].passed \ job[t].passed : Granted(t, rows[n].ns, "read")
         /\ job'[t].mayExport /\ ~job[t].mayExport
              => Granted(t, rows[job[t].next].ns, "export")
         /\ job[t].step = "write" /\ job'[t].step = "commit"
              => Granted(t, job'[t].pin, "write")
<1>1. CASE job'[t] = job[t]
  BY <1>1
<1>2. CASE job'[t] # job[t]
  <2>1. Serve(t) /\ job[t] # None /\ job'[t] # None
    BY <1>2, OwnStep DEF Running
  <2>2. job[t] \in Job /\ JobShape
    BY <2>1 DEF TypeInv, JobTyped
  <2>3. ASSUME NEW op, Permitted(t, op)
        PROVE  Granted(t, rows[job[t].next].ns, op)
    BY <2>1, <2>3, AccessIsGranted DEF Permitted
  <2>4. CASE AskExport(t)
    <3>1. /\ job[t].step \in {"count", "emit"}
          /\ job'[t].passed = job[t].passed
          /\ Permitted(t, "export") \/ ~job'[t].mayExport
      BY <2>4, AskExportFields
    <3> QED
      BY <2>3, <3>1
  <2>5. CASE AskRead(t)
    <3>1. /\ job[t].step # "write" /\ ~job'[t].mayExport
          /\ job'[t].passed = IF Permitted(t, "read")
                              THEN job[t].passed \cup {job[t].next} ELSE job[t].passed
      BY <2>5, AskReadFields
    <3> QED
      BY <2>3, <3>1
  <2>6. CASE Disclose(t)
    <3>1. PICK n \in job[t].passed :
            /\ job[t].step \in {"scan", "count", "emit"}
            /\ job'[t].mayExport = job[t].mayExport
            /\ job'[t].passed = job[t].passed \ {n}
      BY <2>6, DiscloseFields
    <3> QED
      BY <3>1
  <2>7. CASE StartRead(t) \/ StartExport(t) \/ StartWriting(t)
    <3>1. job'[t].passed = job[t].passed /\ job'[t].mayExport = job[t].mayExport
          /\ job[t].step # "write"
      BY <2>2, <2>7 DEF StartRead, StartExport, StartWriting, At, JobShape, Job
    <3> QED
      BY <3>1
  <2>8. ASSUME NEW ns \in Namespaces, NEW session \in Sessions, Validate(t, ns, session)
        PROVE  /\ job'[t].passed = job[t].passed /\ job'[t].mayExport = job[t].mayExport
               /\ Granted(t, job'[t].pin, "write")
    <3>1. /\ job'[t].passed = job[t].passed /\ job'[t].mayExport = job[t].mayExport
          /\ job'[t].pin = ns
      BY <2>2, <2>8 DEF Validate, At, JobShape, Job
    <3>2. CanAccess(Held(t), job[t].caller, ns, "write")
      BY <2>8 DEF Validate, MayWrite
    <3> QED
      BY <2>1, <3>1, <3>2, AccessIsGranted
  <2>9. \/ AskExport(t) \/ AskRead(t) \/ Disclose(t)
        \/ StartRead(t) \/ StartExport(t) \/ StartWriting(t)
        \/ \E ns \in Namespaces, session \in Sessions : Validate(t, ns, session)
    BY <2>1, <2>2 DEF Serve, Resolve, Answer, Publish, Commit, Fail, Reply, JobShape
  <2> QED
    BY <2>4, <2>5, <2>6, <2>7, <2>8, <2>9
<1> QED
  BY <1>1, <1>2

\* With one manager, an answered revocation binds every request, those that
\* are running included.
THEOREM RevocationBinds ==
  ASSUME OneManager PROVE Spec => RevocationImmediate
<1>1. Init => RevocationInv
  BY TypeInit DEF Init, RevocationInv, RevokedHold, Progress, At, Threads
<1>2. RevocationInv /\ [Next]_vars => \A t \in Threads : Immediate(t)
  BY BeginsGranted, RunsGranted DEF RevocationInv, Immediate
<1>3. RevocationInv /\ [Next]_vars => [\A t \in Threads : Immediate(t)]_vars
  BY <1>2
<1>4. RevocationInv /\ [Next]_vars => RevocationInv'
  BY RevocationStep
<1> QED
  BY <1>1, <1>3, <1>4, PTL DEF Spec, RevocationImmediate, Immediate

-----------------------------------------------------------------------------
(* What an export holds.                                                   *)

\* A row passes the filter; how it is shown then.
Right(t, n, op) ==
  job[t].pin \in {None, rows[n].ns} /\ CanAccess(Held(t), job[t].caller, rows[n].ns, op)

Both(t, n) == Right(t, n, "export") /\ Right(t, n, "read")

Shown(t, n) == Disclosure(Held(t), job[t].caller, rows[n], "export")

IsCounted(t, n) == \E item \in job[t].counted : item.row = n

InPass(t) ==
  /\ job[t].op = "export" /\ slot = t /\ job[t].upto = Len(rows)
  /\ job[t].mayExport => job[t].next <= job[t].upto
  /\ Older(job[t].shares, Held(t).shares)

\* Rights only shrink, so what was counted out of scope stays out of it.
CountScope(t) ==
  \A n \in 1..Len(rows) :
    n < job[t].next /\ Both(t, n) => IsCounted(t, n) \/ n \in job[t].passed

EmitScope(t) ==
  /\ \A n \in 1..Len(rows) : Both(t, n) => IsCounted(t, n)
  /\ job[t].mayExport /\ Right(t, job[t].next, "read") => IsCounted(t, job[t].next)
  /\ \A n \in job[t].passed : IsCounted(t, n)
  /\ \A item \in job[t].out : IsCounted(t, item.row)

\* As long as nothing is revoked the filter and the disclosure say the same
\* of a row whenever they are asked.
Same(t) == Held(t).shares = job[t].shares

AsShown(t, items) ==
  \A item \in items : /\ item.row \in 1..Len(rows) /\ Both(t, item.row)
                      /\ item = [row |-> item.row, as |-> Shown(t, item.row)]

Dealt(t, n) == n < job[t].next /\ n \notin job[t].passed

SamePass(t) ==
  /\ job[t].mayExport => Right(t, job[t].next, "export")
  /\ \A n \in job[t].passed : Both(t, n)
  /\ AsShown(t, job[t].counted)

SameCount(t) ==
  \A n \in 1..Len(rows) : Dealt(t, n) /\ Both(t, n) =>
    [row |-> n, as |-> Shown(t, n)] \in job[t].counted

SameEmit(t) ==
  /\ \A n \in 1..Len(rows) : Both(t, n) =>
       [row |-> n, as |-> Shown(t, n)] \in job[t].counted
  /\ \A n \in 1..Len(rows) : Dealt(t, n) /\ Both(t, n) /\ Shown(t, n) # "omit" =>
       [row |-> n, as |-> Shown(t, n)] \in job[t].out
  /\ AsShown(t, job[t].out) /\ \A item \in job[t].out : item.as # "omit"

Fresh(t) ==
  /\ job[t].op = "export" /\ job[t].next = 1 /\ job[t].passed = {}
  /\ ~job[t].mayExport /\ job[t].counted = {} /\ job[t].out = {}

CountInv(t) ==
  /\ At(t, "export") => Fresh(t)
  /\ At(t, "count") => /\ InPass(t) /\ job[t].out = {} /\ CountScope(t)
                       /\ Same(t) => SamePass(t) /\ SameCount(t)
  /\ At(t, "emit") => /\ InPass(t) /\ EmitScope(t)
                      /\ Same(t) => SamePass(t) /\ SameEmit(t)

ExportInv ==
  /\ TypeInv
  /\ \A m \in Managers : Progress(m)
  /\ \A t \in Threads : CountInv(t)

\* Revoking opens nothing.
LEMMA RightsShrink ==
  ASSUME NEW old, NEW new, Grown(old, new), NEW c, NEW ns, NEW op,
         CanAccess(new, c, ns, op)
  PROVE  CanAccess(old, c, ns, op)
<1>1. Matching(new, c, ns, op) \subseteq Matching(old, c, ns, op)
  BY DEF Grown, Older, Matching, Allows
<1>2. Direct(new, ns, op) <=> Direct(old, ns, op)
  BY DEF Grown, Direct
<1> QED
  BY <1>1, <1>2 DEF CanAccess

\* With the same approvals a credential says the same.
LEMMA DisclosureStays ==
  ASSUME NEW old, NEW new, Grown(old, new), new.shares = old.shares,
         NEW c, NEW row \in Row, NEW op
  PROVE  /\ CanAccess(new, c, row.ns, op) <=> CanAccess(old, c, row.ns, op)
         /\ Disclosure(new, c, row, op) = Disclosure(old, c, row, op)
<1>1. /\ Matching(new, c, row.ns, op) = Matching(old, c, row.ns, op)
      /\ Direct(new, row.ns, op) <=> Direct(old, row.ns, op)
  BY DEF Grown, Matching, Direct
<1>2. row.kind \in {"plain", "secret", "private"}
  BY DEF Row
<1>3. row.kind # "plain" => new[row.kind] = old[row.kind]
  BY <1>2 DEF Grown
<1>4. CanAccess(new, c, row.ns, op) <=> CanAccess(old, c, row.ns, op)
  BY <1>1 DEF CanAccess
<1>5. Disclosure(new, c, row, op) = Disclosure(old, c, row, op)
  BY <1>1, <1>3 DEF Disclosure
<1> QED
  BY <1>4, <1>5

LEMMA SameApproval ==
  ASSUME NEW x \in ShareApproval, NEW y \in ShareApproval,
         x.revoked <=> y.revoked, x.id = y.id, x.audience = y.audience,
         x.ns = y.ns, x.ops = y.ops, x.secret = y.secret, x.private = y.private
  PROVE  x = y
<1>1. x.revoked \in BOOLEAN /\ y.revoked \in BOOLEAN
  BY DEF ShareApproval
<1>2. x.revoked = y.revoked
  BY <1>1
<1> QED
  BY <1>2, SMTT(60) DEF ShareApproval

\* Approvals that are again what they were have not been anything else.
LEMMA OlderBack ==
  ASSUME NEW a \in Seq(ShareApproval), NEW b \in Seq(ShareApproval),
         NEW c \in Seq(ShareApproval), Older(a, b), Older(b, c)
  PROVE  Older(a, c) /\ (c = a => b = a)
<1>1. Older(a, c)
  BY DEF Older
<1>2. ASSUME c = a PROVE b = a
  <2>1. \A i \in DOMAIN a : b[i] = a[i]
    <3> SUFFICES ASSUME NEW i \in DOMAIN a PROVE b[i] = a[i]
      OBVIOUS
    <3>1. i \in DOMAIN b /\ a[i] \in ShareApproval /\ b[i] \in ShareApproval
      BY ElementOfSeq, LenProperties DEF Older
    <3>2. /\ b[i].revoked <=> a[i].revoked
          /\ b[i].id = a[i].id /\ b[i].audience = a[i].audience
          /\ b[i].ns = a[i].ns /\ b[i].ops = a[i].ops
          /\ b[i].secret = a[i].secret /\ b[i].private = a[i].private
      BY <1>2, <3>1 DEF Older
    <3> QED
      BY <3>1, <3>2, SameApproval
  <2>2. DOMAIN a = DOMAIN b
    BY DEF Older
  <2> QED
    BY <2>1, <2>2, SeqEqual, LenProperties
<1> QED
  BY <1>1, <1>2

\* The credential of a request before and after a step.
LEMMA HeldGrows ==
  ASSUME OneManager, TypeInv, TypeInv', [Next]_vars, \A m \in Managers : Progress(m),
         NEW t \in Threads, job[t] # None, job'[t] # None,
         job'[t].policy = job[t].policy, job'[t].caller = job[t].caller
  PROVE  /\ Grown(Held(t), Held(t)')
         /\ Held(t).shares \in Seq(ShareApproval)
         /\ (Held(t).shares)' \in Seq(ShareApproval)
<1>1. /\ Held(t) \in Credential
      /\ job[t].policy \in 1..Live /\ job[t].caller \in Callers
  BY HeldTyped
<1>2. Held(t) = policies[job[t].policy][job[t].caller]
      /\ Held(t)' = policies'[job[t].policy][job[t].caller]
  BY DEF Held
<1>3. Grown(Held(t), Held(t)')
  BY <1>1, <1>2, PoliciesGrow
<1>4. Held(t)' \in Credential
  <2>1. job'[t].policy \in 1..Live' /\ job'[t].caller \in Callers
    BY DEF TypeInv, JobTyped, Job
  <2>2. policies'[job'[t].policy] \in [Callers -> Credential]
    BY <2>1, ElementOfSeq DEF TypeInv, StoreTyped
  <2> QED
    BY <1>2, <2>1, <2>2
<1> QED
  BY <1>1, <1>3, <1>4 DEF Credential

LEMMA RightsStay ==
  ASSUME NEW t \in Threads, rows' = rows, rows \in Seq(Row), NEW n \in 1..Len(rows),
         job'[t].pin = job[t].pin, job'[t].caller = job[t].caller,
         Grown(Held(t), Held(t)')
  PROVE  /\ \A op : Right(t, n, op)' => Right(t, n, op)
         /\ (Held(t).shares)' = Held(t).shares =>
              /\ \A op : Right(t, n, op)' <=> Right(t, n, op)
              /\ Shown(t, n)' = Shown(t, n)
<1> DEFINE old == Held(t)
           new == Held(t)'
<1>1. rows[n] \in Row
  BY ElementOfSeq
<1>2. \A op : Right(t, n, op)' => Right(t, n, op)
  BY RightsShrink DEF Right
<1>3. ASSUME new.shares = old.shares
      PROVE  /\ \A op : Right(t, n, op)' <=> Right(t, n, op)
             /\ Shown(t, n)' = Shown(t, n)
  <2>1. \A op : CanAccess(new, job[t].caller, rows[n].ns, op)
                  <=> CanAccess(old, job[t].caller, rows[n].ns, op)
    BY <1>1, <1>3, DisclosureStays
  <2>2. Disclosure(new, job[t].caller, rows[n], "export")
          = Disclosure(old, job[t].caller, rows[n], "export")
    BY <1>1, <1>3, DisclosureStays
  <2> QED
    BY <2>1, <2>2 DEF Right, Shown
<1> QED
  BY <1>2, <1>3

\* What is left to show of an export in one of its two passes.
LEMMA StillCounting ==
  ASSUME NEW t \in Threads, job'[t] # None, job'[t].step = "count", InPass(t)',
         job'[t].out = {}, CountScope(t)', Same(t)' => SamePass(t)' /\ SameCount(t)'
  PROVE  CountInv(t)'
BY DEF CountInv, At

LEMMA StillWriting ==
  ASSUME NEW t \in Threads, job'[t] # None, job'[t].step = "emit", InPass(t)',
         EmitScope(t)', Same(t)' => SamePass(t)' /\ SameEmit(t)'
  PROVE  CountInv(t)'
BY DEF CountInv, At

\* Another thread's step.
LEMMA CountWaits ==
  ASSUME OneManager, ExportInv, TypeInv', [Next]_vars, NEW t \in Threads,
         job[t] # None, job'[t] = job[t]
  PROVE  CountInv(t)'
<1>1. /\ TypeInv /\ CountInv(t) /\ JobShape
      /\ rows \in Seq(Row) /\ Len(rows) \in Nat /\ job[t] \in Job
  BY LenProperties DEF ExportInv, TypeInv, StoreTyped, JobTyped
<1>2. CASE At(t, "count") \/ At(t, "emit")
  <2>1. InPass(t) /\ slot = t /\ slot # None
    BY <1>1, <1>2 DEF CountInv, InPass
  <2>2. rows' = rows
    BY <2>1, RowStep DEF Commit
  <2>3. slot' = slot
    <3> SUFFICES ASSUME slot' # slot PROVE FALSE
      OBVIOUS
    <3>1. PICK u \in Threads : \/ Publish(u)
                               \/ Fail(u) /\ slot = u
      BY <2>1, SlotStep DEF StartExport
    <3>2. u = t
      BY <2>1, <3>1 DEF Publish, ExportInv, CountInv, InPass
    <3>3. job'[t] = None
      BY <1>1, <3>1, <3>2 DEF Publish, Fail, Reply, JobShape
    <3> QED
      BY <3>3
  <2>4. /\ Grown(Held(t), Held(t)')
        /\ Held(t).shares \in Seq(ShareApproval)
        /\ (Held(t).shares)' \in Seq(ShareApproval)
        /\ job[t].shares \in Seq(ShareApproval)
    BY <1>1, HeldGrows DEF ExportInv, Job
  <2>5. \A n \in 1..Len(rows) :
          /\ \A op : Right(t, n, op)' => Right(t, n, op)
          /\ (Held(t).shares)' = Held(t).shares =>
               /\ \A op : Right(t, n, op)' <=> Right(t, n, op)
               /\ Shown(t, n)' = Shown(t, n)
    BY <1>1, <2>2, <2>4, RightsStay
  <2>6. /\ Older(job[t].shares, (Held(t).shares)')
        /\ Same(t)' => Same(t) /\ (Held(t).shares)' = Held(t).shares
    <3>1. Older(job[t].shares, Held(t).shares)
      BY <2>1 DEF InPass
    <3>2. Older(Held(t).shares, (Held(t).shares)')
      BY <2>4 DEF Grown
    <3>3. /\ Older(job[t].shares, (Held(t).shares)')
          /\ (Held(t).shares)' = job[t].shares => Held(t).shares = job[t].shares
      BY <2>4, <3>1, <3>2, OlderBack
    <3> QED
      BY <3>3 DEF Same
  <2>7. InPass(t)'
    BY <2>1, <2>2, <2>3, <2>6 DEF InPass
  <2>8. job[t].mayExport => job[t].next \in 1..Len(rows)
    BY <1>1, <2>1 DEF InPass, Job
  <2>9. \A n : IsCounted(t, n)' <=> IsCounted(t, n)
    BY DEF IsCounted
  <2>10. \A n \in 1..Len(rows) : Both(t, n)' => Both(t, n)
    BY <2>5 DEF Both
  <2>11. CountScope(t) => CountScope(t)'
    BY <2>2, <2>9, <2>10 DEF CountScope
  <2>12. EmitScope(t) => EmitScope(t)'
    BY <2>2, <2>5, <2>8, <2>9, <2>10 DEF EmitScope
  <2>13. ASSUME Same(t)'
         PROVE  /\ Same(t)
                /\ SamePass(t) => SamePass(t)'
                /\ SameCount(t) => SameCount(t)'
                /\ SameEmit(t) => SameEmit(t)'
    <3>1. /\ Same(t)
          /\ \A n \in 1..Len(rows) : /\ Right(t, n, "export")' <=> Right(t, n, "export")
                                     /\ Both(t, n)' <=> Both(t, n)
                                     /\ Shown(t, n)' = Shown(t, n)
      BY <2>5, <2>6, <2>13 DEF Both
    <3>2. \A items : AsShown(t, items) => AsShown(t, items)'
      BY <2>2, <3>1 DEF AsShown
    <3>3. \A n : Dealt(t, n)' <=> Dealt(t, n)
      BY DEF Dealt
    <3>4. job[t].passed \in SUBSET (1..Len(rows))
      BY <1>1 DEF Job
    <3>5. SamePass(t) => SamePass(t)'
      BY <2>8, <3>1, <3>2, <3>4 DEF SamePass
    <3>6. SameCount(t) => SameCount(t)'
      BY <2>2, <3>1, <3>3 DEF SameCount
    <3>7. SameEmit(t) => SameEmit(t)'
      BY <2>2, <3>1, <3>2, <3>3 DEF SameEmit
    <3> QED
      BY <3>1, <3>5, <3>6, <3>7
  <2> QED
    <3>1. CASE At(t, "count")
      BY <1>1, <3>1, <2>7, <2>11, <2>13, StillCounting DEF CountInv, At
    <3>2. CASE At(t, "emit")
      BY <1>1, <3>2, <2>7, <2>12, <2>13, StillWriting DEF CountInv, At
    <3> QED
      BY <1>2, <3>1, <3>2
<1>3. CASE ~At(t, "count") /\ ~At(t, "emit")
  BY <1>1, <1>3 DEF CountInv, At, Fresh
<1> QED
  BY <1>2, <1>3

\* A step of the export's own leaves rights and rows as they are.
LEMMA StillRight ==
  ASSUME NEW t \in Threads, policies' = policies, rows' = rows,
         job'[t].policy = job[t].policy, job'[t].caller = job[t].caller,
         job'[t].pin = job[t].pin, job'[t].shares = job[t].shares
  PROVE  /\ Held(t)' = Held(t) /\ (Same(t)' <=> Same(t))
         /\ \A n, op : Right(t, n, op)' <=> Right(t, n, op)
         /\ \A n : /\ Both(t, n)' <=> Both(t, n)
                   /\ Shown(t, n)' = Shown(t, n)
         /\ \A items : AsShown(t, items)' <=> AsShown(t, items)
<1>1. Held(t)' = Held(t)
  BY DEF Held
<1>2. Same(t)' <=> Same(t)
  BY <1>1 DEF Same
<1>3. \A n, op : Right(t, n, op)' <=> Right(t, n, op)
  BY <1>1 DEF Right
<1>4. \A n : /\ Both(t, n)' <=> Both(t, n)
             /\ Shown(t, n)' = Shown(t, n)
  BY <1>1, <1>3 DEF Both, Shown
<1>5. \A items : AsShown(t, items)' <=> AsShown(t, items)
  BY <1>4 DEF AsShown
<1> QED
  BY <1>1, <1>2, <1>3, <1>4, <1>5

LEMMA CountAskExport ==
  ASSUME ExportInv, NEW t \in Threads, AskExport(t)
  PROVE  CountInv(t)'
<1>1. /\ TypeInv /\ CountInv(t) /\ Len(rows) \in Nat
  BY LenProperties DEF ExportInv, TypeInv, StoreTyped
<1>2. /\ job[t] \in Job /\ job[t] # None
      /\ job'[t].step = job[t].step /\ job[t].step \in {"count", "emit"}
      /\ job'[t].op = job[t].op /\ job'[t].upto = job[t].upto
      /\ job'[t].caller = job[t].caller /\ job'[t].policy = job[t].policy
      /\ job'[t].pin = job[t].pin /\ job'[t].shares = job[t].shares
      /\ UNCHANGED <<policies, rows, slot>>
  BY <1>1, RowStepOf, AskExportFields
<1>3. /\ job[t].passed = {} /\ job'[t].passed = {} /\ ~job[t].mayExport
      /\ job[t].next \in 1..job[t].upto /\ job[t].next \in 1..Len(rows)
      /\ job'[t].counted = job[t].counted /\ job'[t].out = job[t].out
      /\ \/ Permitted(t, "export") /\ job'[t].mayExport
            /\ job'[t].next = job[t].next
         \/ ~Permitted(t, "export") /\ ~job'[t].mayExport
            /\ job'[t].next = job[t].next + 1
  BY <1>1, AskExportFields
<1>4. /\ Held(t)' = Held(t) /\ (Same(t)' <=> Same(t))
      /\ \A n, op : Right(t, n, op)' <=> Right(t, n, op)
      /\ \A n : /\ Both(t, n)' <=> Both(t, n)
                /\ Shown(t, n)' = Shown(t, n)
      /\ \A items : AsShown(t, items)' <=> AsShown(t, items)
  BY <1>2, StillRight
<1>5. Permitted(t, "export") <=> Right(t, job[t].next, "export")
  BY DEF Permitted, Right
<1>6. InPass(t)
  BY <1>1, <1>2 DEF CountInv, At
<1>7. InPass(t)'
  BY <1>2, <1>3, <1>4, <1>6 DEF InPass
<1>8. \A n : IsCounted(t, n)' <=> IsCounted(t, n)
  BY <1>3 DEF IsCounted
<1>9. \A n \in 1..Len(rows) :
        n < job'[t].next /\ Both(t, n) => n < job[t].next
  BY <1>3, <1>5 DEF Both
<1>10. CountScope(t) => CountScope(t)'
  BY <1>2, <1>3, <1>4, <1>8, <1>9 DEF CountScope
<1>11. EmitScope(t) => EmitScope(t)'
  <2> SUFFICES ASSUME EmitScope(t) PROVE EmitScope(t)'
    OBVIOUS
  <2>1. \A n \in 1..Len(rows)' : Both(t, n)' => IsCounted(t, n)'
    BY <1>2, <1>4, <1>8 DEF EmitScope
  <2>2. job'[t].mayExport /\ Right(t, job[t].next, "read")
          => IsCounted(t, job[t].next)'
    BY <1>3, <1>5, <1>8 DEF EmitScope, Both
  <2>3. job'[t].mayExport => job'[t].next = job[t].next
    BY <1>3
  <2>4. (job[t].mayExport /\ Right(t, job[t].next, "read")
           => IsCounted(t, job[t].next))'
    BY <1>4, <2>2, <2>3
  <2>5. /\ \A n \in job'[t].passed : IsCounted(t, n)'
        /\ \A item \in job'[t].out : IsCounted(t, item.row)'
    BY <1>3, <1>8 DEF EmitScope
  <2> QED
    BY <2>1, <2>4, <2>5 DEF EmitScope
<1>12. SamePass(t) => SamePass(t)'
  BY <1>3, <1>4, <1>5 DEF SamePass
<1>13. \A n \in 1..Len(rows) : Dealt(t, n)' /\ Both(t, n) => Dealt(t, n)
  BY <1>3, <1>9 DEF Dealt
<1>14. SameCount(t) => SameCount(t)'
  BY <1>2, <1>3, <1>4, <1>13 DEF SameCount
<1>15. SameEmit(t) => SameEmit(t)'
  BY <1>2, <1>3, <1>4, <1>13 DEF SameEmit
<1> QED
  BY <1>1, <1>2, <1>3, <1>4, <1>7, <1>10, <1>11, <1>12, <1>14, <1>15 DEF CountInv, At

LEMMA CountAskRead ==
  ASSUME ExportInv, NEW t \in Threads, AskRead(t)
  PROVE  CountInv(t)'
<1>1. /\ TypeInv /\ CountInv(t) /\ Len(rows) \in Nat
  BY LenProperties DEF ExportInv, TypeInv, StoreTyped
<1>2. /\ job[t] \in Job /\ job[t] # None
      /\ job'[t].step = job[t].step
      /\ job'[t].op = job[t].op /\ job'[t].upto = job[t].upto
      /\ job'[t].caller = job[t].caller /\ job'[t].policy = job[t].policy
      /\ job'[t].pin = job[t].pin /\ job'[t].shares = job[t].shares
      /\ UNCHANGED <<policies, rows, slot>>
  BY <1>1, RowStepOf
<1>3. /\ job[t].step = "scan" \/ (job[t].step \in {"count", "emit"} /\ job[t].mayExport)
      /\ job[t].next \in 1..job[t].upto /\ job[t].next \in 1..Len(rows)
      /\ job'[t].passed = IF Permitted(t, "read")
                          THEN job[t].passed \cup {job[t].next} ELSE job[t].passed
      /\ job'[t].next = job[t].next + 1 /\ ~job'[t].mayExport
      /\ job'[t].counted = job[t].counted /\ job'[t].out = job[t].out
  BY <1>1, AskReadFields
<1> SUFFICES ASSUME job[t].step \in {"count", "emit"}, job[t].mayExport
             PROVE  CountInv(t)'
  BY <1>2, <1>3 DEF CountInv, At
<1>4. /\ Held(t)' = Held(t) /\ (Same(t)' <=> Same(t))
      /\ \A n, op : Right(t, n, op)' <=> Right(t, n, op)
      /\ \A n : /\ Both(t, n)' <=> Both(t, n)
                /\ Shown(t, n)' = Shown(t, n)
      /\ \A items : AsShown(t, items)' <=> AsShown(t, items)
  BY <1>2, StillRight
<1>5. Permitted(t, "read") <=> Right(t, job[t].next, "read")
  BY DEF Permitted, Right
<1>6. InPass(t)
  BY <1>1, <1>2 DEF CountInv, At
<1>7. InPass(t)'
  BY <1>2, <1>3, <1>4, <1>6 DEF InPass
<1>8. \A n : IsCounted(t, n)' <=> IsCounted(t, n)
  BY <1>3 DEF IsCounted
<1>9. \A n \in 1..Len(rows) :
        n < job'[t].next /\ Both(t, n) /\ n \notin job'[t].passed
          => n < job[t].next /\ n \notin job[t].passed
  BY <1>3, <1>5 DEF Both
<1>10. CountScope(t) => CountScope(t)'
  BY <1>2, <1>4, <1>8, <1>9 DEF CountScope
<1>11. EmitScope(t) => EmitScope(t)'
  BY <1>2, <1>3, <1>4, <1>5, <1>8 DEF EmitScope
<1>12. SamePass(t) => SamePass(t)'
  BY <1>3, <1>4, <1>5 DEF SamePass, Both
<1>13. \A n \in 1..Len(rows) : Dealt(t, n)' /\ Both(t, n) => Dealt(t, n)
  BY <1>9 DEF Dealt
<1>14. SameCount(t) => SameCount(t)'
  BY <1>2, <1>3, <1>4, <1>13 DEF SameCount
<1>15. SameEmit(t) => SameEmit(t)'
  BY <1>2, <1>3, <1>4, <1>13 DEF SameEmit
<1> QED
  BY <1>1, <1>2, <1>3, <1>4, <1>7, <1>10, <1>11, <1>12, <1>14, <1>15 DEF CountInv, At

LEMMA CountDisclose ==
  ASSUME ExportInv, NEW t \in Threads, Disclose(t)
  PROVE  CountInv(t)'
<1>1. /\ TypeInv /\ CountInv(t) /\ Len(rows) \in Nat
  BY LenProperties DEF ExportInv, TypeInv, StoreTyped
<1>2. /\ job[t] \in Job /\ job[t] # None
      /\ job'[t].step = job[t].step /\ job[t].step \in {"scan", "count", "emit"}
      /\ job'[t].op = job[t].op /\ job'[t].upto = job[t].upto
      /\ job'[t].caller = job[t].caller /\ job'[t].policy = job[t].policy
      /\ job'[t].pin = job[t].pin /\ job'[t].shares = job[t].shares
      /\ UNCHANGED <<policies, rows, slot>>
  BY <1>1, RowStepOf
<1> SUFFICES ASSUME job[t].step \in {"count", "emit"}
             PROVE  CountInv(t)'
  BY <1>2 DEF CountInv, At
<1>3. InPass(t) /\ job[t].op = "export"
  BY <1>1, <1>2 DEF CountInv, At, InPass
<1>4. PICK n0 \in job[t].passed, what \in Actions \ {"fail"} :
         /\ n0 \in 1..Len(rows) /\ job[t].step \in {"scan", "count", "emit"}
         /\ what = Disclosure(Held(t), job[t].caller, rows[n0], job[t].op)
         /\ job'[t].passed = job[t].passed \ {n0}
         /\ job'[t].next = job[t].next /\ job'[t].mayExport = job[t].mayExport
         /\ job'[t].counted = IF job[t].step = "count"
                              THEN job[t].counted \cup {[row |-> n0, as |-> what]}
                              ELSE job[t].counted
         /\ job'[t].out = IF job[t].step = "count" \/ what = "omit" THEN job[t].out
                          ELSE job[t].out \cup {[row |-> n0, as |-> what]}
  BY <1>1, DiscloseFields
<1>9. what = Shown(t, n0)
  BY <1>3, <1>4 DEF Shown
<1>5. /\ Held(t)' = Held(t) /\ (Same(t)' <=> Same(t))
      /\ \A n, op : Right(t, n, op)' <=> Right(t, n, op)
      /\ \A n : /\ Both(t, n)' <=> Both(t, n)
                /\ Shown(t, n)' = Shown(t, n)
      /\ \A items : AsShown(t, items)' <=> AsShown(t, items)
  BY <1>2, StillRight
<1>6. InPass(t)'
  BY <1>2, <1>3, <1>4, <1>9, <1>5 DEF InPass
<1>7. CASE job[t].step = "count"
  <2>1. /\ job'[t].counted = job[t].counted \cup {[row |-> n0, as |-> what]}
        /\ job'[t].out = job[t].out
    BY <1>4, <1>9, <1>7
  <2>2. /\ \A n : IsCounted(t, n) => IsCounted(t, n)'
        /\ IsCounted(t, n0)'
    <3>1. \A n : IsCounted(t, n) => IsCounted(t, n)'
      BY <2>1 DEF IsCounted
    <3>2. /\ [row |-> n0, as |-> what] \in job'[t].counted
          /\ [row |-> n0, as |-> what].row = n0
      BY <2>1
    <3>3. IsCounted(t, n0)'
      BY <3>2 DEF IsCounted
    <3> QED
      BY <3>1, <3>3
  <2>3. CountScope(t) => CountScope(t)'
    BY <1>2, <1>4, <1>9, <1>5, <2>2 DEF CountScope
  <2>4. SamePass(t) => SamePass(t)'
    <3>1. \A item \in job'[t].counted : item \in job[t].counted
                                          \/ item = [row |-> n0, as |-> Shown(t, n0)]
      BY <1>4, <1>9, <2>1
    <3>2. SamePass(t) => AsShown(t, job'[t].counted)
      BY <1>4, <1>9, <3>1 DEF SamePass, AsShown
    <3>3. SamePass(t) => AsShown(t, job[t].counted)'
      BY <1>5, <3>2
    <3> QED
      BY <1>4, <1>9, <1>5, <3>3 DEF SamePass
  <2>5. SameCount(t) => SameCount(t)'
    <3>1. \A n : Dealt(t, n)' => Dealt(t, n) \/ n = n0
      BY <1>4, <1>9 DEF Dealt
    <3>2. [row |-> n0, as |-> Shown(t, n0)] \in job'[t].counted
      BY <1>4, <1>9, <2>1
    <3>3. job[t].counted \subseteq job'[t].counted
      BY <2>1
    <3> QED
      BY <1>2, <1>5, <3>1, <3>2, <3>3 DEF SameCount
  <2> QED
    BY <1>1, <1>2, <1>5, <1>6, <1>7, <2>1, <2>3, <2>4, <2>5 DEF CountInv, At
<1>8. CASE job[t].step = "emit"
  <2>1. /\ job'[t].counted = job[t].counted
        /\ job'[t].out = IF what = "omit" THEN job[t].out
                         ELSE job[t].out \cup {[row |-> n0, as |-> what]}
    BY <1>4, <1>9, <1>8
  <2>2. \A n : IsCounted(t, n)' <=> IsCounted(t, n)
    BY <2>1 DEF IsCounted
  <2>3. EmitScope(t) => EmitScope(t)'
    <3>1. \A item \in job'[t].out : item \in job[t].out \/ item.row = n0
      BY <2>1
    <3> QED
      BY <1>2, <1>4, <1>9, <1>5, <2>2, <3>1 DEF EmitScope
  <2>4. SamePass(t) => SamePass(t)'
    BY <1>4, <1>9, <1>5, <2>1 DEF SamePass
  <2>5. SamePass(t) /\ SameEmit(t) => SameEmit(t)'
    <3>1. \A n : Dealt(t, n)' => Dealt(t, n) \/ n = n0
      BY <1>4, <1>9 DEF Dealt
    <3>2. Shown(t, n0) # "omit" => [row |-> n0, as |-> Shown(t, n0)] \in job'[t].out
      BY <1>4, <1>9, <2>1
    <3>3. job[t].out \subseteq job'[t].out
      BY <2>1
    <3>4. \A item \in job'[t].out :
            \/ item \in job[t].out
            \/ item = [row |-> n0, as |-> Shown(t, n0)] /\ Shown(t, n0) # "omit"
      BY <1>4, <1>9, <2>1
    <3>5. SamePass(t) /\ SameEmit(t)
            => AsShown(t, job'[t].out) /\ \A item \in job'[t].out : item.as # "omit"
      BY <1>4, <1>9, <3>4 DEF SamePass, SameEmit, AsShown
    <3>6. SamePass(t) /\ SameEmit(t) => AsShown(t, job[t].out)'
      BY <1>5, <3>5
    <3> QED
      BY <1>2, <1>5, <2>1, <3>1, <3>2, <3>3, <3>5, <3>6 DEF SameEmit
  <2> QED
    BY <1>1, <1>2, <1>5, <1>6, <1>8, <2>3, <2>4, <2>5 DEF CountInv, At
<1> QED
  BY <1>7, <1>8

LEMMA CountStart ==
  ASSUME ExportInv, NEW t \in Threads, StartExport(t)
  PROVE  CountInv(t)'
<1>1. /\ TypeInv /\ CountInv(t) /\ JobShape /\ job[t] \in Job /\ job[t] # None
      /\ Len(rows) \in Nat /\ At(t, "export")
  BY JobAt DEF ExportInv, TypeInv, StartExport
<1>2. Fresh(t)
  BY <1>1 DEF CountInv
<1> DEFINE held == Held(t).shares
<1>3. /\ job'[t].step = "count" /\ job'[t].op = job[t].op
      /\ job'[t].upto = Len(rows) /\ job'[t].next = job[t].next
      /\ job'[t].mayExport = job[t].mayExport
      /\ job'[t].passed = job[t].passed /\ job'[t].counted = job[t].counted
      /\ job'[t].out = job[t].out /\ job'[t].shares = held
      /\ job'[t].policy = job[t].policy /\ job'[t].caller = job[t].caller
      /\ slot' = t /\ policies' = policies /\ rows' = rows
  <2>1. job' = [job EXCEPT ![t] = [job[t] EXCEPT !.step = "count",
                                     !.upto = Len(rows), !.shares = held]]
    BY DEF StartExport
  <2>2. slot' = t /\ policies' = policies /\ rows' = rows
    BY DEF StartExport
  <2> HIDE DEF held
  <2>3. job'[t] = [job[t] EXCEPT !.step = "count", !.upto = Len(rows), !.shares = held]
    BY <1>1, <2>1 DEF JobShape
  <2> QED
    BY <1>1, <2>2, <2>3 DEF Job
<1>4. (Held(t).shares)' = held
  BY <1>3 DEF Held
<1>5. Older(held, held)
  BY DEF Older
<1>6. InPass(t)'
  BY <1>2, <1>3, <1>4, <1>5 DEF InPass, Fresh
<1>7. CountScope(t)' /\ SamePass(t)' /\ SameCount(t)'
  BY <1>1, <1>2, <1>3 DEF CountScope, SamePass, SameCount, AsShown, Dealt, Fresh
<1> QED
  BY <1>2, <1>3, <1>6, <1>7 DEF CountInv, At, Fresh

LEMMA CountWriting ==
  ASSUME ExportInv, NEW t \in Threads, StartWriting(t)
  PROVE  CountInv(t)'
<1>1. /\ TypeInv /\ CountInv(t) /\ JobShape /\ job[t] \in Job /\ job[t] # None
      /\ Len(rows) \in Nat /\ At(t, "count") /\ PassEnds(t)
  BY JobAt DEF ExportInv, TypeInv, StartWriting
<1>2. /\ InPass(t) /\ job[t].out = {} /\ CountScope(t)
      /\ Same(t) => SamePass(t) /\ SameCount(t)
  BY <1>1 DEF CountInv
<1>3. /\ job'[t].step = "emit" /\ job'[t].op = job[t].op
      /\ job'[t].upto = Len(rows) /\ job'[t].next = 1
      /\ job'[t].mayExport = job[t].mayExport
      /\ job'[t].passed = job[t].passed /\ job'[t].counted = job[t].counted
      /\ job'[t].out = job[t].out /\ job'[t].shares = job[t].shares
      /\ job'[t].policy = job[t].policy /\ job'[t].caller = job[t].caller
      /\ job'[t].pin = job[t].pin
      /\ slot' = slot /\ policies' = policies /\ rows' = rows
  BY <1>1 DEF StartWriting, JobShape, Job
<1>4. /\ Held(t)' = Held(t) /\ (Same(t)' <=> Same(t))
      /\ \A n, op : Right(t, n, op)' <=> Right(t, n, op)
      /\ \A n : /\ Both(t, n)' <=> Both(t, n)
                /\ Shown(t, n)' = Shown(t, n)
      /\ \A items : AsShown(t, items)' <=> AsShown(t, items)
  BY <1>3, StillRight
<1>5. /\ job[t].passed = {} /\ ~job[t].mayExport
      /\ \A n \in 1..Len(rows) : n < job[t].next
  BY <1>1, <1>2 DEF PassEnds, InPass, Job
<1>6. InPass(t)'
  BY <1>2, <1>3, <1>4, <1>5 DEF InPass
<1>7. \A n : IsCounted(t, n)' <=> IsCounted(t, n)
  BY <1>3 DEF IsCounted
<1>8. EmitScope(t)'
  BY <1>2, <1>3, <1>4, <1>5, <1>7 DEF EmitScope, CountScope
<1>9. Same(t) => SamePass(t)'
  BY <1>2, <1>3, <1>4, <1>5 DEF SamePass
<1>10. Same(t) => SameEmit(t)'
  <2>1. \A n \in 1..Len(rows) : Dealt(t, n) /\ ~Dealt(t, n)'
    BY <1>1, <1>3, <1>5 DEF Dealt
  <2> QED
    BY <1>2, <1>3, <1>4, <2>1 DEF SameCount, SameEmit, AsShown
<1> QED
  BY <1>3, <1>4, <1>6, <1>8, <1>9, <1>10 DEF CountInv, At

LEMMA CountStep ==
  ASSUME OneManager, ExportInv, [Next]_vars, NEW t \in Threads
  PROVE  CountInv(t)'
<1>1. TypeInv /\ TypeInv' /\ JobShape
  BY TypeStep DEF ExportInv, TypeInv
<1>2. CASE job'[t] = None
  BY <1>2 DEF CountInv, At
<1>3. CASE job'[t] # None /\ job'[t] = job[t]
  BY <1>1, <1>3, CountWaits
<1>4. CASE job'[t] # None /\ job'[t] # job[t] /\ job[t] = None
  <2>1. PICK caller \in Callers, op \in Operations \cup {"revoke", "reload"},
             pin \in Pins \cup {None}, session \in Sessions \cup {None} :
             Resolve(t, caller, op, pin, session)
    BY <1>1, <1>4, OnlyResolveBegins
  <2>2. /\ job'[t].step = op /\ job'[t].op = op /\ job'[t].next = 1
        /\ job'[t].passed = {} /\ job'[t].mayExport = FALSE
        /\ job'[t].counted = {} /\ job'[t].out = {}
    BY <1>1, <2>1 DEF Resolve, JobShape
  <2>3. op \notin {"count", "emit"}
    BY DEF Operations
  <2> QED
    BY <2>2, <2>3 DEF CountInv, At, Fresh
<1>5. CASE job'[t] # None /\ job'[t] # job[t] /\ job[t] # None
  <2>1. Serve(t) \/ Manage(t)
    BY <1>1, <1>5, OwnStep
  <2>2. CASE job'[t].step \notin {"export", "count", "emit"}
    BY <2>2 DEF CountInv, At
  <2> QED
    BY <1>1, <1>5, <2>1, <2>2, NextStepOf, CountAskExport, CountAskRead,
       CountDisclose, CountStart, CountWriting
<1> QED
  BY <1>2, <1>3, <1>4, <1>5

LEMMA ExportStep ==
  ASSUME OneManager PROVE ExportInv /\ [Next]_vars => ExportInv'
BY TypeStep, ProgressStep, CountStep DEF ExportInv

\* What the invariant says of an artifact.
LEMMA ExportCovered ==
  ASSUME ExportInv, NEW t \in Workers, At(t, "emit")
  PROVE  /\ {item.row : item \in job[t].out} \subseteq {item.row : item \in job[t].counted}
         /\ PassEnds(t) /\ Held(t).shares = job[t].shares
              => job[t].out = {item \in job[t].counted : item.as # "omit"}
<1>1. /\ InPass(t) /\ EmitScope(t)
      /\ Same(t) => SamePass(t) /\ SameEmit(t)
      /\ job[t] \in Job /\ Len(rows) \in Nat
  BY JobAt DEF ExportInv, CountInv, Threads
<1>2. \A item \in job[t].out : \E other \in job[t].counted : other.row = item.row
  BY <1>1 DEF EmitScope, IsCounted
<1>3. ASSUME PassEnds(t), Same(t)
      PROVE  job[t].out = {item \in job[t].counted : item.as # "omit"}
  <2>1. \A n \in 1..Len(rows) : Dealt(t, n)
    BY <1>1, <1>3 DEF PassEnds, Dealt, InPass, Job
  <2>2. ASSUME NEW item \in job[t].out
        PROVE  item \in job[t].counted /\ item.as # "omit"
    BY <1>1, <1>3 DEF SameEmit, AsShown
  <2>3. ASSUME NEW item \in job[t].counted, item.as # "omit"
        PROVE  item \in job[t].out
    <3>1. /\ item.row \in 1..Len(rows) /\ Both(t, item.row)
          /\ item = [row |-> item.row, as |-> Shown(t, item.row)]
      BY <1>1, <1>3 DEF SamePass, AsShown
    <3>2. item.as = Shown(t, item.row)
      BY <3>1
    <3> QED
      BY <1>1, <1>3, <2>1, <2>3, <3>1, <3>2 DEF SameEmit
  <2> QED
    BY <2>2, <2>3
<1> QED
  BY <1>2, <1>3 DEF Same

\* No row that was counted out of scope is in the artifact, and as long as
\* nothing is revoked the artifact is what was counted.
THEOREM CountsCover ==
  ASSUME OneManager PROVE Spec => []CountsCoverExport
<1>1. Init => ExportInv
  <2> SUFFICES ASSUME Init PROVE ExportInv
    OBVIOUS
  <2>1. TypeInv
    BY TypeInit
  <2>2. /\ \A m \in Managers : Progress(m)
        /\ \A t \in Threads : CountInv(t)
    BY DEF Init, Progress, CountInv, At, Threads
  <2> QED
    BY <2>1, <2>2 DEF ExportInv
<1>2. ExportInv /\ [Next]_vars => ExportInv'
  BY ExportStep
<1>3. ExportInv => CountsCoverExport
  BY ExportCovered DEF CountsCoverExport
<1> QED
  BY <1>1, <1>2, <1>3, PTL DEF Spec
=============================================================================
