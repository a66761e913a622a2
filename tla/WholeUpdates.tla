----------------------------- MODULE WholeUpdates -----------------------------
(***************************************************************************)
(* What delta synchronisation promises a receiver, in the words of         *)
(* docs/okf/delta-v1.md section 6: the rows change by an edit of its own,  *)
(* by the records of a package it does not hold yet, or by one released    *)
(* delta, the whole of it, every operation of which found the record as    *)
(* the delta says it should be, before or after the change.                *)
(***************************************************************************)
CONSTANTS Ids, None

VARIABLES
  held,      \* [Ids -> row or None]
  deltas,    \* the deltas released: sets of [id, pre, post]
  packages   \* the packages released: [Ids -> row or None]

wholeVars == <<held, deltas, packages>>

Init == held = [x \in Ids |-> None] /\ deltas = {} /\ packages = {}

Release == UNCHANGED held /\ deltas \subseteq deltas'
                          /\ packages \subseteq packages'

Edit == /\ \E x \in Ids : \A y \in Ids \ {x} : held'[y] = held[y]
        /\ UNCHANGED <<deltas, packages>>

Take == \E d \in deltas :
  /\ \A op \in d : /\ held[op.id] \in {op.pre, op.post}
                   /\ held'[op.id] = op.post
  /\ \A x \in Ids \ {op.id : op \in d} : held'[x] = held[x]
  /\ UNCHANGED <<deltas, packages>>

Load == \E p \in packages :
  /\ \A x \in Ids : held'[x] = held[x] \/ (held[x] = None /\ held'[x] = p[x])
  /\ UNCHANGED <<deltas, packages>>

Next == Release \/ Edit \/ Take \/ Load

Spec == Init /\ [][Next]_wholeVars
=============================================================================
