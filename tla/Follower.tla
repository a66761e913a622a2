------------------------------- MODULE Follower -------------------------------
(***************************************************************************)
(* What cursor replay promises, in the words of docs/snapshot-v2.md: once  *)
(* a store has joined a source it holds a state the source went through,   *)
(* never an earlier one than it has shown, or it is known to have left its *)
(* source for good.                                                        *)
(***************************************************************************)
EXTENDS Integers, Sequences

VARIABLES
  states,  \* the states the source went through, the first one empty
  copy,    \* the state the store shows
  at,      \* its place in states
  phase    \* "apart" until it joins, "following", and "gone" for good

followerVars == <<states, copy, at, phase>>

Init == Len(states) >= 1 /\ at = 0 /\ phase = "apart"

\* The source moves on and never revises its past.
Extend ==
  /\ UNCHANGED <<copy, at, phase>>
  /\ Len(states') > Len(states)
  /\ SubSeq(states', 1, Len(states)) = states

\* The store joins its source or moves on, at once and never back.
Advance ==
  /\ phase # "gone" /\ phase' = "following"
  /\ <<at', phase'>> # <<at, phase>>
  /\ at' >= at /\ at' < Len(states) /\ copy' = states[at' + 1]
  /\ UNCHANGED states

\* A write of the store's own ends it.
Leave == phase' = "gone" /\ UNCHANGED <<states, at>>

Next == Extend \/ Advance \/ Leave

Spec == Init /\ [][Next]_followerVars
=============================================================================
