------------------------------ MODULE MCExchange ------------------------------
(* Exchange on small instances.                                            *)
EXTENDS Exchange, TLC

SymContents == Permutations(Contents \ Unusable)
SymContentsMetas == SymContents \cup Permutations(Metas)

\* Packages as they are written by default, deltas with --gz, and the default
\* for both.
GzDeltas == [dir \in Dirs |-> IF dir \in DeltaDirs THEN "gz" ELSE "plain"]
=============================================================================
