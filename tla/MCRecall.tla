------------------------------ MODULE MCRecall ------------------------------
(* Recall on small instances.                                              *)
EXTENDS Recall, TLC

CONSTANTS i1, i2, i3

\* The nearest row ranks last.
NearOrder == i1 :> 3 @@ i2 :> 2 @@ i3 :> 1
ScoreOrder == i1 :> 1 @@ i2 :> 2 @@ i3 :> 3
=============================================================================
