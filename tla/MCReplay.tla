------------------------------ MODULE MCReplay ------------------------------
(* Replay on small instances.                                              *)
EXTENDS Replay, TLC

BudgetOne == {None, 1}
NoRows == {}
AllRows == Row
SymIds == Permutations(Ids)
SymIdsHashes == Permutations(Ids) \cup Permutations(Hashes)
=============================================================================
