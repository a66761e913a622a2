---------------------------- MODULE MCEventStore ----------------------------
(* EventStore on small instances.                                          *)
EXTENDS EventStore, TLC

SymIds == Permutations(Ids)
SymIdsHashes == Permutations(Ids) \cup Permutations(Hashes)

AllRows == Row
HomeRows == {r \in NewRow : r.ns = DefaultNs}
NoRows == {}
=============================================================================
