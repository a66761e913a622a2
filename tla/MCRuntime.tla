----------------------------- MODULE MCRuntime -----------------------------
(* Runtime on small instances: two runtimes in one process, an offline     *)
(* command in another, or a command there that opens without the lock.     *)
EXTENDS Runtime

CONSTANTS p1, p2, r1, w1, w2

ProcessOf == [u \in Users |-> IF u \in Runtimes THEN p1 ELSE p2]
RuntimeOfWriter == [w \in Writers |-> r1]
=============================================================================
