------------------------------ MODULE MCHandoff ------------------------------
(* Handoff on small instances.                                             *)
EXTENDS Handoff, TLC

Begun == <<[kind |-> "assistant"], [kind |-> "decision"]>>

=============================================================================
