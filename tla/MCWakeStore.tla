---------------------------- MODULE MCWakeStore ----------------------------
(* WakeStore for TLC: every event is sent by the first name. *)
EXTENDS WakeStore, TLC

CONSTANT FirstName
MCSource == [e \in Events |-> FirstName]
EventSymmetry == Permutations(Events)
=============================================================================
