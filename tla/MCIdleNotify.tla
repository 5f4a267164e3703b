---------------------------- MODULE MCIdleNotify ----------------------------
(* IdleNotify for TLC. *)
EXTENDS IdleNotify
=============================================================================
