------------------------------ MODULE MCClaude ------------------------------
(* Claude for TLC. *)
EXTENDS Claude
=============================================================================
