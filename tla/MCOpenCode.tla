----------------------------- MODULE MCOpenCode -----------------------------
(* OpenCode for TLC: one wake for a label, one for every session. *)
EXTENDS OpenCode, TLC

CONSTANTS l1, w1, w2
MCTarget == (w1 :> l1) @@ (w2 :> None)
=============================================================================
