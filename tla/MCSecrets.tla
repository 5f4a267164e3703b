----------------------------- MODULE MCSecrets -----------------------------
(* Secrets for TLC: the commands are interchangeable. *)
EXTENDS Secrets

CommandSymmetry == Permutations(Cmds)
=============================================================================
