------------------------------ MODULE MCRouter ------------------------------
(* Router for TLC: one event that goes to the first two destinations, from  *)
(* a sender that has the name of the third, if there is one.                *)
EXTENDS Router, TLC

CONSTANTS d1, d2, d3, e1
MCGrants == [s \in Sessions |-> Dests]
MCRoute == [e \in Events |-> <<d1, d2>>]
MCSource == [e \in Events |-> IF d3 \in Dests THEN d3 ELSE d1]
MCCap == [d \in Dests |-> IF d = d1 THEN 1 ELSE 2]
SessionSymmetry == Permutations(Sessions)
=============================================================================
