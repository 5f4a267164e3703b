----------------------------- MODULE MCDelivery -----------------------------
(* Delivery for TLC: an alert with two channels, one whose principal has    *)
(* none, and a reply.                                                       *)
EXTENDS Delivery, TLC

CONSTANTS a1, a2, r1
MCChannels == [i \in Items |-> CASE i = a1 -> {"webhook", "email"}
                                 [] i = a2 -> {}
                                 [] OTHER -> {"callback"}]
=============================================================================
