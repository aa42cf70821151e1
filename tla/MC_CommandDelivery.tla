------------------------- MODULE MC_CommandDelivery -------------------------
EXTENDS CommandDelivery, TLC

CONSTANT b1

(* One browser sends everything.                                           *)
MCOwner == [m \in Serial \cup Tasks |-> b1]
=============================================================================
