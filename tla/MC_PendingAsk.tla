---------------------------- MODULE MC_PendingAsk ----------------------------
EXTENDS PendingAsk, TLC

CONSTANTS a1, a2, x1, x2, c1, c2

(* A batch has two questions, all others one.  Client c1 switches models.  *)
MCPages  == [p \in Askers |-> IF p = a1 THEN 2 ELSE 1]
MCTarget == [m \in Models |-> c1]
=============================================================================
