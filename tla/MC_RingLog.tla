----------------------------- MODULE MC_RingLog -----------------------------
(* The replay ring at small budgets: three events or four bytes, with one  *)
(* event size that exceeds the whole byte budget.                          *)
EXTENDS RingLog
=============================================================================
