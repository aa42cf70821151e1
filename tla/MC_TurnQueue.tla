---------------------------- MODULE MC_TurnQueue ----------------------------
EXTENDS TurnQueue
=============================================================================
