------------------------- MODULE MC_WorkSchedules --------------------------
EXTENDS WorkSchedules
CONSTANTS s1
=============================================================================
