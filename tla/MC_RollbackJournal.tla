------------------------ MODULE MC_RollbackJournal -------------------------
EXTENDS RollbackJournal
CONSTANTS p1, p2, k1
=============================================================================
