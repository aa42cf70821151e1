-------------------------- MODULE MC_SessionReplay --------------------------
EXTENDS SessionReplay
=============================================================================
