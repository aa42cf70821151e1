-------------------------- MODULE MC_DaemonRestart -------------------------
EXTENDS DaemonRestart
CONSTANTS e1, e2, e3, s1, s2
=============================================================================
