---------------------------- MODULE MC_RelayHub -----------------------------
EXTENDS RelayHub
CONSTANTS i1, i2, a1, a2, m1
MCId == <<i1, i1, i2>>
MCAccount == <<a1, a1, a2>>
MCHost == <<m1, m1, m1>>
MCCommands == <<1, 0, 0>>
MCMachine == <<m1, m1>>
=============================================================================
