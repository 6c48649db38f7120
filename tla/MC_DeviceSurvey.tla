-------------------------- MODULE MC_DeviceSurvey ---------------------------
EXTENDS DeviceSurvey, TLC
CONSTANTS t1, t2, a1, a2
Ords == {0, 1}
ThreadSymmetry == Permutations(Callers)
=============================================================================
