-------------------------- MODULE MCSessionManager --------------------------
EXTENDS SessionManager, TLC
TaskSymmetry == Permutations(Tasks)
=============================================================================
