----------------------------- MODULE MCTaskWork -----------------------------
EXTENDS TaskWork, TLC

Symmetry == Permutations(Requests) \cup Permutations(Tasks)
=============================================================================
