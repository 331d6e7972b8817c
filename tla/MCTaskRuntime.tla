--------------------------- MODULE MCTaskRuntime ---------------------------
EXTENDS TaskRuntime
Symmetry == Permutations(Tasks) \cup Permutations(Aborters)
=============================================================================
