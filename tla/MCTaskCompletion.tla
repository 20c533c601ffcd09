--------------------------- MODULE MCTaskCompletion ---------------------------
EXTENDS TaskCompletion, TLC
Fold == Permutations(Subtasks) \cup Permutations(Decisions)
===============================================================================
