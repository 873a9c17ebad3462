----------------------------- MODULE MC_Journal -----------------------------
EXTENDS Journal, TLC

CONSTANTS t1, t2, o1, delete, send, read, task1, task2

Symmetry == Permutations({t1, t2}) \cup Permutations({delete, send})
                \cup Permutations({task1, task2})
=============================================================================
