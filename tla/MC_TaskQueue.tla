---------------------------- MODULE MC_TaskQueue ----------------------------
EXTENDS TaskQueueRefinement, TLC

CONSTANTS a, s, w1, w2

\* The threads of the pool are interchangeable.
PoolSymmetry == Permutations(PoolWorkers)
=============================================================================
