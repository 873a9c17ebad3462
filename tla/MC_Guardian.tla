---------------------------- MODULE MC_Guardian -----------------------------
EXTENDS Guardian, TLC

CONSTANTS a1, a2, a3

AgentSymmetry == Permutations(Agents)
=============================================================================
