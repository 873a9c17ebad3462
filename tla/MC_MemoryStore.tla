--------------------------- MODULE MC_MemoryStore ---------------------------
EXTENDS MemoryStore, TLC

CONSTANTS c1, c2, note, short, long, m1, m2

\* A text of one byte; and one of six bytes with two characters of two bytes
\* each inside, both on a cut at size 2, one of them at size 4.
MCLength == short :> 1 @@ long :> 6
MCCharOf == short :> [p \in {0} |-> 0] @@ long :> [p \in 0..5 |-> (p + 1) \div 2]

Symmetry == Permutations({c1, c2}) \cup Permutations({m1, m2})
=============================================================================
