----------------------------- MODULE MCJobQueue -----------------------------
EXTENDS JobQueue, TLC

CONSTANTS e1, s1, w1, w2, w3, d1

\* Processors are interchangeable.
Symmetry == Permutations(Workers)
=============================================================================
