---------------------------- MODULE MCUserAccess ----------------------------
EXTENDS UserAccess, TLC

CONSTANTS t1, t2, r1, r2, r3, c1, c2, u1, u2, a1, a2, i1

Symmetry == UNION {Permutations(S) : S \in {Tenants, Tokens, Calls}}
=============================================================================
