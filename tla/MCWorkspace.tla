---------------------------- MODULE MCWorkspace ----------------------------
EXTENDS WorkspaceParts, TLC

\* The parts share values: files, actors, tasks (rows and users, too), labels.
CONSTANTS r1, a, b, p1, t1, t2, l1, l2, x1

Symmetry == UNION {Permutations(S) : S \in {Schedulers, Tasks, Labels}}
=============================================================================
