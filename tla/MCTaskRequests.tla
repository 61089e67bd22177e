--------------------------- MODULE MCTaskRequests ---------------------------
EXTENDS TaskRequests

\* Two requests of one creation, another change, and a reader.
CONSTANTS k1, k2, w1, r1
=============================================================================
