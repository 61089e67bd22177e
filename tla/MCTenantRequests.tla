-------------------------- MODULE MCTenantRequests --------------------------
EXTENDS TenantRequests

\* Two requests of one creation, another change, and a reader; three requests
\* of a creation on any route.
CONSTANTS k1, k2, w1, r1, q1, q2, q3
=============================================================================
