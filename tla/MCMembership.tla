---------------------------- MODULE MCMembership ----------------------------
EXTENDS Membership, TLC

CONSTANTS u1, u2, a1, a2, a3, c1, c2, MaxAtOnce

Symmetry == Permutations(Users) \cup Permutations(Addresses) \cup Permutations(Calls)

\* Pending invitations and calls in flight, together.
FewAtOnce ==
  Cardinality({a \in Addresses : invitation[a] # NoInvitation})
    + Cardinality({c \in Calls : call[c] # Idle}) <= MaxAtOnce
=============================================================================
