SPECIFICATION Spec
CONSTANTS
  u1 = u1
  u2 = u2
  a1 = a1
  a2 = a2
  a3 = a3
  c1 = c1
  c2 = c2
  Users = {u1, u2}
  Addresses = {a1, a2, a3}
  Calls = {c1, c2}
  MaxAtOnce = 3
CHECK_DEADLOCK FALSE
CONSTRAINT FewAtOnce
SYMMETRY Symmetry
INVARIANTS
  TypeOK
  OwnerLossCostsRace
  InvitedIsStranger
PROPERTY
  AdminsManageMembersOnly
