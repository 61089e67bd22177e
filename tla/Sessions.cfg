SPECIFICATION PartsSpec
CONSTANTS
  t1 = t1
  t2 = t2
  r1 = r1
  r2 = r2
  r3 = r3
  c1 = c1
  c2 = c2
  u1 = u1
  u2 = u2
  a1 = a1
  a2 = a2
  i1 = i1
  Tenants = {t1, t2}
  Tokens = {r1, r2, r3}
  Calls = {c1, c2}
  MaxCalls = 4
  MaxRevocations = 1
  Users = {u1, u2}
  Addresses = {a1, a2}
  Identities = {i1}
  MaxAccountCalls = 4
CHECK_DEADLOCK FALSE
SYMMETRY Symmetry
INVARIANTS
  PartsTypeOK
  OneSessionPerProof
  SurvivorsRacedRevocation
  StraySessionsCostFaults
  VerifiedWasProven
  ProvisionedKeepsLink
