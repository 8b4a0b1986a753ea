SPECIFICATION Spec
SYMMETRY Interchangeable
CONSTANTS
  u1 = u1
  u2 = u2
  k1 = k1
  k2 = k2
  k3 = k3
  Users = {u1, u2}
  Codes = {k1, k2, k3}
  Owner <- TwoUsers
  Workers = {w1, w2}
  None = None
  Limit = 2
  Window = 2
  MaxKills = 1
INVARIANTS TypeOK LoginsAudited LimitPerWorker
PROPERTY OneTimeCodes
CHECK_DEADLOCK FALSE
