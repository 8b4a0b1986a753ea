SPECIFICATION HistorySpec
SYMMETRY Interchangeable
CONSTRAINT Bounded
CONSTANTS
  Browsers = {b1}
  Users = {u1, u2}
  Clients = {c1}
  Nonces = {n1}
  Workers = {w1, w2}
  None = None
  MaxLogins = 2
  MaxCodes = 3
INVARIANTS TypeOK CodeBacked NonceBounded CodesPerVerification
PROPERTY RevocationHolds
CHECK_DEADLOCK FALSE
