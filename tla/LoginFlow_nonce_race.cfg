SPECIFICATION Spec
CONSTANTS
  Browsers = {b1}
  Users = {u1}
  Clients = {c1}
  Nonces = {n1}
  Workers = {w1, w2}
  None = None
  MaxLogins = 1
  MaxCodes = 2
INVARIANT NonceUnique
CHECK_DEADLOCK FALSE
