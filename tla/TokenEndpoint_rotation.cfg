SPECIFICATION Spec
SYMMETRY Interchangeable
CONSTANTS
  Workers = {w1}
  Clients = {cl1}
  Codes = {c1}
  Keys = {k1, k2}
  None = None
  CodeTTL = 1
  TokenTTL = 1
  Retention = 2
  Timeout = 1
INVARIANT TokensVerifiable
CHECK_DEADLOCK FALSE
