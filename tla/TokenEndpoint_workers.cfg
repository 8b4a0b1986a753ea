SPECIFICATION FairSpec
CONSTANTS
  Workers = {w1, w2}
  Clients = {cl1, cl2}
  Codes = {c1}
  Keys = {k1, k2}
  None = None
  CodeTTL = 1
  TokenTTL = 1
  Retention = 2
  Timeout = 1
INVARIANTS TypeOK NonceKept
PROPERTIES OneTimeCodes RevokedGetsNothing CodesRemoved
CHECK_DEADLOCK FALSE
