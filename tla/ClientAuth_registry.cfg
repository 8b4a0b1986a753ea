SPECIFICATION Spec
CONSTANTS
  Clients = {cl1, cl2}
  CANames = {ca1, ca2}
  Secrets = {s1, s2}
  Keys = {k1, k2}
  None = None
  MaxCommands = 3
SYMMETRY Interchangeable
INVARIANTS TypeOK AcceptedOnRecord EntitledAccepted
