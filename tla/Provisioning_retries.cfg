SPECIFICATION Spec
SYMMETRY Interchangeable
CONSTANTS
  CANames = {n1, n2}
  Imported = Imported
  None = None
  MaxMade = 4
INVARIANTS TypeOK SigningKeyReadable ShownSecretStored FreshCAIsTrusted
PROPERTY RenewalKeepsTrust
CHECK_DEADLOCK FALSE
