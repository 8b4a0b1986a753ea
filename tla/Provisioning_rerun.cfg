SPECIFICATION Spec
CONSTANTS
  CANames = {n1}
  Imported = Imported
  None = None
  MaxMade = 3
INVARIANT ReinstalledCAIsTrusted
CHECK_DEADLOCK FALSE
