SPECIFICATION Spec
SYMMETRY Interchangeable
CONSTANTS
  Users = {u1, u2}
  Workers = {w1, w2}
  Challenges = {h1, h2, h3}
  Creds = {c1}
  None = None
  MaxSigns = 3
INVARIANTS TypeOK NextSignatureAccepted CodesPerCredential
PROPERTIES OneTimeChallenges CountFallsOnlyIfStale
CHECK_DEADLOCK FALSE
