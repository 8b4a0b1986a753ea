SPECIFICATION Spec
SYMMETRY Interchangeable
CONSTRAINT Bounded
CONSTANTS
  Workers = {w1, w2}
  Window = 2
  Steps = {2, 3}
  MaxSecret = 2
  MaxTime = 10
  MaxBatches = 1
  None = None
INVARIANTS TypeOK SpacedPerWorker AtMostFourLoginsPerCode
PROPERTIES UnconfirmedOnlyIfStale ForgottenOnlyIfStale
CHECK_DEADLOCK FALSE
