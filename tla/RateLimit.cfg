SPECIFICATION Spec
CONSTANTS
  Attempts = {a1, a2, a3, a4}
  Workers = {w1, w2}
  Nobody = Nobody
  Limit = 2
  WindowSeconds = 2
  Second = 2
  Spread = 1
  Lag = 1
  MaxTime = 6
  NFaults = 1
SYMMETRY AttemptSymmetry
INVARIANTS AtMostLimit
PROPERTIES RefusalIsDue RetryIsEnough
CHECK_DEADLOCK FALSE
