\* Three callers that retry twice, around a threshold of three failures.
SPECIFICATION FairSpec
CONSTANTS
  c1 = c1
  c2 = c2
  c3 = c3
  Callers = {c1, c2, c3}
  Threshold = 3
  ResetTimeout = 2
  Window = 3
  MaxAttempts = 3
INVARIANTS ClosedBelowThreshold
PROPERTIES NoEarlyProbe Recovers
