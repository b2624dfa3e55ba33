\* Does a half-open breaker let a single probe through?
SPECIFICATION Spec
CONSTANTS
  c1 = c1
  c2 = c2
  c3 = c3
  Callers = {c1, c2}
  Threshold = 2
  ResetTimeout = 2
  Window = 3
  MaxAttempts = 2
INVARIANTS SingleProbe
