\* One blast to two recipients, two handlers at once beside the worker, one restart.
SPECIFICATION Spec
CONSTANTS
  r1 = r1
  r2 = r2
  None = None
  Recipients = {r1, r2}
  RawRows = FALSE
  MaxRetries = 2
  MaxReqs = 2
  MaxAdmin = 0
  MaxCrashes = 1
SYMMETRY Symmetry
INVARIANTS CancelStopsSending OptOutStopsSending
CHECK_DEADLOCK FALSE
