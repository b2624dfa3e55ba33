\* A throttled event is marked delivered.
SPECIFICATION Spec
CONSTANTS
  e1 = e1
  e2 = e2
  d1 = d1
  d2 = d2
  Events <- MCEvents
  Sweeps <- MCSweeps
  MaxAttempts = 2
  MaxFaults = 2
CHECK_DEADLOCK FALSE
INVARIANT
  DeliveredWasOffered
