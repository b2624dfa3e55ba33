\* Two events, two sweeps at once, two attempts, two failures or restarts.
SPECIFICATION LiveSpec
CONSTANTS
  e1 = e1
  e2 = e2
  d1 = d1
  d2 = d2
  Events <- MCEvents
  Sweeps <- MCSweeps
  MaxAttempts = 2
  MaxFaults = 2
CHECK_DEADLOCK FALSE
INVARIANTS
  TypeOK
  DeliveredWasPublished
  FailedUsedItsAttempts
PROPERTIES
  StoredIsPublished
