\* A hub the user was rotated out of keeps its envelopes and has no job.
SPECIFICATION Spec
CONSTANTS
  r1 = r1
  r2 = r2
  hub1 = hub1
  w1 = w1
  w2 = w2
  None = None
  LastPass = 2
  Requests <- OneRequest
  Hubs <- MCHubs
  Runners <- MCRunners
  MaxErasures = 2
  MaxFaults = 1
SYMMETRY Interchangeable
CHECK_DEADLOCK FALSE
INVARIANT
  CopiesHaveJobs
