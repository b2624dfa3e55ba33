\* Two callers of two hubs that share a volunteer.
SPECIFICATION Spec
CONSTANTS
  c1 = c1
  c2 = c2
  v1 = v1
  v2 = v2
  h1 = h1
  h2 = h2
  None = None
  Calls = {c1, c2}
  Volunteers = {v1}
  Hubs = {h1, h2}
  HubOf <- MCHubOf
  OnShift <- MCSharedOnShift
  Fallback <- MCSharedFallback
  PhoneUsers = {v1}
  MaxReqs = 2
  MaxCrashes = 0
INVARIANTS OneCallAtATime
CHECK_DEADLOCK FALSE
