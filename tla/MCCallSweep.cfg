\* One caller: the sweep commits what it read earlier.
SPECIFICATION Spec
CONSTANTS
  c1 = c1
  c2 = c2
  v1 = v1
  v2 = v2
  h1 = h1
  h2 = h2
  None = None
  Calls = {c1}
  Volunteers = {v1}
  Hubs = {h1}
  HubOf <- MCOneHubOf
  OnShift <- MCOneOnShiftAlone
  Fallback <- MCNoFallback
  PhoneUsers = {v1}
  MaxReqs = 2
  MaxCrashes = 0
PROPERTIES SweepEndsOnlyStaleCalls
CHECK_DEADLOCK FALSE
