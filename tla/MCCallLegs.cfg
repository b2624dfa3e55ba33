\* One caller, one volunteer reachable by phone and in the app.
SPECIFICATION Spec
CONSTANTS
  c1 = c1
  c2 = c2
  v1 = v1
  v2 = v2
  h1 = h1
  h2 = h2
  None = None
  Calls = {c1}
  Volunteers = {v1}
  Hubs = {h1}
  HubOf <- MCOneHubOf
  OnShift <- MCOneOnShiftAlone
  Fallback <- MCNoFallback
  PhoneUsers = {v1}
  MaxReqs = 2
  MaxCrashes = 0
PROPERTIES CompletedEndsOnlyTheLegsCall
CHECK_DEADLOCK FALSE
