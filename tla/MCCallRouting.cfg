\* One caller, both volunteers, every handler race, lost webhooks, one restart.
SPECIFICATION FairSpec
CONSTANTS
  c1 = c1
  c2 = c2
  v1 = v1
  v2 = v2
  h1 = h1
  h2 = h2
  None = None
  Calls = {c1}
  Volunteers = {v1, v2}
  Hubs = {h1}
  HubOf <- MCOneHubOf
  OnShift <- MCOneOnShift
  Fallback <- MCOneFallback
  PhoneUsers = {v1, v2}
  MaxReqs = 2
  MaxCrashes = 1
INVARIANTS TypeOK NeverLiveAndEnded TablesTellTheAnswer
PROPERTIES ImplementsLifecycle OnlyAnswererEndsCall WinningLegSurvivesCancel StaleCallsAreSwept
CHECK_DEADLOCK FALSE
