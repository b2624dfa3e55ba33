\* One request, one erasure, two faults: does everything settle?
SPECIFICATION LiveSpec
CONSTANTS
  r1 = r1
  r2 = r2
  hub1 = hub1
  w1 = w1
  w2 = w2
  None = None
  LastPass = 1
  Requests <- OneRequest
  Hubs <- MCHubs
  Runners <- MCRunners
  MaxErasures = 1
  MaxFaults = 2
CHECK_DEADLOCK FALSE
PROPERTIES
  DueIsTaken
  ExecutingSettles
  QueuedCompletes
