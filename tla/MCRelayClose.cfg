\* The last state to close is not the one that had subscribed.
SPECIFICATION Spec
CONSTANTS
  c1 = c1
  c2 = c2
  a1 = a1
  a2 = a2
  a3 = a3
  ring = ring
  note = note
  None = None
  Sockets <- MCSockets
  Auths <- MCAuths
  SocketOf <- MCSocketOf
  Foreign <- MCForeign
  MaxConnections = 2
  MaxChanges = 1
  Items <- MCItems
  Calls <- MCCalls
  Capacity = 3
  ReservedSlots = 1
  MaxHeld = 0
CHECK_DEADLOCK FALSE
INVARIANTS
  LastCloseCleansUp
