\* Two sockets, two messages over one and the third over the other; two states
\* allowed, a buffer of three with one reserved slot.
SPECIFICATION LiveSpec
CONSTANTS
  c1 = c1
  c2 = c2
  a1 = a1
  a2 = a2
  a3 = a3
  ring = ring
  note = note
  None = None
  Sockets <- MCSockets
  Auths <- MCAuths
  SocketOf <- MCSocketOf
  Foreign <- MCForeign
  MaxConnections = 2
  MaxChanges = 1
  Items <- MCItems
  Calls <- MCCalls
  Capacity = 3
  ReservedSlots = 1
  MaxHeld = 5
CHECK_DEADLOCK FALSE
INVARIANTS
  TypeOK
  CapacityWhileCallsFit
PROPERTIES
  CallsAreKept
  NobodyStaysConnected
  LeaverIsEvicted
CONSTRAINT
  Apart
