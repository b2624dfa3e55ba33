\* The driver's rows as drainDeliveryBatch hands them out: who is opted out?
SPECIFICATION Spec
CONSTANTS
  r1 = r1
  r2 = r2
  None = None
  Recipients = {r1}
  RawRows = TRUE
  MaxRetries = 2
  MaxReqs = 2
  MaxAdmin = 0
  MaxCrashes = 0
INVARIANTS OptedOutUnsubscribed
CHECK_DEADLOCK FALSE
