\* Does the stats sync ever overwrite a cancelled blast?
SPECIFICATION Spec
CONSTANTS
  r1 = r1
  r2 = r2
  None = None
  Recipients = {r1}
  RawRows = FALSE
  MaxRetries = 2
  MaxReqs = 2
  MaxAdmin = 0
  MaxCrashes = 0
PROPERTIES SyncKeepsCancelled
CHECK_DEADLOCK FALSE
