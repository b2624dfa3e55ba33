\* One recipient, two handlers at once, three tries and a restart: does it finish?
SPECIFICATION FairSpec
CONSTANTS
  r1 = r1
  r2 = r2
  None = None
  Recipients = {r1}
  RawRows = FALSE
  MaxRetries = 3
  MaxReqs = 2
  MaxAdmin = 1
  MaxCrashes = 1
INVARIANTS NoBlindResend RetryBudget
PROPERTIES BlastFinishes
CHECK_DEADLOCK FALSE
