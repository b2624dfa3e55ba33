\* Two holders contribute at the same time.
SPECIFICATION Spec
CONSTANTS
  s1 = s1
  s2 = s2
  h1 = h1
  h2 = h2
  h3 = h3
  w1 = w1
  w2 = w2
  None = None
  Sessions <- OneSession
  Holders <- MoreHolders
  Handlers <- MCHandlers
  Threshold = 2
  MaxLinks = 3
SYMMETRY Interchangeable
CHECK_DEADLOCK FALSE
INVARIANT
  ThresholdActivates
