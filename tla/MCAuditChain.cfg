\* Two writers, two actors, four entries, pages of two, one restart.
SPECIFICATION LiveSpec
CONSTANTS
  w1 = w1
  w2 = w2
  ann = ann
  bob = bob
  Erased = Erased
  None = None
  Writers <- MCWriters
  Actors <- MCActors
  PageSize = 2
  MaxEntries = 4
  MaxClock = 1
  MaxCrashes = 1
CHECK_DEADLOCK FALSE
INVARIANTS
  ChainLinked
  AlarmsAreMeant
PROPERTIES
  KeepsTheTrail
  AlterationIsReported
