SPECIFICATION Spec

CONSTANTS
  g1 = g1
  g2 = g2
  r1 = r1
  Generations = {g1, g2}
  Readers = {r1}
  Retrievals <- AnyAgainstOne
  MaxItems = 1
  MaxClock = 1
  NoRun = NoRun

CHECK_DEADLOCK FALSE

INVARIANTS
  ListedIsWhole
  TasksAreIdentities
PROPERTIES
  ListNeverGoesBack
