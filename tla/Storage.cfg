SPECIFICATION FairSpec

CONSTANTS
  c1 = c1
  c2 = c2
  Calls = {c1, c2}
  Batches <- SomeBatches
  Newer <- Greater
  Environments <- Deployments

CHECK_DEADLOCK FALSE

INVARIANTS
  ConnectionsAreClean

PROPERTIES
  ImplementsAtomicStore
  CallsAnswered
