SPECIFICATION FairSpec

CONSTANTS
  gh1 = gh1
  gh2 = gh2
  lin1 = lin1
  github = github
  linear = linear
  labelled = labelled
  bare = bare
  unsaid = unsaid
  Connectors = {gh1, gh2, lin1}
  Providers = {github, linear}
  ProviderOf <- Provider
  Rank <- Order
  Sources = {labelled, bare, unsaid}
  Origin <- Synced
  Matches <- Lineage
  Reported <- Says
  Foreign = Foreign
  Unsaid = Unsaid
  MaxRepairs = 3

CHECK_DEADLOCK FALSE

INVARIANTS
  AnswerIsRecorded
  RecordIsBacked
  EvidenceIsOwned
PROPERTIES
  RunEnds
