SPECIFICATION Spec

CONSTANTS
  j1 = j1
  j2 = j2
  j3 = j3
  o1 = o1
  Jobs = {j1, j2, j3}
  OneTime = {j3}
  ReleaseOf <- OneCommit
  Operators = {o1}
  KindOrder <- TwoKinds
  MaxRelease = 2
  MaxPosts = 2
  MaxJobs = 2
  MaxCalls = 2

SYMMETRY Symmetry


CHECK_DEADLOCK FALSE

INVARIANTS
  EvidenceIsSound
  RepliesAreTrue
PROPERTIES
  EvidenceOnlyAdvances
