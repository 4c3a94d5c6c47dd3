SPECIFICATION ClientSpec

CONSTANTS
  a1 = a1
  Nobody = Nobody
  Accounts = {a1}
  c1 = c1
  c2 = c2
  Refs = {c1, c2}
  Proven = {c1}
  Prompts = {"q1", "q2"}
  Texts = {"t1"}
  MaxRuns = 2
  MaxPosts = 2
  MaxProposals = 2
  MaxSwitches = 1
  MaxFaults = 1

CHECK_DEADLOCK FALSE

INVARIANTS
  AskIsCoherent
  LedgerIsMeant
PROPERTIES
  ImportIsListed
  TabFollowsSession
  ProcessingRowSettles
