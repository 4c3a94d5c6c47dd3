SPECIFICATION FairSpec

CONSTANTS
  home = home
  other = other
  operator = operator
  member = member
  guest = guest
  plain = plain
  moved = moved
  oversized = oversized
  k1 = k1
  k2 = k2
  NoRequest = NoRequest
  r1 = r1
  r2 = r2
  a1 = a1
  a2 = a2
  ProposeRequests = {r1, r2}
  ApproveRequests = {a1, a2}
  Actors <- People
  Workspaces = {home, other}
  WorkspaceOf <- HomeOf
  Owners <- OwnerRoles
  DeploymentOwner = operator
  CredentialWorkspaces <- OneHome
  Payloads = {plain, oversized}
  Keys = {k1, k2}
  KeyOf <- DigestOf
  Grounded <- GroundedPairs
  Executable <- WithinContract

CHECK_DEADLOCK FALSE

INVARIANTS
  AtMostOneIssue
  CallIsAuthorised
  ExecutedIsConfirmed
  ProposalIdentity
PROPERTIES
  ExecutionOnlyAdvances
  ClaimSettles
  ImplementsProviderWrite
