SPECIFICATION Spec

CONSTANTS
  b1 = b1
  b2 = b2
  b3 = b3
  s1 = s1
  u1 = u1
  w1 = w1
  w2 = w2
  r1 = r1
  r2 = r2
  n1 = n1
  n2 = n2
  n3 = n3
  pasted = pasted
  shared = shared
  NoOne = NoOne
  NoWorkspace = NoWorkspace
  NoKey = NoKey
  Instances = {r1, r2}
  Columns = 1
  Requests = {r1, r2}
  Buckets = {n1, n2, n3}
  Limit = 1
  GlobalLimit = 2
  MaxRows = 3
  Browsers = {b1, b2, b3}
  Login <- ThreeLogins
  Subjects = {s1}
  Locals = {u1}
  NewIds = {w1, w2}
  Keys = {pasted, shared}
  SharedKey = shared
  Modes <- OneMode
  Operations = {"visit", "create", "connectAll", "configure", "signIn", "mcp"}
  MaxRequests = 3
  MaxDeploys = 1

SYMMETRY Symmetry

CHECK_DEADLOCK FALSE

INVARIANTS
  WithinLimits
  ReadyIsMigrated
  WorkspacesStayApart
