SPECIFICATION Spec

CONSTANTS
  cli = cli
  u1 = u1
  u2 = u2
  k1 = k1
  r1 = r1
  m1 = m1
  propose = propose
  q1 = q1
  r2 = r2
  w1 = w1
  w2 = w2
  s1 = s1
  s2 = s2
  Clients = {cli}
  Consents = {k1}
  Redemptions = {r1, r2}
  Mints = {m1}
  Calls = {q1}
  Workspaces = {w1, w2}
  Redirects = {u1, u2}
  RedirectsOf <- RegisteredUris
  Secrets = {s1, s2}
  Scopes = {read, propose}
  Read = read
  CodeTTL = 1
  TokenTTL = 2
  MaxNow = 2

CHECK_DEADLOCK FALSE

SYMMETRY Symmetry

INVARIANTS
  OneTokenPerCode
  GrantsFollowConsent
PROPERTIES
  RevocationIsFinal
