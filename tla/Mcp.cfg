SPECIFICATION McpSpec

CONSTANTS
  a = a
  b = b
  d = d
  linear = linear
  github = github
  document = document
  home = home
  hub = hub
  issue = issue
  change = change
  note = note
  copy = copy
  upload = upload
  draft = draft
  bundled = bundled
  sent = sent
  told = told
  chat = chat
  board = board
  repo = repo
  ATL20 = ATL20
  ATL204 = ATL204
  sync = sync
  when = when
  owner = owner
  May = May
  June = June
  Upload = Upload
  Bundled = Bundled
  Unsaid = Unsaid
  NoIdentifier = NoIdentifier
  Connectors = {a, b, d}
  Records = {issue, change, note, copy, upload, draft, bundled, sent, told}
  ConnectorProvider <- Provider
  ProviderOf <- RecordProvider
  PlaceOf <- Place
  Origin <- Source
  Lineage <- Trace
  Resources = {board, repo}
  ResourceOf <- Resource
  Reported <- Label
  Noise = {note}
  Identifiers = {ATL20, ATL204}
  Mentions <- Named
  Spells <- Spelled
  Questions <- Asks
  SearchScopes <- Searches
  Syncs = {sync}
  SyncOf <- SyncedBy
  EvidenceLimit = 3
  LookupLimit = 1
  CorpusLimit = 3
  MaxChanges = 2
  Dates <- Given
  MovedFrom <- Replaced
  Completes = {change, note}
  StaysOpen = {issue, note}
  Slots = 2

CHECK_DEADLOCK FALSE

INVARIANTS
  EvidenceIsAskedFor
  AbsenceIsReal
  ClaimsStand
  NamedProviderIsHeard
