SPECIFICATION Spec

CONSTANTS
  report = report
  binary = binary
  NoUpload = NoUpload
  u1 = u1
  u2 = u2
  p1 = p1
  p2 = p2
  Uploads = {u1, u2}
  Polls = {p1, p2}
  Files = {report, binary}
  Accepted <- Readable
  MayOmitStatus = FALSE

CHECK_DEADLOCK FALSE

SYMMETRY RequestSymmetry

INVARIANTS
  OneIngestPerContent
  StagesAreReal
PROPERTIES
  IndexedStays
