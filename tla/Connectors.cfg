SPECIFICATION ConnectorSpec

CONSTANTS
  r1 = r1
  r2 = r2
  r3 = r3
  x1 = x1
  x2 = x2
  Requests = {r1, r2, r3}
  Resources = {x1, x2}
  Foreign = Foreign

SYMMETRY Symmetry
CHECK_DEADLOCK FALSE

INVARIANTS
  RowsAreProven
PROPERTIES
  SelectionStands
