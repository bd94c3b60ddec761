SPECIFICATION Spec
CONSTANTS
  Producers = {p1, p2}
  Closers = {k1, k2}
  BulkMax = 2
  MaxLogs = 2
  MaxThrows = 0
SYMMETRY Symmetry
INVARIANT
  ShutdownWritesAll
CHECK_DEADLOCK FALSE
