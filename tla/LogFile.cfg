SPECIFICATION FileFairSpec
CONSTANTS
  p1 = p1
  p2 = p2
  Producers = {p1, p2}
  Closers = {k1, k2}
  Destructors = {k2}
  BulkMax = 2
  MaxLogs = 2
  MaxThrows = 1
  Dates = {"d1", "d2"}
  DateOf <- MCDateOf
  MaxErrors = 1
INVARIANTS
  LogInv
  Conserved
  DuplicatesNeedThrows
  SkippedOnlyAtExit
  PopFindsItem
  FlushedOnShutdown
  FilesAreWritten
  OnDiskAtShutdown
PROPERTIES
  ShutdownReturns
  EventuallyWritten
CHECK_DEADLOCK FALSE
