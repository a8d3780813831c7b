SPECIFICATION Spec
CONSTANTS
  a = a
  b = b
  Server = {a, b}
  ParallelCommit = {b}
  ParallelAbort = {b}
  KeepConnections = {a, b}
  MayCancel = {b}
  ConcurrentFirstUse = TRUE
  MaxLevel = 2
  MaxWrites = 3
  MaxXacts = 2
  MaxBreaks = 1
INVARIANTS
  TypeOK
  RemoteFollows
  CommitComplete
  CleanIdle
CHECK_DEADLOCK FALSE
