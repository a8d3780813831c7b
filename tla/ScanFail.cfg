SPECIFICATION Spec
CONSTANTS
  QueueLen = 2
  NoTuple = NoTuple
  NThreads = 2
  Settings <- CutOrRead
  Parameterised = {1}
  Late = {1}
  MayFail = {0,1}
  StatementTimeout = FALSE
  ScanLevel = 1
  OtherScans = FALSE
  MaxReScans = 0
  MaxSubXacts = 0
INVARIANTS
  EofComplete
  CleanEnd
PROPERTIES
  CallsReturn
CHECK_DEADLOCK FALSE
