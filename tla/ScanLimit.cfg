SPECIFICATION Spec
CONSTANTS
  QueueLen = 2
  NoTuple = NoTuple
  NThreads = 2
  Settings <- Cut
  Parameterised = {1}
  Late = {}
  MayFail = {}
  StatementTimeout = FALSE
  ScanLevel = 1
  OtherScans = FALSE
  MaxReScans = 1
  MaxSubXacts = 0
INVARIANTS
  TypeOK
  InOrder
  EofComplete
  EndOnce
PROPERTIES
  FdwProtocol
  CallsReturn
CHECK_DEADLOCK FALSE
