SPECIFICATION Spec
CONSTANTS
  QueueLen = 2
  NoTuple = NoTuple
  NThreads = 2
  Settings <- Cut
  Parameterised = {}
  Late = {}
  MayFail = {}
  StatementTimeout = FALSE
  ScanLevel = 1
  OtherScans = FALSE
  MaxReScans = 0
  MaxSubXacts = 0
PROPERTIES
  BreaksOnRequest
