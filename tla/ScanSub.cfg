SPECIFICATION Spec
CONSTANTS
  QueueLen = 2
  NoTuple = NoTuple
  NThreads = 2
  Settings <- CutThrow
  Parameterised = {1}
  Late = {}
  MayFail = {0}
  StatementTimeout = TRUE
  ScanLevel = 2
  OtherScans = TRUE
  MaxReScans = 0
  MaxSubXacts = 1
INVARIANTS
  TxnSafe
PROPERTIES
  CallbacksReturn
CHECK_DEADLOCK FALSE
