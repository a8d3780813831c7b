SPECIFICATION Spec
CONSTANTS
  NThreads = 2
  Modes <- ComputedModes
  MayFail = {0, 1}
  ThrowErrorIfDead = TRUE
  ScanMayFail = TRUE
  BatchLimit = 3
INVARIANTS
  TypeOK
  InOrder
  ExecOnBegun
  NoErrorLost
  CleanEnd
PROPERTIES
  Implements
