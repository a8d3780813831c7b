SPECIFICATION Spec
CONSTANTS
  NThreads = 3
  Rows <- Rows124
  MayFail = {0, 1}
  ThrowErrorIfDead = {TRUE, FALSE}
INVARIANTS
  CountExact
  CleanEnd
PROPERTIES
  Implements
