SPECIFICATION Spec
CONSTANTS
  Tables <- MCTables
  Name = {"A", "B"}
  Fdw = {"pgspider_fdw", "file_fdw", "griddb_fdw"}
  Address = {"1", "2"}
  NoAddress = ""
  MaxRows = 2
  MaxChanges = 2
  MaxFlips = 2
INVARIANTS
  QuietBetween
  MirrorsHash
PROPERTIES
  EventuallyRight
  Terminates
CHECK_DEADLOCK FALSE
