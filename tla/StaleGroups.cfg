SPECIFICATION Spec
CONSTANTS
  c1 = c1
  c2 = c2
  Child = {c1, c2}
  Tables <- TwoChildren
  GroupBys = {TRUE}
  Havings = {0}
  NScans = 1
  NULL = NULL
  MaxReScans = 1
INVARIANTS
  RescanRight
