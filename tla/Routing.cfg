SPECIFICATION Spec
SYMMETRY Sessions
CONSTANTS
  s1 = s1
  s2 = s2
  p = p
  q = q
  Session = {p, q}
  Table = {0, 1, 2}
  Server <- Server122
  NoUrl = NoUrl
  BadUrl = BadUrl
  NoName = NoName
  Urls = {NoUrl, BadUrl, s1, s2}
  NewNames = {5}
  MayRefuse = {0}
  MaxBatch = 2
  MaxRows = 4
  MaxRenames = 1
INVARIANTS
  TypeOK
  EvenIfUndisturbed
  UrlObeyed
PROPERTIES
  NotTwiceRunning
