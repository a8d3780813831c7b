SPECIFICATION Spec
CONSTANTS
  QueueLen = 3
  MaxRows = 10
  NoTuple = NoTuple
INVARIANTS
  TypeOK
  SlotIntact
  MemoryAlive
  IInv
PROPERTY ImplementsStream
