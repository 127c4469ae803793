CONSTANTS
  MaxLoads = 2
  BufferSize = 2
  ScanSet <- MCScanSet
  AfterSet = {0, 120}
  CapsLock = 2
  MaxKeys = 4

SPECIFICATION Spec
INVARIANTS TypeOK BufferSound
PROPERTY ImplementsKeyQueue
