CONSTANTS
  Total = 22
  WordSize = 33554432
  MaxLoads = 3
  MaxArgs = 2
  MaxOthers = 1
  Programs <- FittingPrograms
  Sizes = {0, 4097}
  SizeofProcess = 4096
  DirectoryBlocks = 1
  BENOS_USER_PROGRAM_STACK_SIZE = 4096
  BENOS_MAX_PROGRAM_ALLOCATIONS = 2

SPECIFICATION Spec
INVARIANTS TypeOK MemoryAccounted WritesItsOwn
PROPERTY ArgumentsComplete
CHECK_DEADLOCK FALSE
