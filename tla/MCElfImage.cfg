CONSTANTS
  PAGING_PAGE_SIZE = 2
  PAGING_TOTAL_ENTRIES_PER_TABLE = 4
  BENOS_PROGRAM_VIRTUAL_ADDRESS = 4
  BENOS_PROGRAM_VIRTUAL_STACK_ADDRESS_END = 2
  BENOS_USER_PROGRAM_STACK_SIZE = 2
  ElfFile = 16
  ElfMem = 18
  FileSize = 4
  Stack = 24
  Files <- MCFiles

SPECIFICATION Spec
INVARIANTS ImageIsTheFile WritesFileAndStack
CHECK_DEADLOCK FALSE
