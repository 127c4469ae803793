CONSTANTS
  Total = 5
  WordSize = 65536
  Tables <- AllTables

SPECIFICATION Spec
INVARIANTS LoopsMatchDefinitions FreeUndoesMalloc
PROPERTY LoopsEnd
CHECK_DEADLOCK FALSE
