CONSTANTS
  Addresses = {a1, a2, a3, a4}
  NULL = NULL
  MaxLoads = 6
  BENOS_MAX_PROCESSES = 2

SPECIFICATION FairSpec
INVARIANTS TypeOK ListSound KeyboardGoesToNewest OnlyStalePointersHarm
PROPERTY EveryoneRuns
CHECK_DEADLOCK FALSE
