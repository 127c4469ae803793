CONSTANTS
  Addresses = {a1, a2, a3, a4, a5}
  NULL = NULL
  MaxLoads = 4
  BENOS_MAX_PROCESSES = 2

SPECIFICATION Spec
SYMMETRY AddressSymmetry
INVARIANT NoProcessesLeft
CHECK_DEADLOCK FALSE
