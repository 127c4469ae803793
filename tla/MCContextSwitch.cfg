CONSTANTS
  Tasks = {1, 2}
  Versions = {0, 1}
  Pages = {p1, p2}

SPECIFICATION Spec
SYMMETRY Symmetry
INVARIANTS TypeOK UserRunsAsUser ReadsCallersMemory
PROPERTY ResumesAsStopped
CHECK_DEADLOCK FALSE
