CONSTANTS
  Total = 8
  WordSize = 65536
  Sizes = {1, 4096, 4097, 12288}
  Handles = {h1, h2, h3, h4, h5}

SPECIFICATION Spec
SYMMETRY HandleSymmetry
INVARIANTS TypeOK NoOverlap TableExact
PROPERTY ImplementsAllocator
