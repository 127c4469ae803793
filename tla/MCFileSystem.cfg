CONSTANTS
  Memory = 25
  BENOS_MAX_FILE_DESCRIPTORS = 2
  BENOS_MAX_PATH = 9
  LowerOf <- LowerLetters
  Root = 1
  ClusterEntries = 1
  Volumes <- SmallVolumes
  Opens <- SmallOpens
  Offsets = {0, 1, 2}
  MaxOpens = 4
  MaxPos = 2

SPECIFICATION Spec
INVARIANTS TypeOK TableSound OnlyPathsLeak OnlyMishapsHarm PositionInFile
PROPERTIES OpensWhatIsNamed FopenReturns
CHECK_DEADLOCK FALSE
