SPECIFICATION SpaceSpec
CONSTANTS
  NFRAMES = 18
  NPROCS = 2
  KSTACK_PAGES = 2
  PT_PAGES = 2
  PD_PAGES = 8
  USER_CODE = 2
  UserPages <- MCUserPages
  Images <- MCImages
  BRK_START = 6
  BRK_MAX = 7
  MmapFixed = {9}
  CHUNK_COUNT = 1
  CHUNK_CAP = 2
INVARIANTS  WalkFindsAll MetadataReturned
PROPERTIES ExecAtomic ParentRestored 
CHECK_DEADLOCK FALSE
