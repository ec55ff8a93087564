SPECIFICATION Spec
CONSTANTS
  NPROCS = 2
  MAX_FDS = 2
  STD_FDS = 1
  OFT_SIZE = 3
  PipeIds = {1, 2}
  MaxOffset = 1
CHECK_DEADLOCK FALSE
INVARIANTS RefcountsExact PipeObjectsExact
PROPERTIES ImplementsDescriptions
