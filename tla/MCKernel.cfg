SPECIFICATION KernelSpec
CONSTANTS
  PAGE = 4
  PMM_MAX_PAGES = 8
  LowLimit = 8
  MaxEnd = 48
  KernelStart = 12
  KernelSize = 8
  Maps <- MCMaps
  Counts = {2, 3}
  HEAP_SIZE = 360
  Sizes = {1, 33, 104}
  INITIAL_HEAP_PAGES = 2
  BootStart = 24
  Points = {1, 2}
  Tight = {2}
  NSLOTS = 3
  Code <- MCCode
  Calls <- MCCalls
  TickInStart = FALSE
INVARIANTS
  BitmapExact KernelNotAllocated AvailableFreed
  HeapTiled SortedAndCoalesced
  CpuMatchesCurrent FramesOwned CtxInv
PROPERTIES ImplementsMachines ResultsSurvive
