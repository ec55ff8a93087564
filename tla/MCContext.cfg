SPECIFICATION CtxSpec
CONSTANTS
  Points = {1, 2}
  Tight = {2}
  NSLOTS = 3
  Code <- MCCode
  Calls <- MCCalls
  TickInStart = TRUE
PROPERTIES StartsInit
