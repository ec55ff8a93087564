SPECIFICATION Spec
CONSTANTS
  MAX_PROCS = 4
  MaxPid = 5
  Signals = {2, 9}
  Installed = {"DFL"}
  ExitCodes = {0}
  TtyCap = 1
INVARIANTS
  PidsUnique
  NeverHalts
  CountMatches
  WaitedChildAlive
PROPERTIES
  ZombiesStayDead
  BoundedBypass
