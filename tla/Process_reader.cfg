SPECIFICATION Spec
CONSTANTS
  MAX_PROCS = 4
  MaxPid = 4
  Signals = {2, 9}
  Installed = {"DFL"}
  ExitCodes = {0}
  TtyCap = 1
INVARIANT BlockedReaderRecorded
