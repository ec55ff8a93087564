SPECIFICATION FairSpec
CONSTANTS
  MAX_PROCS = 3
  MaxPid = 3
  Signals = {2, 9}
  Installed = {"IGN", "CUSTOM"}
  ExitCodes = {0}
  TtyCap = 1
INVARIANTS
  IInv
PROPERTIES
  HandledSignalKept
  NoStarvation
  SigkillIsFatal
