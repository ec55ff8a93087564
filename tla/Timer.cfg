SPECIFICATION TimerSpec
CONSTANTS
  Durations = {0, 1, 2}
  MaxTicks = 4
CHECK_DEADLOCK FALSE
PROPERTY NanosleepReturns
