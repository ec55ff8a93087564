SPECIFICATION TtySpec
CONSTANTS
  Keys <- MCKeys
  Shifted <- MCShifted
  ShiftKeys = {"left", "right"}
  SerialBytes = {"intr", "esc"}
  KB_SIZE = 2
  BUF_SIZE = 3
  LINE_MAX = 2
  SCRATCH = 1
  RX_FIFO = 2
  ReadSizes = {1, 2}
  MaxBytes = 4
INVARIANTS
  ReadsCanonical
  NothingInvented
  
