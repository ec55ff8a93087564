SPECIFICATION PipeSpec
CONSTANTS
  PIPE_BUF_SIZE = 4
  USIZE = 8
  Bytes = {0, 1}
  Messages <- MCMessages
  Lengths = {1, 2, 3, 4}
INVARIANTS OneSlotEmpty
PROPERTIES ImplementsFifo
