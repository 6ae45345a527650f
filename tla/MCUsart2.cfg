SPECIFICATION FairSpec
CONSTANTS
  Byte <- MCByte
  my_address = 0
  USART_BUFFER_COUNT = 2
  CMD_BUFFER_LEN = 2
  SET_RAW_LENGTH = 2
  SET_XYY_LENGTH = 1
  FAIL_BITS = 2
  USART_FAIL_TRESHOLD = 2
INVARIANTS RingConsistent WithinBuffer
PROPERTIES PendingUntouched HandsOverComplete
PROPERTIES EveryCommandRuns FlagIsReported QueueSpec
CHECK_DEADLOCK FALSE
