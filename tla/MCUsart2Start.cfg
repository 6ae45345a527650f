SPECIFICATION FairSpec
CONSTANTS
  Byte <- MCDataBytes
  my_address = 0
  USART_BUFFER_COUNT = 2
  CMD_BUFFER_LEN = 2
  SET_RAW_LENGTH = 2
  SET_XYY_LENGTH = 1
  FAIL_BITS = 1
  USART_FAIL_TRESHOLD = 2
PROPERTY StartMarkRestarts
CHECK_DEADLOCK FALSE
