SPECIFICATION BusSpec
CONSTANTS
  Byte <- MCByte
  my_address = 7
  USART_BUFFER_COUNT = 2
  CMD_BUFFER_LEN = 3
  SET_RAW_LENGTH = 3
  SET_XYY_LENGTH = 2
  FAIL_BITS = 1
  USART_FAIL_TRESHOLD = 2
  Led = {0}
  channels <- MCchannels
  channelCounts <- MCchannelCounts
  Colors <- MCColors
  MaxFrames = 7
INVARIANTS OnlySentCommands OneStrobeHeals
PROPERTIES WholeFrameStored
