SPECIFICATION FairSpec
CONSTANTS
  LAST_CHAR = 34
  OUTPUT_BUFFER_LENGTH = 2
  INPUT_BUFFER_LENGTH = 7
  XOFF_TRESHOLD = 2
  XON_TRESHOLD = 1
  Lag = 1
INVARIANTS FlowControlHolds TransmitterWorks StoppedIsFull
PROPERTIES OutputIsSent InputIsRead InputResumes
CHECK_DEADLOCK FALSE
