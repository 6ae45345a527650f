SPECIFICATION FairPrompt
CONSTANTS
  ENTRY_COUNT = 2
  ENTRY_LENGTH = 7
  Configs = {}
  DEFAULT <- MCDefault
  RGB_LED_COUNT = 1
  HEAT_SENSOR_LEN = 1
  UINT_LIMIT = 262144
  Numbers <- MCNumbers
  Assignments <- MCAssignments
  Corrections = {1}
  MaxPaste = 1
INVARIANTS OneInUse SaveIsDurable FailsOnlyDisturbed RunsValid
PROPERTIES AtomicSave SaveReturns
