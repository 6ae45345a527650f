SPECIFICATION FairSpec
CONSTANTS
  FAIL_BITS = 3
  HEAT_FAIL_TRESHOLD = 2
  MODULE_LENGTH = 4
  RGB_LED_COUNT = 1
  HEAT_SENSOR_LEN = 2
  Value = {0, 1}
  Configs <- MCConfigs
  DEFAULT <- MCDefault
  RawData <- MCRawData
  ColorData <- MCColorData
  Capacity = 1
INVARIANTS TicksAccounted
PROPERTIES LampSpec OverheatStops
