SPECIFICATION FairSpec
CONSTANTS
  ID_LIMIT = 4
  fade_steps = 2
  Colors = {0, 250}
  LedOptions <- MCLedOptions
  MaxThreads = 3
PROPERTIES FadesTogether StopsAfterSignal
CHECK_DEADLOCK FALSE
