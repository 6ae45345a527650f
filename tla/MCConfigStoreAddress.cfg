SPECIFICATION FairSpec
CONSTANTS
  ENTRY_COUNT = 3
  ENTRY_LENGTH = 3
  Configs <- MCConfigs
  DEFAULT <- MCDefault
INVARIANT SavedIsLoaded
