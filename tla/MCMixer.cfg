SPECIFICATION FairSpec
CONSTANTS
  c1 = c1
  c2 = c2
  wall = wall
  guest = guest
  vip = vip
  Client = {c1, c2}
  Persistent = {wall}
  Private = {guest, vip}
  Priority <- MCPriority
  Led = {l1}
  Opaque = {red}
  MaxRequests = 6
  BACKGROUND = BACKGROUND
  MIXER = MIXER
  NONE = NONE
  QUIT = QUIT
  BROKEN = BROKEN
  UNKNOWN = UNKNOWN
  UNSET = UNSET
  TRANSPARENT = TRANSPARENT
  BLACK = BLACK
INVARIANTS OverlaysInOrder StaleIsDirty
PROPERTIES ChangesWaitForStrobe Converges RequestsFinish
CHECK_DEADLOCK FALSE
