SPECIFICATION Spec
CONSTANTS
  WIDTH = 12
  FRAC_BITS = 6
  Primaries <- MCPrimaries
  Asked <- MCAsked
  Printable <- MCPrintable
  LINE_LENGTH = 6
  Symbols = {"-", "?", "["}
  NUMBER_LIMIT = 4096
  Typed <- MCTyped
  Beyond <- MCBeyond
INVARIANTS PrintedExactly PrimaryAlone LuminosityKept UnderstoodAsShown
CHECK_DEADLOCK FALSE
