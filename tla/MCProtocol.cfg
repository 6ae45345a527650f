SPECIFICATION Spec
CONSTANTS
  Library = {"go", "rust", "python", "cpp", "java"}
  TOKEN_SIZE = 2
  Tokens <- MCTokens
  Known <- MCKnown
  SetCalls <- MCSetCalls
  MaxCalls = 3
  MaxConnections = 2
INVARIANTS CallsAsMeant NothingHeldBack
CHECK_DEADLOCK FALSE
