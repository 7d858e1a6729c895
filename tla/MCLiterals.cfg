SPECIFICATION Spec
CONSTANTS
  BUFFER_NODE_MAX = 2
  Files <- Undocumented
  Wanted = {"SEMICOLON"}
INVARIANT TokensAreDocumented
CHECK_DEADLOCK FALSE
