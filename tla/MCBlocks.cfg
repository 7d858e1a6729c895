SPECIFICATION Spec
CONSTANTS
  UINT8_MAX = 255
  ERROR_MAX = 2
  STACK_SIZE = 512
  Alphabets <- MCAlphabets
  MaxChunks = 5
  StaleLabels <- NoLabels
INVARIANTS CodeIsBalanced GotoesAreDefined PassesAgree NodedcEnds
CHECK_DEADLOCK FALSE
