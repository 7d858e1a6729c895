SPECIFICATION Spec
CONSTANTS
  UINT8_MAX = 255
  ERROR_MAX = 10
  STACK_SIZE = 512
  Names <- XYZ
  Programs <- UnlikeSpec
INVARIANT MeansWhatItSays
CHECK_DEADLOCK FALSE
