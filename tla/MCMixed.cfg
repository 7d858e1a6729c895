SPECIFICATION Spec
CONSTANTS
  UINT8_MAX = 1
  NNodes = 3
  Type <- MixedType
  Port <- MixedPort
  Wire <- WireIds
  Program <- MixedProgram
  BufData <- Zeroes
  MaxStack = 2
  Input = {0, 1}
  MaxStdin = 0
  MaxOut = 0
PROPERTY SendBlocksUntilRead
