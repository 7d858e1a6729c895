SPECIFICATION Spec
CONSTANTS
  UINT8_MAX = 1
  NNodes = 6
  Type <- RingType
  Port <- RingPort
  Wire <- WireIds
  Program <- RingProgram
  BufData <- Zeroes
  MaxStack = 1
  Input = {0, 1}
  MaxStdin = 0
  MaxOut = 0
INVARIANTS TypeOK QuiescentExit IInv
PROPERTIES ImplementsNoded SendBlocksUntilRead
