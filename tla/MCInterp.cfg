SPECIFICATION Spec
CONSTANTS
  UINT8_MAX = 255
  STACK_SIZE = 2
  NNodes = 4
  Type <- TacType
  Port <- TacPort
  Wire <- WireIds
  Codes <- TacAndFaulty
  BufData <- NoBuffers
  MaxStack = 8
  Input = {10, 97, 98}
  MaxStdin = 4
  MaxOut = 8
INVARIANTS TypeOK TacReverses
PROPERTIES ImplementsVM CodeImplementsNoded
