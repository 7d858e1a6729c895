SPECIFICATION Spec
CONSTANTS
  UINT8_MAX = 255
  STACK_SIZE = 512
  NNodes = 6
  Type <- AdderType
  Port <- AdderPort
  Wire <- WireIds
  Codes <- OnlyAdder
  BufData <- AdderData
  MaxStack = 8
  Input = {57, 32, 10, 120}
  MaxStdin = 4
  MaxOut = 18
INVARIANTS AdderAdds StatementsBalance
