SPECIFICATION FairSpec
CONSTANTS
  UINT8_MAX = 1
  NNodes = 4
  Type <- RelayType
  Port <- RelayPort
  Wire <- WireIds
  Program <- RelayProgram
  BufData <- Zeroes
  MaxStack = 2
  Input = {0, 1}
  MaxStdin = 1
  MaxOut = 0
PROPERTIES Ends MessagesArrive EndlessTurnsAreAlone StuckMachinesWindDown NoTurnIsMissed TurnsDrainWires
