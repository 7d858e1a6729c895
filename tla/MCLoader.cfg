SPECIFICATION Spec
CONSTANTS
  UINT8_MAX = 255
  Names <- MCNames
  PortNames <- MCPortNames
  Decls <- MCDecls
  MaxDecls = 4
INVARIANTS TypeOK CountsAgree AbortsAtACopyOfIo RunsOnATopology WiredAsDeclared
