SPECIFICATION Spec
CONSTANTS
  BUFFER_NODE_MAX = 2
  Files <- MCFiles
  Wanted = {"SEMICOLON"}
INVARIANTS TypeOK LongestLexeme LiteralsAreRead ReportedOnce
PROPERTIES ImplementsTokenStream ZapArrives ZapComesNearer
