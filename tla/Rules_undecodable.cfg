SPECIFICATION RulesSpec
CONSTANTS
  LastHour = 1000
  ReadBackMargin = 168
  WidestOffset = 23
  WidestZone = 167
  MinPasswordBytes = 2
  Window <- MCWindow
  Given <- FewGiven
  CommandLine <- MCCommandLine
  Declared <- MCDeclared
  Document <- MCDocument
INVARIANTS
  NothingEscapes
CHECK_DEADLOCK FALSE
