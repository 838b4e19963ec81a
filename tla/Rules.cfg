SPECIFICATION RulesSpec
CONSTANTS
  LastHour = 1000
  ReadBackMargin = 168
  WidestOffset = 23
  WidestZone = 167
  MinPasswordBytes = 2
  Window <- MCWindow
  Given <- MCGiven
  CommandLine <- MCCommandLine
  Declared <- MCDeclared
  Document <- MCDocument
INVARIANTS
  WindowsReadBack
  AcceptedMeansStored
  DashedValuesArrive
  GreenMeansIsolated
  GreenMeansDerived
CHECK_DEADLOCK FALSE
