SPECIFICATION FairSpec
CONSTANTS
  Run = {i1, i2, i3}
INVARIANTS
  DoneMeansWritten
  StoppedMeansNothingWritten
  SpentExactlyOnce
PROPERTIES
  EveryRunEnds
CHECK_DEADLOCK FALSE
