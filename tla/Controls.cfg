SPECIFICATION Spec
CONSTANTS
  File = {"cli", "test_g13"}
  Rewritten = {"test_g13"}
  Control = {"smtplib", "window", "luhn"}
  FileOf <- MCFileOf
  Sees <- MCSees
  KeepsAnchor = {"smtplib"}
  SizePreserving = {"window"}
  MaxClock = 1
  MaxWrites = 4
  Cut = Cut
  NoControl = NoControl
  NoCache = NoCache
INVARIANTS
  CountedMeansNoticed
  RedRunLoadsThePlant
  OnlyACutOffRunLeavesAFault
CHECK_DEADLOCK FALSE
