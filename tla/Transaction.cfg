SPECIFICATION Spec
CONSTANTS
  Session = {s1, s2}
  NoSession = NoSession
  Call <- MCCall
  Seed <- MCSeed
  MaxCalls = 2
  c1 = c1
  c2 = c2
  c3 = c3
  k1 = k1
  k2 = k2
  r1 = r1
  r2 = r2
  salt1 = salt1
  salt2 = salt2
  p1 = p1
  Customer = {c1, c2, c3}
  Address = {"alice@", "Alice@", "bob@", "carol@", "dave@"}
  Fold <- MCFold
  Reference = {}
  Secret = {p1}
  Salt = {salt1, salt2}
  ChangeId = {k1, k2}
  ResetId = {r1, r2}
  Instant = {1, 2, 3}
  Window = {1, 2, 3}
  FirstReadable = 0
  LastReadable = 3
  NoAddress = NoAddress
  NoReference = NoReference
  NoSecret = NoSecret
  NoSalt = NoSalt
  NoInstant = NoInstant
  NoRow = NoRow
SYMMETRY MCSymmetry
INVARIANTS
  CommittedTablesAreSound
  OneDoorNeverDeadlocks
PROPERTIES
  CommitsAreSerial
CHECK_DEADLOCK FALSE
