SPECIFICATION ReadsSpec
CONSTANTS
  Customer = {c1}
  Address = {alice, bob, carol}
  Fold <- MCFold
  Reference = {}
  Secret = {p1}
  ChangeId = {k1, k2}
  ResetId = {}
  Instant = {1, 2}
  Window = {2}
  FirstReadable = 0
  LastReadable = 4
  Salt = {s1}
  Confirmer = {t1, t2}
  NoReading = NoReading
  NoSalt = NoSalt
  NoAddress = NoAddress
  NoReference = NoReference
  NoSecret = NoSecret
  NoInstant = NoInstant
  NoRow = NoRow
SYMMETRY MCSymmetry
INVARIANTS
  ShownAddressIsInTheShownHistory
  NoChangeVanishesFromTheAnswer
  LatestRowIsTheAddress
CHECK_DEADLOCK FALSE
