SPECIFICATION FairSpec
CONSTANTS
  Session = {s1, s2, s3}
  Door <- AllDoors
  Customer = {c1}
  Address = {"alice@", "bob@"}
  Fold <- MCFold
  Reference = {}
  Secret = {p1}
  Salt = {salt1, salt2}
  ChangeId = {k1}
  ResetId = {r1}
  Instant = {1}
  Window = {1}
  FirstReadable = 0
  LastReadable = 3
  NoSession = NoSession
  NoCustomer = NoCustomer
  NoAddress = NoAddress
  NoReference = NoReference
  NoSecret = NoSecret
  NoSalt = NoSalt
  NoInstant = NoInstant
  NoRow = NoRow
INVARIANTS
  TokenLocksUnderTheirCustomer
PROPERTIES
  EveryDoorEnds
CHECK_DEADLOCK FALSE
