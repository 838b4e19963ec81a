SPECIFICATION Spec
CONSTANTS
  Customer = {c1, c2}
  Address <- MCAddress
  Fold <- MCFold
  Reference = {}
  Secret = {p1}
  ChangeId = {k1, k2}
  ResetId = {r1, r2}
  Instant <- MCInstant
  Window <- MCWindow
  FirstReadable = 0
  LastReadable = 3
  Salt = {s1, s2, s3}
  NoSalt = NoSalt
  NoAddress = NoAddress
  NoReference = NoReference
  NoSecret = NoSecret
  NoInstant = NoInstant
  NoRow = NoRow
SYMMETRY MCSymmetry
INVARIANTS
  TypeOK
  OneAccountPerAddress
  OneLiveTokenOfEachKind
  LiveResetGoesToCurrentAddress
  LiveChangeIsUnderCurrentCredential
  LiveChangeMovesTheAddress
  HistoryIsAChain
  RedeemedChangesAreTheHistory
  RedeemedInsideTheWindow
PROPERTIES
  TokensCloseOnce
  AddressMovesOnlyByItsToken
CHECK_DEADLOCK FALSE
