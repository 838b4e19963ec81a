SPECIFICATION Spec
CONSTANTS
  Session = {s1, s2}
  Door <- AllDoors
  Customer = {c1, c2}
  Address = {"alice@", "bob@"}
  Fold <- MCFold
  Reference = {x1}
  Secret = {p1}
  Salt = {salt1, salt2}
  ChangeId = {k1, k2}
  ResetId = {r1}
  Instant = {1}
  Window = {1}
  FirstReadable = 0
  LastReadable = 3
  NoSession = NoSession
  NoCustomer = NoCustomer
  NoAddress = NoAddress
  NoReference = NoReference
  NoSecret = NoSecret
  NoSalt = NoSalt
  NoInstant = NoInstant
  NoRow = NoRow
SYMMETRY MCSymmetry
INVARIANTS
  WhatWasReadStillHolds
PROPERTIES
  ImplementsAccount
CHECK_DEADLOCK FALSE
