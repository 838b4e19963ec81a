SPECIFICATION Spec
CONSTANTS
  Customer = {c1, c2}
  AcceptanceId = {a1, a2}
  Session = {s1, s2}
  Channel = {email, sms}
  Name = {email, sms, fax}
  Text = {t1, t2, blank}
  BlankText = blank
  MaxPairs = 2
  NoCustomer = NoCustomer
  NoAcceptance = NoAcceptance
SYMMETRY MCSymmetry
INVARIANTS
  AccountsAreThoseWithTerms
  ConsentIsWhatWasShown
  ShownAcceptancesAreWhole
CHECK_DEADLOCK FALSE
