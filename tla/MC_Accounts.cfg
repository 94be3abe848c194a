SPECIFICATION AccountsSpec
CONSTANTS
  Customer = {c1}
  Session = {s1, s2}
  Link = {l1, l2}
  AddressId = {a1}
  Browser = {b1, b2}
  None = none
  SessionTime = 2
  LinkTime <- Lives
  Limit <- Limits
  WindowTime = 1
  MaxAddresses = 1
  MaxTime = 1
SYMMETRY Symmetric
INVARIANTS
  SessionsAreCurrent
  LinksAreCurrent
  AttemptsBounded
PROPERTIES
  ReturnIsFresh
CHECK_DEADLOCK FALSE
