SPECIFICATION Spec
CONSTANTS
  Item = {i1}
  Location = {1, 2}
  NoLocation = none
  Holder = {o1, o2}
  Key = {k1, k2}
  Quantity = {1}
  MaxStock = 1
  MaxTime = 1
  None = none
  Guest = {g1}
  CheckoutKey = {c1, c2}
  Quote = {q1, q2}
  Price = {p1}
  MaxLine = 2
  PendingLimit = 2
  QuoteTime = 1
  HoldTime = 1
  Total = 2
  Amount = {2}
  EventId = {e1}
  RefundId = {}
SYMMETRY Symmetric
INVARIANTS
  PaidIsAllocated
  OpenIsHeld
PROPERTIES
  StockContract
CHECK_DEADLOCK FALSE
