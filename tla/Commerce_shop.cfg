SPECIFICATION Spec
CONSTANTS
  Item = {i1}
  Location = {1}
  NoLocation = none
  Holder = {o1, o2}
  Key = {k1}
  Quantity = {1}
  MaxStock = 1
  MaxTime = 1
  None = none
  Guest = {g1}
  CheckoutKey = {c1, c2}
  Quote = {q1, q2}
  Price = {p1, p2}
  MaxLine = 1
  PendingLimit = 2
  QuoteTime = 1
  HoldTime = 1
  Total = 2
  Amount = {1, 2}
  EventId = {e1, e2}
  RefundId = {r1}
SYMMETRY SymmetricTerms
INVARIANTS
  ClosedHoldsNothing
  FulfillmentFollows
  OneOrderPerSubmission
CHECK_DEADLOCK FALSE
