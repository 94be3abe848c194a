SPECIFICATION FairPayments
CONSTANTS
  Item = {i1}
  Location = {1}
  NoLocation = none
  Holder = {o1}
  Key = {k1}
  Quantity = {1}
  MaxStock = 1
  MaxTime = 1
  None = none
  Guest = {g1}
  CheckoutKey = {c1}
  Quote = {q1}
  Price = {p1}
  MaxLine = 1
  PendingLimit = 1
  QuoteTime = 1
  HoldTime = 1
  Total = 2
  Amount = {1, 2}
  EventId <- FactIds
  RefundId = {r1}
  Starter = {s1}
  StartMargin = 1
  Delivered = {}
  FirstStatus = {"PENDING", "SUCCEEDED"}
  PartialId = {}
  Edits = {}
  MaxHooks = 1
  MaxCrashes = 0
PROPERTIES
  RefundFailureReviewed
CHECK_DEADLOCK FALSE
