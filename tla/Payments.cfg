SPECIFICATION PaymentsSpec
CONSTANTS
  Item = {i1}
  Location = {1}
  NoLocation = none
  Holder = {o1}
  Key = {k1}
  Quantity = {1}
  MaxStock = 1
  MaxTime = 2
  None = none
  Guest = {g1}
  CheckoutKey = {c1}
  Quote = {q1}
  Price = {p1}
  MaxLine = 1
  PendingLimit = 1
  QuoteTime = 1
  HoldTime = 2
  Total = 2
  Amount = {1, 2}
  EventId <- FactIds
  RefundId = {r1}
  Starter = {s1}
  StartMargin = 1
  Delivered = {"completed", "expired", "charge.refunded"}
  FirstStatus = {"PENDING", "SUCCEEDED"}
  PartialId = {r1}
  Edits = {"tree"}
  MaxHooks = 1
  MaxCrashes = 1
INVARIANTS
  BooksFollowMoney
  RefundedIsCovered
  GoodsLeavePaid
CHECK_DEADLOCK FALSE
