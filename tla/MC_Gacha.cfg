SPECIFICATION GachaSpec
CONSTANTS
  Item = {i1, i2}
  Location = {1}
  NoLocation = none
  Orders = {o1}
  Holder <- PoolHolders
  Key = {k1, k2}
  Quantity = {1}
  MaxStock = 1
  MaxTime = 1
  None = none
  Banner = {b1}
  Configuration = {c1, c2}
  Pull = {p1, p2}
  GrantKey = {s1}
  DrawsEnabled = TRUE
  MaxAllocation = 1
  Window <- Start
SYMMETRY Symmetric
INVARIANTS
  AwardKeepsUnit
  PoolIsCurrent
PROPERTIES
  OddsAreReal
CHECK_DEADLOCK FALSE
