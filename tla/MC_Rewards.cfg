SPECIFICATION RewardsSpec
CONSTANTS
  Item = {i1}
  Location = {1, 2}
  NoLocation = none
  Holder <- PoolHolders
  Key = {k1, k2}
  Quantity = {1}
  MaxStock = 1
  MaxTime = 0
  None = none
  Banner = {b1}
  Configuration = {c1}
  Pull = {p1, p2}
  GrantKey = {s1}
  DrawsEnabled = TRUE
  MaxAllocation = 2
  Window <- Start
  Customer = {g1, g2}
  RequestKey = {r1, r2}
  Authorization = {a1}
  AuthorizationKey = {x1}
  MaxPulls = 2
  AllowedTime = 2
  ClaimKey = {y1}
  Address = {d1}
SYMMETRY Symmetric
INVARIANTS
  WholeAllocation
  AllowanceKept
  OneAwardPerRequest
  RewardFollowsAward
PROPERTIES
  DrawContract
CHECK_DEADLOCK FALSE
