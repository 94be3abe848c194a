SPECIFICATION OfficeSpec
CONSTANTS
  Shipment = {s1, s2}
  Contents <- Two
  Batch = {1, 2}
  Purchase = {"p"}
  Line <- TwoLines
  Fees <- Fee
  Choice <- Selections
  Costs <- Recorded
  CalculationId = {c1, c2, c3}
  MaxPolicies = 1
  Item = {i1, n1, n2}
  Stored = {i1}
  Gallery <- OneImage
  Traded = {}
  Text = {t1, t2}
  Slug = {u1, u2}
  Reference = {r1}
  Image = {m1}
  Imports = {{n1, n2}, {n1}}
  MaxEdits = 3
  Word = {c1, c2, c3}
  Good = {"g1", "g2"}
  Origin = {"o1", "o2"}
  Held <- Stock
  MaxRequests = 2
  MaxChanges = 1
  Clerk = {k1, k2}
  None = none
SYMMETRY Symmetric
INVARIANTS
  UnitsChargedOnce
  ChargesAddUp
PROPERTIES
  ReviewStillHolds
  SavesFollowThePage
  ImportIsWhole
CHECK_DEADLOCK FALSE
