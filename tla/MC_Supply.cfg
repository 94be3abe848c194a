SPECIFICATION StockSpec
CONSTANTS
  Item = {i1, i2}
  Location = {1, 2, 3, 4}
  NoLocation = none
  Holder = {h1}
  Key <- AllKeys
  StaffKey = {k1}
  Quantity = {1}
  MaxStock = 1
  MaxTime = 1
  Country = {"JP", "FR"}
  NoCountry = nowhere
  Layout <- ThreePlaces
  Settings <- Edits
  MaxWork = 1
  Purchase = {p1}
  MaxLines = 2
  Shipment = {s1}
  Box <- OneBox
  Review = {v1}
  BulkAction = {"transfer", "adjust"}
  Defaults <- Pairs
  MaxTries = 2
  Design = {d1, d2}
  Wide = {d2}
  RowKey = {w1, w2}
  Candidate = {w1, w2}
  Form = {f1}
  FormKey = {n1, n2, n3, n4}
  Offered = {1, 3}
  MaxPosts = 2
  Card = {1, 2, 3}
  Lineup = {1, 2}
  OptionLimit = 1
  View <- SomeViews
  Start <- OneCatalog
  PageSize = 2
  MaxAsked = 2
  MaxRelease = 1
  MaxHeld = 1
  MaxPriority = 1
  MaxTarget = 1
  MaxWrites = 2
INVARIANTS
  StockBacked
  LedgerReconciles
  TreeIsAcyclic
  ReceiptsAreBooked
  ShownIsBooked
  PageIsExact
  WalkSeesEach
PROPERTIES
  ConsignmentContract
  DuplicatesAreConfirmed
CHECK_DEADLOCK FALSE
SYMMETRY Symmetric
