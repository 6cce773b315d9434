SPECIFICATION SpecFromOpened
CONSTANTS
  flour = flour
  sugar = sugar
  Scale = 10
  RatioScale = 100
  Materials = {flour, sugar}
  Product = cake
  Sales = {s1, s2}
  Lines = {l1, l2}
  Losses = {d1}
  Reasons = {expired}
  Purchases = {p1, p2}
  Recordable <- MCNotes
  baker = baker
  grocer = grocer
  Costs = {0, 100}
  Holds = {40}
  Bills <- MCBills
  FixedCosts = {5}
  Margins = {5000}
  ManualPrices = {333}
  PieceQuantities = {1}
  LooseQuantities = {7}
  Received = {9}
  MonthLength = 2
  Offset = 1
  MaxNow = 1
  MaxCalls = 4
SYMMETRY Interchangeable
CHECK_DEADLOCK FALSE
INVARIANTS
  PanelsTellTheDetails
  BuyingTheListIsEnough
  CapacityCanBeMade
  ReversalIsExactButForTies
PROPERTY AgreedPricesHold
