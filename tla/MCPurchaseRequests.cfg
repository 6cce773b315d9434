SPECIFICATION SpecFromOne
CONSTANTS
  Callers = {c1, c2}
  Lines = {l1, l2}
  Values = {2, 3}
  Discounts = {1}
  RegisteredModes = {"PROPORTIONAL"}
  PackageQuantities = {1, 2}
  MaxCalls = 2
SYMMETRY Interchangeable
INVARIANTS
  StoredPurchaseCloses
  AttributionIsCurrentUnlessTorn
  StockHoldsEveryEntry
CHECK_DEADLOCK FALSE
