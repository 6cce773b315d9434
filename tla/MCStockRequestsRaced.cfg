SPECIFICATION Spec
CONSTANTS
  flour = flour
  sugar = sugar
  cake = cake
  Materials = {flour}
  Products = {cake}
  Sales = {s1}
  Lines = {l1}
  Quantities = {1}
  MaxHeld = 1
  Recipes <- OneRecipe
  Requests = {r1, r2}
  Operations <- RacingOperations
  AskedStatuses = {"PENDING", "ASSEMBLED"}
  ConflictsAllowed = TRUE
SYMMETRY Interchangeable
INVARIANTS StockLostOnlyToARace SnapshotsFitTheSaleUnlessRaced
