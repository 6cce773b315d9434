SPECIFICATION FairFromCakeSold
CONSTANTS
  flour = flour
  sugar = sugar
  cake = cake
  Materials = {flour, sugar}
  Products = {cake}
  Sales = {s1}
  Lines = {l1}
  Quantities = {1}
  MaxHeld = 0
  Recipes <- OneRecipe
  Requests = {r1, r2}
  Operations = {"updateProductionStatus"}
  AskedStatuses = {"PENDING", "ASSEMBLED"}
  ConflictsAllowed = TRUE
PROPERTY EveryCallEnds
