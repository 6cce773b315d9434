SPECIFICATION Spec
CONSTANTS
  flour = flour
  sugar = sugar
  cake = cake
  Materials = {flour}
  Products = {cake}
  Sales = {s1, s2}
  Lines = {l1}
  Quantities = {1}
  MaxHeld = 1
  Recipes <- OneRecipe
  Requests = {r1, r2}
  Operations <- AllOperations
  AskedStatuses = {"PENDING", "ASSEMBLED", "DELIVERED"}
  ConflictsAllowed = FALSE
SYMMETRY Interchangeable
PROPERTY ImplementsSerial
