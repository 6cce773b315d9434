SPECIFICATION Spec
CONSTANTS
  flour = flour
  sugar = sugar
  cake = cake
  Materials = {flour, sugar}
  Products = {cake}
  Sales = {s1, s2}
  Lines = {l1, l2}
  Quantities = {1}
  MaxHeld = 3
  Recipes <- MCRecipes
SYMMETRY Interchangeable
INVARIANTS
  StockConserved
  PendingHoldsNoStock
PROPERTY ShortOnlyWhenShelfEmptied
