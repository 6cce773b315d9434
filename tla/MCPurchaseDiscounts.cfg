SPECIFICATION Spec
CONSTANTS
  Lines = {l1, l2, l3, l4}
  Values = {1, 3}
  Discounts = {0, 2, 3}
SYMMETRY Interchangeable
INVARIANTS
  ConstructorAccepts
  AttributionIsCurrent
  SharesAreFairButOne
PROPERTY ManualAmountsAreTheUsers
