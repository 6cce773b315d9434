SPECIFICATION Spec
CONSTANTS
  Materials = {flour}
  Products = {cake}
  Units = {gram, unit}
  Keys = {k1, k2}
  NoKey = NoKey
  MaxCost = 2
  MaxCalls = 5
  Requests = {r1, r2}
SYMMETRY Interchangeable
INVARIANTS ReferencesResolve ImagesResolve HistoryTellsTheCost RecipesKeepTheirUnit
CHECK_DEADLOCK FALSE
