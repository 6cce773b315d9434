SPECIFICATION SpecFromARow
CONSTANTS
  Requests = {r1, r2, get}
  Mutating = {r1, r2}
  AuditedRows = {e}
  Values = {v1, v2}
  Errors = {"Error", "PurchaseNotFoundError"}
  Throttle = 1
  AuditDays = 1
  RequestDays = 1
  MaxWrites = 2
  MaxNow = 2
  MaxCrashes = 1
SYMMETRY Interchangeable
CHECK_DEADLOCK FALSE
INVARIANTS
  TrailIsTrue
  ErrorsAreAccountedFor
