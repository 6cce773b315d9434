SPECIFICATION MCSpec
CONSTANTS
  weighed = weighed
  plain = plain
  cheese = cheese
  bread = bread
  Lines = {cheese, bread}
  Notes = {weighed, plain}
  Contents <- MCContents
  Elsewhere <- MCElsewhere
  Configured <- Watching
  Pinned = {weighed, plain}
  Faults = {"no field", "other heading", "other code", "other count"}
  MaxFaults = 2
  MaxMissed = 1
  MaxEvents = 2
INVARIANTS
  AlertsAreTrue
  NoteIsReadWhole
PROPERTY LastingBreakIsAlerted
