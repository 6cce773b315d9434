SPECIFICATION FairSpec
CONSTANTS
  Calls = {c1, c2}
  Urls = {u1, u2}
  Notes = {n1}
  NoteOf <- SameNote
  MaxAttempts = 2
  MaxCaptures = 2
  MaxRecorded = 2
INVARIANTS
  ClosedAgainstItsPurchase
  AnsweredIsDurable
  OneOpenCapturePerUrl
  AttemptsAreCounted
PROPERTIES EveryCallEnds ImportedStaysImported
CHECK_DEADLOCK FALSE
