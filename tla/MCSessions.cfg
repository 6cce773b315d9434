SPECIFICATION Spec
CONSTANTS
  r1 = r1
  r2 = r2
  typed = typed
  other = other
  capitals = capitals
  Requests = {r1, r2}
  MaxAccounts = 3
  Spellings = {typed, other, capitals}
  FirstEmail = typed
  AddressOf <- MCAddressOf
  MaxSecrets = 3
  MaxTokens = 3
  MaxLinks = 2
  RefreshTtl = 2
  ResetTtl = 2
  Cooldown = 1
  MaxNow = 2
  MaxCalls = 4
SYMMETRY Symmetry
CHECK_DEADLOCK FALSE
INVARIANTS
  OneLiveTokenPerLogin
  NothingOutlivesThePassword
  OnlyTheNewestLinkWorks
  LinksWorkOnce
  OnlyInsertsWaitInACircle
  OneAccountPerAddress
