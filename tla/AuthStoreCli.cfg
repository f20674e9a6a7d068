\* A client is revoked from the command line while the server runs.
CONSTANTS
  Clients = {c1}
  Handlers = {h1}
  CodeTtl = 0
  AccessTtl = 0
  RefreshTtl = 1
  Beside = {TRUE}
  MaxId = 3
  MaxShared = 3
  MaxTime = 1
  MaxRestarts = 1
  MaxAttempts = 2
  Lockout = 2
  MaxClock = 5
  MaxDraws = 3
  MaxBoots = 1
  MaxGuesses = 7
SPECIFICATION BothSpec
SYMMETRY Symmetry
INVARIANTS CliRevokeWorks
CHECK_DEADLOCK FALSE
