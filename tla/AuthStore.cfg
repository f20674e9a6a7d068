\* Two clients, two overlapping requests, the console and a restart; and two
\* attempts per lockout of two, every order of guesses, pardons and time.
CONSTANTS
  Clients = {c1, c2}
  Handlers = {h1, h2}
  CodeTtl = 0
  AccessTtl = 0
  RefreshTtl = 1
  Beside = {FALSE, TRUE}
  MaxId = 4
  MaxShared = 2
  MaxTime = 1
  MaxRestarts = 1
  MaxAttempts = 2
  Lockout = 2
  MaxClock = 5
  MaxDraws = 3
  MaxBoots = 1
  MaxGuesses = 7
SPECIFICATION BothSpec
SYMMETRY Symmetry
INVARIANTS OnlyPaired SingleUse RevokedStaysOut GuessesBounded
CHECK_DEADLOCK FALSE
