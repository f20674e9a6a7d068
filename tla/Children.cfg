\* Two threads that start processes under a ceiling of one, with the stop
\* button; two calls that share a browser.
CONSTANTS
  b1 = b1
  b2 = b2
  Threads = {t1, t2}
  MaxRunning = 1
  MaxProcs = 3
  MaxStops = 1
  Jobs = {b1, b2}
  Mixes <- MCMixes
  Allowlist = {"listed"}
  JailHolds = {}
  EVENT_BUFFER = 2
  MaxLinks = 2
SPECIFICATION PartsSpec
INVARIANTS CeilingBound OwnReply ToldIsRecent FailureIsTold NeverStuck
PROPERTIES StopAllIsThorough StopAllEnds
CHECK_DEADLOCK FALSE
