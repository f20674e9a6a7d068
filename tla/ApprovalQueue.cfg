\* Three calls on two worker threads: the limit of one prompt can be overrun.
CONSTANTS
  Asks = {a1, a2, a3}
  Workers = 2
  RateLimit = 1
  Minute = 1
  Timeout = 1
  Interactive = {TRUE, FALSE}
  Choices = {"once", "deny"}
SPECIFICATION Spec
SYMMETRY Symmetry
INVARIANTS SettledOnce ApprovedIsRecorded BurstBound
