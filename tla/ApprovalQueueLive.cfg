\* Two calls at once, fair threads and a clock that advances; and two prompts
\* at once, in windows or on the terminal.
CONSTANTS
  Asks = {a1, a2}
  Workers = 2
  RateLimit = 1
  Minute = 1
  Timeout = 1
  Interactive = {TRUE, FALSE}
  Choices = {"once", "deny"}
  Requests = {r1, r2}
  Notifiers = {"tk", "console"}
SPECIFICATION SidesSpec
INVARIANT PromptStands
PROPERTIES AskReturns KeepsPromise WindowsGo
CHECK_DEADLOCK FALSE
