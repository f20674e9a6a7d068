\* A command beside the server appends, never at the same time.
CONSTANTS
  t1 = t1
  t2 = t2
  server = server
  cli = cli
  Threads = {t1, t2}
  Logs = {server, cli}
  LogOf <- Beside
  Overlap = FALSE
  MaxAppends = 3
  MaxFalls = 0
  MaxDamage = 0
SPECIFICATION AuditSpec
INVARIANTS ChainUnbroken
CHECK_DEADLOCK FALSE
