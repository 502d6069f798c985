SPECIFICATION Spec
CONSTANTS
  Terminals = {t1}
  Logs = {l1}
  Runs = {r1}
  Links = {k1, k2}
  Shells = 2
  Channel = 1
  Flush = 2
  MaxLines = 3
  MaxRequests = 3
INVARIANTS Reachable LogsWhole LinksOnce
PROPERTY EndsTold
CHECK_DEADLOCK FALSE
