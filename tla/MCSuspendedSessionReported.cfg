SPECIFICATION Spec
CONSTANTS
  Callers = {c1, c2}
  MaxGen = 2
  NeedsAccess = TRUE
SYMMETRY Goroutines
PROPERTY
  SuspendedSessionReported
