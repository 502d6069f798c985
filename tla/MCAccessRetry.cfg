SPECIFICATION Spec
CONSTANTS
  k1 = k1
  p1 = p1
  Clusters = {k1}
  Profiles = {p1, p2}
  Handlers = {h1, h2}
  Forwarded = {k1}
  MaxEvents = 2
  MaxClicks = 4
  Behind <- AllBehindP1
  Remembered <- IdentifierOfP1
SYMMETRY Goroutines
CHECK_DEADLOCK FALSE
INVARIANT OneRetry
PROPERTIES NamedAdoption
