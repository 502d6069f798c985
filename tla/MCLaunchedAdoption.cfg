SPECIFICATION Spec
CONSTANTS
  k1 = k1
  p1 = p1
  Clusters = {k1}
  Profiles = {p1, p2}
  Handlers = {h1}
  Forwarded = {k1}
  MaxEvents = 2
  MaxClicks = 2
  Behind <- AllBehindP1
  Remembered = {}
CHECK_DEADLOCK FALSE
PROPERTY AdoptionIsConfirmed
