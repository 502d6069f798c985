SPECIFICATION FairSpec
CONSTANTS
  Callers = {c1, c2, c3}
  MaxGen = 2
  NeedsAccess = TRUE
INVARIANTS TypeOK OneHub OneAttempt
PROPERTIES RouteSurvivesAccessDown ImplementsOwnership ConnectingEnds
