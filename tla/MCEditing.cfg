SPECIFICATION Spec
CONSTANTS
  Editors = {e1, e2}
  Names = {1, 2, 3, 4}
  Manifests <- MCManifests
  Candidates <- MCCandidates
  ListingBudget = 2
  DiscoveryTTL = 1
  RefusalTTL = 2
  MaxTime = 2
  MaxTurns = 2
  MaxRequests = 3
INVARIANTS NoLostWrite GateIsHonest OneIntention
SYMMETRY MCSymmetry
CHECK_DEADLOCK FALSE
