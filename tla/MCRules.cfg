SPECIFICATION Spec
CONSTANTS
  FloatingImages = {"api", "web"}
  DifferenceLimit = 5
  FileBudget = 2
  ListingBudget = 1
  ActivityLimit = 2
  MaxInput = 24
  MaxTerms = 3
  MetricsStaleAfter = 45
  Accelerators = {"gpu"}
  NodeListLimit = 2
  RelatedBudget = 2
  ColdBudget = 2
  Visits <- MCVisits
  StuckPodEventSample = 2
  MaxSavedViewsPerCluster = 1
  Documents <- MCDocuments
  Inputs <- MCInputs
  Ids = {23, 24}
  ViewIds = {61, 62, 63}
  SectionKeys <- MCSectionKeys
  Profiles = {41, 42}
  Words = {51}
  Contexts <- MCContexts
  MaxOperations = 3
  Offered = {k1, k2}
  Importers = {i1, i2}
  MaxLaunches = 3
  Drawn <- MCDrawn
  GateRequests <- MCGateRequests
INVARIANTS ComparisonFaithful SourceSound  QuerySound GreenIsEarned OverviewsAccounted PageBelongs ReportHonest RecordsKept
PROPERTY RecordedStaysDeleted
CHECK_DEADLOCK FALSE
