SPECIFICATION FairHistorySpec
CONSTANTS
  Changers = {c1, c2}
  Openers = {o1}
  MaxRevision = 3
PROPERTIES StoredModeHolds RestrictionEndsStreams
