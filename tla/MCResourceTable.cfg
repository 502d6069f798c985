SPECIFICATION Spec
CONSTANTS
  Keys <- MCKeys
  Views <- MCViews
  Home <- MCHome
  Initially <- MCInitially
  Kind <- MCKind
  Queries <- MCQueries
  Objects = {1, 2}
  Cells = {1, 2}
  Absent = Absent
  Everything = Everything
  Budget = 1
  MaxPending = 1
  PageSize = 1
  Cold = 1
  TableBudget = 1
  MaxMoves = 3
  MaxInFlight = 1
  MaxTables = 2
  Readers = {r1}
  r1 = r1
INVARIANTS WithinBudget TableFollowsCache WindowFollowsTable
CHECK_DEADLOCK FALSE
