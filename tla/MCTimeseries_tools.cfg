\* Every tool, over tables of up to three rows and some wider ones; small pages.
SPECIFICATION Spec
CONSTANTS
  None = None
  Every = Every
  Tables <- MCTables
  Dims <- MCDims
  RefSets <- MCRefSets
  Servers <- MCServers
  Period = 2
  Base = 1
  MaxRows = 5
  PageSize = 2
  MaxPages = 4
  MaxEntries = 4
  Thresholds <- MCThresholds
INVARIANTS
  PagesJoinUp
  CompleteWithTotals
  PushdownSound
  CellsDecide
  OutliersAreOutside
CHECK_DEADLOCK FALSE
