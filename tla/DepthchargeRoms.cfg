\* Runs for two boards that share the trees, stopped anywhere and begun again.
SPECIFICATION Spec
CONSTANTS
  Boards = {"veyron_speedy", "veyron_minnie"}
  Requests <- MCRequests
  MaxRuns = 4
  MaxStops = 3
INVARIANTS TypeOK OwnParts
PROPERTY ImplementsRomShelf
CHECK_DEADLOCK FALSE
