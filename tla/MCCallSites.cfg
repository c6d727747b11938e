SPECIFICATION ScanSpec
CONSTANTS
  MaxAddress = 5
  Base = 1
  Tables <- AllTables
  Stops <- AllStops
INVARIANTS
  NoneIsUncovered
  FindsTheCall
