SPECIFICATION BSpec
CONSTANTS
  Capacity = 3
  AgeTime = 3
  Incs = {1, 2, 4}
  MaxTime = 7
  MaxErrors = 5
  MaxLag = 3
INVARIANTS BTypeOK BelowCapacity NoFalseTrigger ReportedCountIsExact
PROPERTIES ImplementsWindow
CHECK_DEADLOCK FALSE
