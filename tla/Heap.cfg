CONSTANTS
  PageUnits = 2
  HeapPages = 5
  AddrEnd = 16
  SizeEnd = 128
  NALLOC = 4
  Requests = {2, 4, 8, 9, 15}
  MaxHeld = 1
SPECIFICATION Spec
INVARIANTS GrowthSound LinksMapped
PROPERTIES PagesKept FailureLasts
CHECK_DEADLOCK FALSE
