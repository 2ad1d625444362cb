CONSTANTS
  PageUnits = 4
  HeapPages = 4
  AddrEnd = 24
  SizeEnd = 192
  NALLOC = 8
  Requests = {2, 3}
  MaxHeld = 2
SPECIFICATION Spec
INVARIANT HeldOnce
CHECK_DEADLOCK FALSE
