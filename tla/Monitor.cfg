CONSTANTS
  NumWords = 6
  NumDI = 6
  BreakWords = {2, 4}
  TraceWords = {0, 3, 4}
SPECIFICATION Spec
INVARIANTS CodeIntact TracePaired
PROPERTIES NeverSkipped BreakStops
