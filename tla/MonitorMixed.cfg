CONSTANTS
  NumWords = 3
  NumDI = 6
  BreakWords = {1}
  TraceWords = {0}
SPECIFICATION Spec
PROPERTIES EveryBreakStops
