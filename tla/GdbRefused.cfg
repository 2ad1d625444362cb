CONSTANTS
  NumWords = 2
  NumDI = 3
  BreakWords = {0, 1}
  TraceWords = {}
  Noise = 0
  ZeroWords = {1}
SPECIFICATION GdbSpec
PROPERTIES EveryStopReported
CHECK_DEADLOCK FALSE
