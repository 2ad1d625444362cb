CONSTANTS
  NumWords = 2
  NumDI = 3
  BreakWords = {0, 1}
  TraceWords = {}
  Noise = 2
  ZeroWords = {1}
SPECIFICATION GdbSpec
PROPERTIES Answered StopReported
CHECK_DEADLOCK FALSE
