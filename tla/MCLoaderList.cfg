CONSTANTS
  NumWords = 3
  NumDI = 3
  BreakWords = {0, 2}
  TraceWords = {1}
  Noise = 0
  ZeroWords = {2}
  PanicWord = 1
  CmdLengths = {0}
  BootCount = 0
  MaxVirqs = 1
  Maps <- OneMap
SPECIFICATION LoaderSpec
INVARIANTS ListTrue
CHECK_DEADLOCK FALSE
