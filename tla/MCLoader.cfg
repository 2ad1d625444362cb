CONSTANTS
  NumWords = 3
  NumDI = 3
  BreakWords = {0}
  TraceWords = {1}
  Noise = 0
  ZeroWords = {2}
  PanicWord = 1
  CmdLengths = {0, 2, 3}
  BootCount = 1
  MaxVirqs = 1
  Maps <- MCMaps
SPECIFICATION LoaderSpec
INVARIANTS Named TagsWalk
CHECK_DEADLOCK FALSE
