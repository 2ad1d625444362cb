CONSTANTS
  NumGuests = 3
  TickReset = 5
  TickMod = 16
  NoGuest = NoGuest
SPECIFICATION FairSpec
INVARIANTS NoStaleRequest StoppedStaysStopped SliceInBounds
PROPERTIES RoundRobin NoStarvation StopTakesEffect
