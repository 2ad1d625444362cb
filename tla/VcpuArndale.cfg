CONSTANTS
  NumGuests = 2
  TickReset = 0
  TickMod = 16
  NoGuest = NoGuest
SPECIFICATION Spec
INVARIANTS SliceEnds
