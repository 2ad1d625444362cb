CONSTANTS
  Guests <- MCGuests
  NumLR = 2
  QueueSize = 2
  Pirqs <- MCPirqs1
  Virqmap <- MCVirqmap1
  SwVirqs = {}
  Sgis = {1}
  NoIrq = NoIrq
  NoEntry = NoEntry
  NoGuest = NoGuest
SPECIFICATION Spec
PROPERTY SavedForLater
