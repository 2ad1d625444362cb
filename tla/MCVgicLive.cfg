CONSTANTS
  Guests <- MCGuests
  NumLR = 1
  QueueSize = 1
  Pirqs <- MCPirqs
  Virqmap <- MCVirqmap
  SwVirqs = {}
  Sgis = {}
  NoIrq = NoIrq
  NoEntry = NoEntry
  NoGuest = NoGuest
SPECIFICATION FairSpec
PROPERTIES PirqReleased QueueDrains
