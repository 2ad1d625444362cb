CONSTANTS
  Guests <- MCGuests
  NumLR = 1
  QueueSize = 2
  Pirqs <- MCPirqs0
  Virqmap <- MCVirqmap0
  SwVirqs = {}
  Sgis = {}
  NoIrq = NoIrq
  NoEntry = NoEntry
  NoGuest = NoGuest
SPECIFICATION FairSpec
PROPERTIES QueueDrains
