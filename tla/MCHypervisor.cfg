CONSTANTS
  NumGuests = 2
  TickReset = 1
  TickMod = 4
  NoGuest = NoGuest
  NumLR = 1
  QueueSize = 1
  Pirqs <- MCPirqs
  Virqmap <- MCVirqmap
  \* SGIs are below 16 and never share a virq with the monitor or the timer.
  Sgis = {1}
  NoIrq = NoIrq
  NoEntry = NoEntry
  VTIMER_IRQ = 30
  MONITOR_VIRQ = 20
SPECIFICATION Spec
INVARIANT OwnContext
PROPERTIES TicksToRunner StoppedGuestFrozen
