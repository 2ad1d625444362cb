CONSTANTS
  Guests <- MCGuests
  NumLR = 2
  QueueSize = 2
  Pirqs <- MCPirqs1
  Virqmap <- MCVirqmap1
  \* The two ways in differ only in what a refusal does: one virq takes both.
  SwVirqs = {30}
  Sgis = {30}
  NoIrq = NoIrq
  NoEntry = NoEntry
  NoGuest = NoGuest
SPECIFICATION Spec
INVARIANTS SlotsAgree OneHolder DeviceVirqOnce
PROPERTIES DeactivatedAfterEoi StrandedOnlyWhenFull SwitchKeepsListRegs
