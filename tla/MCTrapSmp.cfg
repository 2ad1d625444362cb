CONSTANTS
  NumGuests = 2
  NumWords = 2
  HalfPage = 4
  PrioWords = 2
  PrioBanked = 1
  PrioPage = 24
  PIRQ_INVALID = PIRQ_INVALID
  Pirqmap <- MCPirqmapOf
  HostIrqs <- MCHostIrqs
  HwSgis <- MCHwSgis
  CpuOf <- MCCpuOfSmp
  Values <- MCValues
  Initcalls <- MCInitcalls
  Workloads <- MCWorkloads
  NumCpus = 2
SPECIFICATION Spec
INVARIANTS EnableMirrored
