CONSTANTS
  NumGuests = 2
  NumWords = 2
  HalfPage = 4
  PrioWords = 2
  PrioBanked = 1
  PrioPage = 24
  PIRQ_INVALID = PIRQ_INVALID
  Pirqmap <- MCPirqmapOf
  HostIrqs <- MCHostIrqs
  HwSgis <- MCHwSgis
  CpuOf <- MCCpuOf
  Values <- MCValues
  Initcalls <- MCInitcalls
  Workloads <- MCWorkloads
  NumCpus = 1
SPECIFICATION Spec
INVARIANTS EnableMirrored HostIrqsStay ResumesBehind
PROPERTIES OwnDevicesOnly
