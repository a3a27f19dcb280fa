SPECIFICATION Spec
CONSTANTS
  PciMachines <- MCMachines
  normal = normal
  Zero = Zero
  Link = Link
  Reports = 4
  Transfers = 3
  Strays = 2
  KeyBufs <- KeyBufPlaces
  Control = 1060
  TrbsPerPage = 256
  MaxTrbs = 600
  CapLists <- Lists
  ScratchCounts <- MCScratchCounts
  PageSizes <- MCPageSizes
  PtrsPerPage = 2
  Pages = 8
  RingSize = 5
  MaxEvents = 3
INVARIANTS
  FirstFunctionsOnce
  StartsConfigured
  EchoNotStale
  NullRingFootprint
  NoTornFetch
PROPERTIES
  InitEnds
  LastReportEchoed
  NeverStarves
