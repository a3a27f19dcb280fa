SPECIFICATION LoaderSpec
CONSTANTS
  LastUnit = 15
  FirmwareMaps <- MCFirmwareMaps
  MaxChanges = 2
  Sizes <- MCSizes
  Images <- MCImages
  PageSize = 4
  Shift = 4
  MemTop = 24
INVARIANTS
  HandedMapCurrent
  KernelTablesKept
  KernelLoaded
CHECK_DEADLOCK FALSE
