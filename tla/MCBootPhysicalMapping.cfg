SPECIFICATION Spec
CONSTANTS
  LastUnit = 15
  FirmwareMaps <- MCFirmwareMaps
  MaxChanges = 2
  Sizes <- MCSizes
INVARIANTS
  PhysicalMappingKept
CHECK_DEADLOCK FALSE
