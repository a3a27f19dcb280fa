SPECIFICATION Spec
CONSTANTS
  LastUnit = 15
  FirmwareMaps <- MCFirmwareMaps
  MaxChanges = 2
  Sizes <- MCSizes
INVARIANTS
  StackKept
CHECK_DEADLOCK FALSE
