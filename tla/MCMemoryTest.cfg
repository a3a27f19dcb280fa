SPECIFICATION TestSpec
CONSTANTS
  Regions <- MCRegions
  Sizes <- MCSizes
  TestSizes <- MCTestSizes
  FreeOrder <- MCFreeOrder
  LastPage = 1599
  MaxAllocs = 4
INVARIANTS
  TestRestoresList
CHECK_DEADLOCK FALSE
