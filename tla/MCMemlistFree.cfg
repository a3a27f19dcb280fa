SPECIFICATION Spec
CONSTANTS
  Regions <- MCRegions
  Sizes <- MCSizes
  LastPage = 10
  MaxAllocs = 6
INVARIANTS
  NothingInUseListed
CHECK_DEADLOCK FALSE
