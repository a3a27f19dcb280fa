SPECIFICATION Spec
CONSTANTS
  MemMaps <- MCMemMaps
  Sizes <- MCSizes
  MaxDescs = 4
INVARIANTS
  NoSharing
  OnlyUsablePages
  NothingLost
  HeadersAtRunStarts
PROPERTIES
  AllocConserves
