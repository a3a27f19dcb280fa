SPECIFICATION Spec
CONSTANTS
  Vectors <- MCVectors
  Fan = 2
  Levels = 3
  NumFrames = 8
  UserTop = 2
  Accesses <- EdgeAccesses
  Requests <- AnyRequest
  Formats <- SomeFormats
  Values <- MCValues
  Widths <- MCWidths
  Argument <- MCArgument
  Modes <- MCModes
  CellH = 2
  Lit <- Font
INVARIANTS
  StubsTransparent
  PageMapsSound
  EndsAtNul
  ShowsText
PROPERTIES
  MapsInOrder
  FaultServed
  NumberReadsBack
  NewlineRecovers
