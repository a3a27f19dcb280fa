SPECIFICATION Spec
CONSTANTS
  Machines <- AnyMachine
  NumConfigs = 1
  Sync = FALSE
  MayFail = TRUE
INVARIANTS
  OneAtATime
  TurnMatchesCompletions
  LimitsHold
  SlotsMatchPorts
  TransfersToOwnBuffer
PROPERTIES
  ForwardOnly
