SPECIFICATION FairSpec
CONSTANTS
  Machines <- Emulated
  NumConfigs = 2
  Sync = TRUE
  MayFail = FALSE
INVARIANTS
  ConfiguresWhatItRead
PROPERTIES
  PromptComesReady
