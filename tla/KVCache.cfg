SPECIFICATION Spec
CONSTANTS
  NumLayers = 3
  Source <- Sources
  Recurrent = {2}
  Window <- Windows
  BlockSize = 4
  PageSize = 2
  NumRows = 2
  Replay = TRUE
  Rebound = {1, 2, 3}
  MaxTokens = 8
  MaxPrompt = 3
  MaxFailures = 2
  Modes = {"regular", "paged", "hybrid", "hybrid_paged", "batch"}
INVARIANTS
  CursorInv
  ReadsRight
  RecurrentInStep
CHECK_DEADLOCK FALSE
