SPECIFICATION Spec
CONSTANTS
  NumLayers = 3
  Source <- Sources
  Recurrent = {2}
  Window <- Windows
  BlockSize = 4
  PageSize = 2
  NumRows = 2
  Replay = TRUE
  Rebound = {}
  MaxTokens = 8
  MaxPrompt = 2
  MaxFailures = 0
  Modes = {"regular"}
INVARIANTS
  ReadsRight
CHECK_DEADLOCK FALSE
