SPECIFICATION Spec
CONSTANTS
  MaxTensors = 8
  MaxNodes = 2
  MaxExecutions = 2
  MaxDropped = 1
  Bytes <- EqualBytes
  Calls = {"map", "view", "update", "update_view", "adam", "upload", "drop", "bind"}
  Habits = {}
INVARIANTS
  ReadsRight
  ForeignIntact
  ResultsFresh
CHECK_DEADLOCK FALSE
