SPECIFICATION Spec
CONSTANTS
  MaxTensors = 8
  MaxNodes = 3
  MaxExecutions = 1
  MaxDropped = 0
  Bytes <- EqualBytes
  Calls = {"map", "adam"}
  Habits = {"adam"}
INVARIANT
  ReadsRight
CHECK_DEADLOCK FALSE
