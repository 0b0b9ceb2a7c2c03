SPECIFICATION Spec
CONSTANTS
  MaxTensors = 9
  MaxNodes = 4
  MaxExecutions = 1
  MaxDropped = 0
  Bytes <- MixedBytes
  Calls = {"map", "zip", "loss", "view"}
  Habits = {}
INVARIANTS
  TypeOK
  ReadsRight
  PlanApart
  AliveWhileUsed
  ResultsFresh
CHECK_DEADLOCK FALSE
