SPECIFICATION Spec
CONSTANTS
  MaxTensors = 10
  MaxOps = 3
  MaxCalls = 5
  Calls = {"backward", "op", "add", "view", "reversible", "no_grad", "zero_grad", "scale"}
  Faults = {"throw"}
INVARIANTS
  TypeOK
  SearchInv
  GradsExact
  HalfBlockOnlyLacks
  ContextRight
PROPERTIES
  NoLateGradient
CHECK_DEADLOCK FALSE
