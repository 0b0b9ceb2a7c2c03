SPECIFICATION Spec
CONSTANTS
  r1 = r1
  r2 = r2
  r3 = r3
  NoRequest = NoRequest
  Requests = {r1, r2, r3}
  Streaming = {r1, r2}
  Impatient = {r1, r2, r3}
  Big = {}
  MaxDeltas = 1
  MaxCrashes = 0
  PipeCap = 2
  Faults = {}
INVARIANTS
  OwnAnswer
CHECK_DEADLOCK FALSE
