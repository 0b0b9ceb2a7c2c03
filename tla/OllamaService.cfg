SPECIFICATION FairSpec
CONSTANTS
  r1 = r1
  r2 = r2
  r3 = r3
  NoRequest = NoRequest
  Requests = {r1, r2, r3}
  Streaming = {r1, r2}
  Impatient = {r3}
  Big = {r3}
  MaxDeltas = 2
  MaxCrashes = 2
  PipeCap = 2
  Faults = {"crash", "error", "spawn"}
INVARIANTS
  TypeOK
  QuietWhenUnlocked
  ServiceInv
PROPERTIES
  ServiceSpec
  RequestsEnd
CHECK_DEADLOCK FALSE
