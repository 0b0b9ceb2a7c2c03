SPECIFICATION Spec
CONSTANTS
  b1 = b1
  b2 = b2
  d1 = d1
  d2 = d2
  Buffers = {b1, b2}
  DeviceLocal = {}
  Sets = {d1, d2}
  PoolCap = 1
  MaxDispatches = 2
  Calls = {"batch_begin", "batch_end", "batch_end_async", "batch_wait", "dispatch", "dispatch_now", "capture", "replay"}
  Faults = {"dispatch", "begin", "submit", "wait_deferred"}
SYMMETRY Symmetry
INVARIANTS
  TypeOK
  InFlightBuffersHeld
  InFlightSetsHeld
  SetsConserved
  OpenBatchKeepsBuffers
  NothingLeftBehind
  PoolHoldsOnlyDead
  HeldInv
  FenceMeansFinished
  SubmittedComplete
PROPERTIES
  PoisonedNeverSubmitted
