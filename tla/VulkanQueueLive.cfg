SPECIFICATION FairSpec
CONSTANTS
  b1 = b1
  b2 = b2
  d1 = d1
  d2 = d2
  d3 = d3
  Buffers = {b1, b2}
  DeviceLocal = {b1}
  Sets = {d1, d2, d3}
  PoolCap = 1
  MaxDispatches = 1
  Calls = {"batch_begin", "batch_end_async", "batch_wait", "dispatch", "dispatch_now", "transfer"}
  Faults = {}
INVARIANTS
  NoCopyOfRecorded
  NoCopyOfRunning
PROPERTIES
  PendingNeverReset
  FailedBeginFreesSlot
  CallsReturn
  DeferredSignals
