SPECIFICATION Spec
CONSTANTS
  b1 = b1
  b2 = b2
  d1 = d1
  d2 = d2
  d3 = d3
  d4 = d4
  Buffers = {b1, b2}
  DeviceLocal = {b1}
  Sets = {d1, d2, d3, d4}
  PoolCap = 1
  MaxDispatches = 2
  Calls = {"batch_begin", "batch_end_async", "dispatch"}
  Faults = {}
SYMMETRY Symmetry
PROPERTIES
  BeginOpens
