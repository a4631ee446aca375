SPECIFICATION Spec
CONSTANTS
  MaxBlock = 1
  RingCapacity = 2
  Latency = 0
  EventCapacity = 1
  StallAfter = 1
  MaxChunks = 1
  MaxPos = 2
  MaxEvents = 0
  Troubles = {}
INVARIANTS
  OnlyFedPluginsHang
