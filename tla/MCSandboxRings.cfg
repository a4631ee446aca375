SPECIFICATION Spec
CONSTANTS
  MaxBlock = 2
  RingCapacity = 4
  Latency = 2
  EventCapacity = 2
  StallAfter = 1
  MaxChunks = 2
  MaxPos = 8
  MaxEvents = 1
  Troubles = {}
INVARIANTS
  OutputIsAligned
  ChunksAreWhole
  EventsOnTime
