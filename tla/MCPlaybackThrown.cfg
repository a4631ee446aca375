SPECIFICATION Spec
CONSTANTS
  None = None
  Lens = {3, 6}
  Regions <- Selections
  MinLoop = 2
  PacketFrames = 2
  Target = 2
  Prebuffer = 2
  Speed = 1
  Latency = 2
  Fade = 2
  MaxOps = 3
INVARIANT StartsAsAsked
CHECK_DEADLOCK FALSE
