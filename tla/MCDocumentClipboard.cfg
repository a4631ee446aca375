SPECIFICATION Spec
CONSTANTS
  Rates = {r1}
  Threads = {"paste", "open"}
  MaxSid = 3
  MaxSteps = 1
  MaxGen = 0
  MaxChunk = 2
  MaxAtOnce = 2
INVARIANTS
  BoundClipIsTheDocuments
CHECK_DEADLOCK FALSE
