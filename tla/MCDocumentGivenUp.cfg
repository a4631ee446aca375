SPECIFICATION Spec
CONSTANTS
  Rates = {r1}
  Threads = {"open", "close", "take"}
  MaxSid = 1
  MaxSteps = 1
  MaxGen = 0
  MaxChunk = 2
  MaxAtOnce = 2
INVARIANTS
  EveryTakeSurvives
CHECK_DEADLOCK FALSE
