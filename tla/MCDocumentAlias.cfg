SPECIFICATION Spec
CONSTANTS
  Rates = {r1}
  Threads = {"normalize", "house", "open", "take"}
  MaxSid = 1
  MaxSteps = 1
  MaxGen = 1
  MaxChunk = 3
  MaxAtOnce = 3
INVARIANTS
  PiecesKeepTheirAudio
CHECK_DEADLOCK FALSE
