SPECIFICATION Spec
CONSTANTS
  Rates = {r1, r2}
  Threads = {"normalize", "house", "open", "close", "take"}
  MaxSid = 2
  MaxSteps = 2
  MaxGen = 1
  MaxChunk = 2
  MaxAtOnce = 2
SYMMETRY RatesAlike
CONSTRAINT NoSlipYet
INVARIANTS
  TypeOK
  HistoryResolves
  UncommittedTakesSurvive
PROPERTIES
  NormalizeLosesNothing
CHECK_DEADLOCK FALSE
