SPECIFICATION Spec
CONSTANTS
  Rates = {r1}
  Threads = {"paste", "normalize", "house", "open", "close", "take"}
  MaxSid = 2
  MaxSteps = 1
  MaxGen = 1
  MaxChunk = 2
  MaxAtOnce = 2
CONSTRAINT NoSlipYet
INVARIANTS
  HistoryResolves
  UncommittedTakesSurvive
  OnlySlipsLoseAudio
  CopiedAudioSurvives
  EngineFollowsDocument
PROPERTIES
  NormalizeLosesNothing
CHECK_DEADLOCK FALSE
