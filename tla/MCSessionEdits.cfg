SPECIFICATION Spec
CONSTANTS
  Chunk = {1, 2}
  MaxMarker = 0
  MaxTake = 0
  MaxSeq = 2
  MaxRev = 4
  MaxLog = 6
  MaxFail = 1
  MaxCrash = 1
  MaxBad = 2
  CueSets = {{}}
  Edits <- SmallEdits
INVARIANTS
  ScansAgree
  JournaledChunksDurable
  CleanIsSaved
  RecoveredAudioVerified
CHECK_DEADLOCK FALSE
