SPECIFICATION Spec
CONSTANTS
  Chunk = {1, 2}
  MaxMarker = 1
  MaxTake = 0
  MaxSeq = 2
  MaxRev = 5
  MaxLog = 7
  MaxFail = 0
  MaxCrash = 1
  MaxBad = 2
  CueSets = {{}}
  Edits <- SmallEdits
INVARIANTS
  RecoveredAudioIntact
CHECK_DEADLOCK FALSE
