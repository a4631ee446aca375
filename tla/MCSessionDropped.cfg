SPECIFICATION Spec
CONSTANTS
  Chunk = {1}
  MaxMarker = 1
  MaxTake = 0
  MaxSeq = 2
  MaxRev = 4
  MaxLog = 5
  MaxFail = 0
  MaxCrash = 1
  MaxBad = 0
  CueSets = {{}, {1}}
  Edits <- SmallEdits
INVARIANTS
  DirtyWhenDifferent
CHECK_DEADLOCK FALSE
