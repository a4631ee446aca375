SPECIFICATION Spec
CONSTANTS
  Chunk = {1, 2}
  MaxMarker = 1
  MaxTake = 1
  MaxSeq = 2
  MaxRev = 3
  MaxLog = 5
  MaxFail = 0
  MaxCrash = 1
  MaxBad = 0
  CueSets = {{}}
  Edits <- MarkerEdits
PROPERTIES
  CancelledMarkersAreCommitted
CHECK_DEADLOCK FALSE
