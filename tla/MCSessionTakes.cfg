SPECIFICATION Spec
CONSTANTS
  Chunk = {1, 2}
  MaxMarker = 1
  MaxTake = 1
  MaxSeq = 2
  MaxRev = 3
  MaxLog = 5
  MaxFail = 1
  MaxCrash = 1
  MaxBad = 0
  CueSets = {{}, {1}}
  Edits <- MarkerEdits
INVARIANTS
  JournalHoldsMemory
  TakeMarkersAreFree
  NextTakeIsFresh
  GcKeepsWork
PROPERTIES
  ImplementsUndoLog
  TakeMarkersAreKept
CHECK_DEADLOCK FALSE
