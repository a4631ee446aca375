SPECIFICATION Spec
CONSTANTS
  Chunk = {1, 2}
  MaxMarker = 1
  MaxSeq = 3
  MaxRev = 6
INVARIANTS
  SeqsNameDocuments
  MarkerEntriesKeepSamples
PROPERTIES
  RevisionsIdentifyContent
  ImplementsUndoLog
