SPECIFICATION Spec
CONSTANTS
  Writer = {w1, w2}
  Reader = {r1}
  Syncer = {s1, s2}
  SegLen = 10
  Align = 2
  Len_s = {3}
  MaxSeg = 2
  Budget = 1
  External = {0, 1}
  MaxFilled = 8
  MaxReopen = 1
SYMMETRY Symmetry
INVARIANTS
  SyncedIsDurable
  UsedSegmentsStayMapped
  PublishedIsWritten
  SlotsAreSeparate
