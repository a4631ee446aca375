CONSTANTS
  a = a
  b = b
  s1 = s1
  s2 = s2
  NoOne = NoOne
  Inst <- Two
  Sess <- One
  CanMove = TRUE
  MaxGen = 1
  MaxCrashes = 2
SPECIFICATION Spec
INVARIANT OnlyRacesLoseWork
INVARIANT OfferedLoads
PROPERTY DeletionFinishes
