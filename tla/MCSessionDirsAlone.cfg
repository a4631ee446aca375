CONSTANTS
  a = a
  b = b
  s1 = s1
  s2 = s2
  NoOne = NoOne
  Inst <- Alone
  Sess <- One
  CanMove = FALSE
  MaxGen = 1
  MaxCrashes = 3
SPECIFICATION Spec
SYMMETRY Symmetry
INVARIANT WorkIsKept
