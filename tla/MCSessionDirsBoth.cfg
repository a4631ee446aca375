CONSTANTS
  a = a
  b = b
  s1 = s1
  s2 = s2
  NoOne = NoOne
  Inst <- Alone
  Sess <- Both
  CanMove = FALSE
  MaxGen = 1
  MaxCrashes = 1
SPECIFICATION Spec
SYMMETRY Symmetry
INVARIANT WorkIsKept
