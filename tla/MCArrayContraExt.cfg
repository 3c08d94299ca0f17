CONSTANTS
  a = a
  b = b
  c = c
  Ill = Ill
  Atoms <- MCAtoms
  MaxLen = 3
  MaxCong = 1
  NegKinds = {"ext"}
SYMMETRY MCSymmetry
SPECIFICATION Spec
INVARIANT TopLevelRefutes
