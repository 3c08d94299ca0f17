CONSTANTS
  a = a
  b = b
  c = c
  d = d
  Ill = Ill
  Atoms <- MCAtoms
  MaxLen = 4
SYMMETRY MCSymmetry
SPECIFICATION Spec


INVARIANT TransReturnsGoal
