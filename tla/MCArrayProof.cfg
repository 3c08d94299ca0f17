CONSTANTS
  a = a
  b = b
  c = c
  d = d
  ix = ix
  iy = iy
  x1 = x1
  x2 = x2
  sk = sk
  Ill = Ill
  Atoms <- MCAtoms
  MaxLen = 4
  Leaves <- MCLeaves
  Indices <- MCIndices
  Arrays <- MCArrays
  NegRowIndices <- MCNegRowIndices
  NegRowNodeLeft = {TRUE}
  NegRowChildLeft = {TRUE}
  Skolems <- MCSkolems
  SkDiseq <- MCSkDiseq
  TopAtoms <- MCTopAtoms
  TopMaxLen = 3
  MaxCong = 3
  NegKinds = {"eq"}
SYMMETRY MCSymmetry
SPECIFICATION Spec
INVARIANT TypeOK
INVARIANT RulesCheck
INVARIANT TransPrefixProvesN1
INVARIANT TransNeverFails
INVARIANT TopLevelRefutes
