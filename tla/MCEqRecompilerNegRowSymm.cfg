CONSTANTS
  a = a
  b = b
  c = c
  d = d
  ix = ix
  iy = iy
  x1 = x1
  x2 = x2
  sk = sk
  Ill = Ill
  Atoms <- MCAtoms
  MaxLen = 4
  Leaves <- MCLeaves
  Indices <- MCIndices
  Arrays <- MCArrays
  NegRowIndices <- MCNegRowIndices
  NegRowNodeLeft = {TRUE}
  NegRowChildLeft = {TRUE, FALSE}
  Skolems <- MCSkolems
  SkDiseq <- MCSkDiseq
SYMMETRY MCSymmetry
SPECIFICATION Spec
INVARIANT RulesCheck
