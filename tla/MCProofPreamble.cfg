CONSTANTS
  x = x
  y = y
  sk = sk
  a = a
  b = b
  p = p
  f = f
  Ill = Ill
  UVars <- MCUVars
  Skolems <- MCSkolems
  ArrVars <- MCArrVars
  BoolVars = {p}
  Funs = {f}
  NumAsserts = 2
  MarkChoices <- MCMarkChoices
  Leaves <- MCLeaves
SPECIFICATION Spec
INVARIANT TypeOK
INVARIANT SymbolsDeclared
INVARIANT SkolemsNamed
INVARIANT LetTermFaithful
