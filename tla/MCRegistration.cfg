CONSTANTS
  x = x
  sk = sk
  a = a
  b = b
  p = p
  f = f
  UVars <- MCUVars
  Skolems <- MCSkolems
  ArrVars <- MCArrVars
  BoolVars = {p}
  Funs = {f}
  NumAsserts = 2
  MarkChoices <- MCMarkChoices
SPECIFICATION Spec
INVARIANT TypeOK
INVARIANT SymbolsDeclared
INVARIANT SkolemsNamed
