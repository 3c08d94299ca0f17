CONSTANTS
  x = x
  sk = sk
  a = a
  b = b
  p = p
  f = f
  UVars <- MCUVars
  Skolems <- MCSkolems
  ArrVars <- MCArrVars
  BoolVars = {p}
  Funs = {f}
  NumAsserts = 1
  MarkChoices <- MCMarkChoices
SPECIFICATION Spec
INVARIANT SortsDeclared



