CONSTANTS
  NumLemmas = 2
  MaxSteps <- MCMaxSteps
  c1 = c1
  m1 = m1
  s1 = s1
  s2 = s2
  NullLit = NullLit
  Ill = Ill
  NoBinder = NoBinder
  ClauseLits <- MCClauseLits
  StepAtom <- MCStepAtom
  MissingLits <- MCMissingLits
  Theories = {"ARRAY", "BV"}
  Registered = {"ARRAY", "BV", "UF"}
SPECIFICATION Spec
INVARIANT TypeOK
PROPERTY ImplementsCertifiedLemmas
