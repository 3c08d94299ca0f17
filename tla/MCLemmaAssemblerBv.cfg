CONSTANTS
  NumLemmas = 1
  MaxSteps <- MCMaxStepsSmall
  c1 = c1
  m1 = m1
  s1 = s1
  s2 = s2
  NullLit = NullLit
  Ill = Ill
  NoBinder = NoBinder
  ClauseLits <- MCClauseLits
  StepAtom <- MCStepAtom
  MissingLits <- MCMissingLits
  Theories = {"ARRAY", "BV"}
  Registered = {"ARRAY", "BV", "UF", "ARITH"}
SPECIFICATION Spec
INVARIANT BvConflictsFinalized
