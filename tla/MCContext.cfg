CONSTANTS
  o1 = o1
  o2 = o2
  v1 = v1
  v2 = v2
  n1 = n1
  None = None
  Objs <- MCObjs
  Vals <- MCVals
  CNOs = {n1}
  MaxLevel = 3
SPECIFICATION Spec
SYMMETRY MCSymmetry
INVARIANT ObjectsInLiveScopes
INVARIANT ChainsConsistent
PROPERTY PopRestores
