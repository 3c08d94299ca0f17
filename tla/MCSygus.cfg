CONSTANTS
  FreshNames <- MCFreshNames
  Rewrite <- MCRewrite
  Null = Null
  Constructors <- MCCons
  Arity <- MCArity
  MaxDepth = 2
  MaxLevel = 1
  MaxPops = 1
  MaxTesters = 4
  Grammar <- MCGrammar
  MaxSplitDepth = 1
  MaxProgSize = 2
SPECIFICATION SygusSpec
INVARIANT SygusTypeOK
INVARIANT SearchDepthExact
INVARIANT SearchSymBreakSound
INVARIANT SearchCacheCurrent
INVARIANT SplitCacheStable
INVARIANT SplitLemmasComplete
CHECK_DEADLOCK FALSE
