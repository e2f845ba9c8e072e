\* A draft whose definitions write any service in two ways.
CONSTANTS
  Targets = {"api"}
  Dims <- MCDims
  Patterns <- MCPatterns
  Calls <- MCCalls
  Kind <- MCKind
  Bootstrap <- MCBootstrap
  Contents <- ScopeContents
  MaxGoal = 2
  None = None
  d1 = d1
  d2 = d2
  p1 = p1
  p2 = p2
  back = back
  shade = shade
SYMMETRY MCSymmetry
SPECIFICATION Spec
INVARIANT DistinctScopes
\* Every call has returned.
CHECK_DEADLOCK FALSE
