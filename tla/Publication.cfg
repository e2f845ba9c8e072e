\* Drafts, two publications, a rollback and a shadow version.
CONSTANTS
  Targets = {"api"}
  Dims <- MCDims
  Patterns <- MCPatterns
  Calls <- MCCalls
  Kind <- MCKind
  Bootstrap <- MCBootstrap
  Contents <- MCContents
  MaxGoal = 2
  None = None
  d1 = d1
  d2 = d2
  p1 = p1
  p2 = p2
  back = back
  shade = shade
SYMMETRY MCSymmetry
SPECIFICATION Spec
INVARIANTS TypeOK VersionsResolve OutcomeHonest
PROPERTY ImplementsLog
\* Every call has returned.
CHECK_DEADLOCK FALSE
