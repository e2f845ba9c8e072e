\* A reservation refunded after the window it was charged in.
CONSTANTS
  Calls = {"a", "b", "c", "dry"}
  Cost <- MCCost
  Dry = {"dry"}
  Refunded = {"a", "b"}
  Limit = 2
  Burst = 0
  Window = 3
  MaxTime = 4
  Overlap = FALSE
  StepsBack = FALSE
  None = None
SPECIFICATION Spec
INVARIANT KeptWithinLimit
\* Every call has been answered and the clock has reached its bound.
CHECK_DEADLOCK FALSE
