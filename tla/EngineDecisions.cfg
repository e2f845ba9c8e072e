\* A batch, a reservation and a dry run on shared counters.
CONSTANTS
  Calls <- DecCalls
  Counters = {"leaf", "root"}
  Limit <- MCLimit
  Kind <- DecKind
  Items <- DecItems
  Consume <- DecConsume
  TTL <- DecTTL
  DefaultTTL = 2
  Target <- DecTarget
  MaxTime = 0
  Reaper = Reaper
  None = None
SPECIFICATION Spec
INVARIANTS ExactCharge WithinLimit
PROPERTY ImplementsLedger
\* Every call has returned and the process was told to stop.
CHECK_DEADLOCK FALSE
