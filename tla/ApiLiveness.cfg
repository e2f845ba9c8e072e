\* A reservation, its retry and a cancellation, under fairness.
CONSTANTS
  Calls <- LiveCalls
  Counters = {"leaf", "root"}
  Limit <- MCLimit
  Kind <- LiveKind
  Items <- LiveItems
  Consume <- LiveConsume
  TTL <- LiveTTL
  DefaultTTL = 2
  Target <- LiveTarget
  MaxTime = 1
  Reaper = Reaper
  None = None
  Scope <- LiveScope
  Body <- LiveBody
  IdemTTL = 2
SPECIFICATION ApiFairSpec
PROPERTIES RequestsAnswered PendingSettles RefundCompletes
\* Every request has been answered and the process was told to stop.
CHECK_DEADLOCK FALSE
