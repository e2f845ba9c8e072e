\* Two reservations, a commit and a cancellation of the first, the reaper.
CONSTANTS
  Calls <- RsvCalls
  Counters = {"leaf", "root"}
  Limit <- MCLimit
  Kind <- RsvKind
  Items <- RsvItems
  Consume <- RsvConsume
  TTL <- RsvTTL
  DefaultTTL = 2
  Target <- RsvTarget
  MaxTime = 2
  Reaper = Reaper
  None = None
SPECIFICATION Spec
INVARIANTS TypeOK ExactCharge
PROPERTIES Lifecycle ImplementsLedger
\* Every call has returned and the process was told to stop.
CHECK_DEADLOCK FALSE
