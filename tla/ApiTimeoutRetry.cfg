\* A reservation whose client times out, and its retry.
CONSTANTS
  Calls <- RetryCalls
  Counters = {"leaf", "root"}
  Limit <- MCLimit
  Kind <- RetryKind
  Items <- RetryItems
  Consume <- RetryConsume
  TTL <- RetryTTL
  DefaultTTL = 2
  Target <- RetryTarget
  MaxTime = 2
  Reaper = Reaper
  None = None
  Scope <- RetryScope
  Body <- RetryBody
  IdemTTL = 3
SPECIFICATION ApiSpec
INVARIANT RetryNeverRecharges
\* Every request has been answered and the process was told to stop.
CHECK_DEADLOCK FALSE
