\* A reservation, its retry, a changed body under the same key, a commit.
CONSTANTS
  Calls <- RetryCalls
  Counters = {"leaf", "root"}
  Limit <- MCLimit
  Kind <- RetryKind
  Items <- RetryItems
  Consume <- RetryConsume
  TTL <- RetryTTL
  DefaultTTL = 2
  Target <- RetryTarget
  MaxTime = 2
  Reaper = Reaper
  None = None
  Scope <- RetryScope
  Body <- RetryBody
  IdemTTL = 1
SPECIFICATION ApiSpec
INVARIANTS ApiTypeOK AnswersAgree ChargedOnce
\* Every request has been answered and the process was told to stop.
CHECK_DEADLOCK FALSE
