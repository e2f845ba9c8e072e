\* A signal while events are queued.
CONSTANTS
  Handlers = {h1, h2}
  QueueSize = 2
  SinkMax = 2
  None = None
SPECIFICATION Spec
INVARIANT NothingLost
\* The process has ended.
CHECK_DEADLOCK FALSE
