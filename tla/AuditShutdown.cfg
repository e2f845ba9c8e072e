\* Handlers publish, some of them detached, while the process shuts down.
CONSTANTS
  Handlers = {h1, h2, h3}
  QueueSize = 2
  SinkMax = 2
  None = None
SPECIFICATION FairSpec
INVARIANTS TypeOK Accounted CloseDrains
PROPERTY ShutdownEnds
\* The process has ended.
CHECK_DEADLOCK FALSE
