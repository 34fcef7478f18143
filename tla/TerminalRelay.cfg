\* A queue of two messages and three bytes; chunks of two, pongs of one.
SPECIFICATION FairSpec
CONSTANTS
  Chunks = {2}
  PongSize = 1
  MaxBytes = 3
  MaxMessages = 2
  Idle = 2
  Absolute = 3
INVARIANTS
  QueueIsAccounted
  NoSilentEnd
PROPERTIES
  IdleIsQuiet
  SessionEnds
\* A session that has returned does nothing any more.
CHECK_DEADLOCK FALSE
