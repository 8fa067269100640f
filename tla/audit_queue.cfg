\* Two slots, five events: the buffer fills, wraps, and shuts down at any time.
\* The node really stops: after the shutdown nothing is left to do.
SPECIFICATION QueueSpec
CONSTANTS
  Event = {e1, e2, e3, e4, e5}
  NoEvent = NoEvent
  Worker = Worker
  BufferCapacity = 2
  LockHops = 2
  e1 = e1
  e2 = e2
  e3 = e3
  e4 = e4
  e5 = e5
PROPERTY ImplementsTrail
CHECK_DEADLOCK FALSE
