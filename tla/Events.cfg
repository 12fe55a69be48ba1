SPECIFICATION MCSpec
CONSTANTS
  Backends = {"polling", "redis"}
  Conns = {c1, c2, c3}
  Events = {e1, e2}
  Pollers = {p1, p2}
  Loop = Loop
  QueueSize = 1
  PollLimit = 1
  MaxTime = 2
  NoEvent = NoEvent
SYMMETRY Symmetry
INVARIANTS TypeOK ClosedSendHasCause BroadcastComplete ProcessedOnce CursorSound
CHECK_DEADLOCK FALSE
