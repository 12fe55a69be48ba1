SPECIFICATION MCSpec
CONSTANTS
  Backends = {"polling"}
  Conns = {c1, c2, c3}
  Events = {e1}
  Pollers = {p1}
  Loop = Loop
  QueueSize = 1
  PollLimit = 1
  MaxTime = 0
  NoEvent = NoEvent
SYMMETRY Symmetry
INVARIANTS BroadcastReachesAll
CHECK_DEADLOCK FALSE
