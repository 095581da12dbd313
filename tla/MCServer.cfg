CONSTANTS
  NumLoops = 2
  FdNums = {5, 6}
  MaxConns = 3
  MaxTasks = 2
SPECIFICATION Spec
INVARIANTS
  TypeOK
  EventsReachOwner
  ClosedExactlyOnce
  
  NoLoopFatal
  LeftoversQueued
PROPERTIES
  StopEnds
  QuietAfterStop
CHECK_DEADLOCK FALSE
