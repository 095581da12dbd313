CONSTANTS
  IdleTimes = {1, 3}
  Second = 2
  MaxLag = 1
  MaxTimers = 3
  MaxTasks = 2
SPECIFICATION Spec
INVARIANTS
  TypeOK
  FatalOnlyWhenStalled
PROPERTIES
  ClosedOnlyIdle
  IdleIsClosed
  TimersEnd
CHECK_DEADLOCK FALSE
