CONSTANTS
  Fds = {f1}
  EventFd = efd
  EventsBegin = 2
  Closers = {stopper}
  MaxWakes = 1
  Callers = {c1, c2}
  Loop = loop
  Stopper = stopper
  MaxTasks = 3
SPECIFICATION Spec
INVARIANTS
  TypeOK
  NoLostWakeup
  WakesCoalesced
  TasksInOrder
PROPERTIES
  ImplementsTaskQueue
CHECK_DEADLOCK FALSE
