CONSTANTS
  Fds = {f1}
  EventFd = efd
  EventsBegin = 2
  Closers = {stopper}
  MaxWakes = 1
  Callers = {c1}
  Loop = loop
  Stopper = stopper
  MaxTasks = 2
SPECIFICATION Spec
INVARIANTS
  NeverFatal
CHECK_DEADLOCK FALSE
