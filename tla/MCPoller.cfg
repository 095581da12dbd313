CONSTANTS
  Fds = {f1, f2}
  EventFd = efd
  EventsBegin = 1
  Closers = {c1, c2}
  MaxWakes = 3
SPECIFICATION PollerSpec
INVARIANTS
  PollerTypeOK
  FdsOpenWhilePolling
PROPERTIES
  WakeIsHandled
  CloseReturns
CHECK_DEADLOCK FALSE
