SPECIFICATION Spec
CONSTANTS
  r0 = r0
  w0 = w0
  r2 = r2
  w2 = w2
  b1 = b1
  b2 = b2
  NoEvent = NoEvent
  Events = {r0, w0, r2, w2, b1, b2}
  ev_fd <- MCFd
  ev_events <- MCEvents
  InitialNfiles = 1
  InitialNevents = 1
  MaxNevents = 4
  MinCount = 2
  FdsPerMask = 1
INVARIANTS
  KernelInStep
PROPERTIES
  EpollImplements
  PollImplements
  SelectImplements
