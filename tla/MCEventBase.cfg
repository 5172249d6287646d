SPECIFICATION Spec
CONSTANTS
  io = io
  pw = pw
  sg = sg
  s1 = s1
  tm = tm
  rd = rd
  SigEv = SigEv
  EvEvents <- MCEvEvents
  Events = {io, sg}
  Once = {rd}
  MaxPri = 2
  MaxCalls = 2
  Timeouts = {0, 1}
  MaxTime = 2
  MaxOps = 3
  LoopFlags = {{}}
  UseMonotonic = TRUE
  MaxBack = 0
  ReuseInBurst = FALSE
INVARIANTS
  QueuesConsistent
  FreeLeavesNothing
  OnceFreedOffQueues
  DelStopsCallbacks
  
  ActiveTimeoutsDue
