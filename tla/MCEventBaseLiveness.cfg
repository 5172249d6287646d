SPECIFICATION FairSpec
CONSTANTS
  io = io
  pw = pw
  sg = sg
  s1 = s1
  tm = tm
  rd = rd
  SigEv = SigEv
  EvEvents <- MCEvEvents
  Events = {pw}
  Once = {tm}
  MaxPri = 1
  MaxCalls = 1
  Timeouts = {0, 1}
  MaxTime = 2
  MaxOps = 3
  LoopFlags = {{}}
  UseMonotonic = FALSE
  MaxBack = 1
  ReuseInBurst = FALSE
PROPERTIES
  
  TimersFire
  
