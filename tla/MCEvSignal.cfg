SPECIFICATION FairSpec
CONSTANTS
  p1 = p1
  o1 = o1
  p2 = p2
  NSIG = 3
  Events = {p1, o1, p2}
  EventSignal <- MCEventSignal
  Persistent = {p1, p2}
  PipeSize = 2
  MaxSignals = 4
  MaxOps = 5
  AddMayFail = FALSE
INVARIANTS
  CaughtNotForgotten
  NoSleepOverSignal
  HandlersRestored
PROPERTIES
  SignalsReachEvents
