SPECIFICATION FairSpec
CONSTANTS
  r1 = r1
  r2 = r2
  r3 = r3
  Null = Null
  Requests = {r1, r2, r3}
  Closers = {r2}
  Roles = {"client", "server"}
  Messages <- MCMessages
  RetryMax = 1
  MaxSent = 2
  MaxOut = 2
  MayRefuse = TRUE
INVARIANTS
  NoFault
  
  OneOwner
  CloseDetectedIdle
PROPERTIES
  RequestsEnd
