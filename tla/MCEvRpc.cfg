SPECIFICATION FairSpec
CONSTANTS
  x1 = x1
  x2 = x2
  x3 = x3
  c1 = c1
  c2 = c2
  Null = Null
  Rpcs = {x1, x2, x3}
  Conns = {c1, c2}
  Outcomes = {"ok"}
INVARIANTS
  RpcsOwned
  ReplyMatches
PROPERTIES
  RpcsTold
