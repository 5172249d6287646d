SPECIFICATION Spec
CONSTANTS
  a = a
  b = b
  q1 = q1
  q2 = q2
  com = com
  org = org
  Null = Null
  Freed = Freed
  Servers = {a, b}
  Queries = {q1, q2}
  Searching = {}
  Dotted = {}
  Domains = {}
  MaxDomains = 0
  InflightLimits = {1}
  MaxRetransmits = 1
  MaxReissues = 1
  MaxTimeouts = 0
  Outcomes = {"ok", "again", "error"}
  MaxLive = 2
  Careful = TRUE
INVARIANTS
  CountersExact
  NeverAborts
  DownServersProbed
  SendingContinues
CHECK_DEADLOCK FALSE
SYMMETRY Symmetric
