SPECIFICATION FairSpec
CONSTANTS
  a = a
  b = b
  q1 = q1
  q2 = q2
  com = com
  org = org
  Null = Null
  Freed = Freed
  Servers = {a}
  Queries = {q1}
  Searching = {q1}
  Dotted = {q1}
  Domains = {com}
  MaxDomains = 2
  InflightLimits = {1, 2}
  MaxRetransmits = 1
  MaxReissues = 0
  MaxTimeouts = 1
  Outcomes = {"ok", "again"}
  MaxLive = 0
  Careful = TRUE
INVARIANTS
  OneRequestPerQuery
  SearchesEveryName
PROPERTIES
  QueriesAnswered
CHECK_DEADLOCK FALSE
