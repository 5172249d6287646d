SPECIFICATION Spec
CONSTANTS
  q1 = q1
  q2 = q2
  Null = Null
  Reqs = {q1, q2}
  MaxItems = 2
  Fit = 1
  Outcomes = {"ok", "again", "error"}
INVARIANTS
  LinksRemoved
CHECK_DEADLOCK FALSE
