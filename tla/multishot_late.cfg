SPECIFICATION Spec
CONSTANTS
  Callers = {c1, c2}
  Runners = {r1, r2}
  MaxRequests = 3
CHECK_DEADLOCK FALSE
INVARIANT LatestPublished
