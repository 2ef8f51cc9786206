CONSTANTS
  a = a
  b = b
  c = c
  here = here
  there = there
  Unkeyed = Unkeyed
  Unroutable = Unroutable
  None = None
  q1 = q1
  q2 = q2
  q3 = q3
  Messages = {a, b, c}
  Objects = {q1, q2}
  Route <- MCRoute
  Settings <- RejectNew
  MaxAccepted = 3
  MaxFailures = 1
  MaxClears = 0
SPECIFICATION FairSpec
CHECK_DEADLOCK FALSE
INVARIANTS
  NothingLost
  RunsInArrivalOrder
  QueuedOnce
PROPERTIES
  QueuedEventuallyRuns
