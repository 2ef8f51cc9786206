CONSTANTS
  a = a
  b = b
  c = c
  here = here
  there = there
  Unkeyed = Unkeyed
  Unroutable = Unroutable
  None = None
  q1 = q1
  q2 = q2
  q3 = q3
  Messages = {a, b}
  Objects = {q1, q2, q3}
  Route <- MCRoute
  Settings <- RejectNew
  MaxAccepted = 3
  MaxFailures = 1
  MaxClears = 2
SPECIFICATION Spec
CHECK_DEADLOCK FALSE
PROPERTIES
  ClearedNeverRuns
