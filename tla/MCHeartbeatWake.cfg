\* Two lifecycles, two targets, urgent and ordinary reasons.
CONSTANTS
  Targets = {t1, t2}
  Priorities = {1, 3}
  MaxGens = 3
  MaxRequests = 3
  MaxFailures = 2
SPECIFICATION FairSpec
CHECK_DEADLOCK FALSE
INVARIANTS
  WakeArmed
  RunsBounded
PROPERTIES
  PriorityKept
  WakesServed
