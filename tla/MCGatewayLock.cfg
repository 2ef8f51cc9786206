\* Processes that contend, restart in place and crash.
CONSTANTS
  Procs = {p1, p2}
  Supervised = TRUE
  NoFile = NoFile
  NoOwner = NoOwner
  MaxStarts = 2
  MaxRestarts = 2
  MaxCrashes = 1
SPECIFICATION FairSpec
CHECK_DEADLOCK FALSE

  
PROPERTIES
  BreachEnds
  LockNotStuck
